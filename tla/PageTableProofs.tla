---------------------------- MODULE PageTableProofs ----------------------------
(***************************************************************************)
(* Proofs about translation tables, for every size and depth of table: what *)
(* map_range does to the walks from every root, and that it never takes a   *)
(* table apart.                                                             *)
(***************************************************************************)
EXTENDS PageTables, WellFoundedInduction, TLAPS

-----------------------------------------------------------------------------
(* Arithmetic *)

(* A nonempty set of naturals has a least element: induction for what follows. *)
LEMMA LeastOf ==
  ASSUME NEW T \in SUBSET Nat, T # {}
  PROVE  \E n \in T : \A k \in T : n <= k
<1> DEFINE Less == OpToRel(<, Nat)
<1>1. IsWellFoundedOn(Less, Nat)
  BY NatLessThanWellFounded
<1>2. PICK x \in T : \A y \in T : ~ (<<y, x>> \in Less)
  <2> HIDE DEF Less
  <2> QED BY <1>1, WFMin
<1>3. ASSUME NEW y \in T PROVE x <= y
  <2>1. <<y, x>> \notin {ss \in Nat \X Nat : ss[1] < ss[2]}
    BY <1>2 DEF OpToRel
  <2> QED BY <2>1
<1> QED BY <1>3

(* ... and the set of those up to a bound that lack something has none before it. *)
LEMMA FirstOf ==
  ASSUME NEW T \in SUBSET Nat, T # {}
  PROVE  \E n \in T : n = 0 \/ (n - 1 \in Nat /\ n - 1 \notin T)
<1>1. PICK n \in T : \A k \in T : n <= k
  BY LeastOf
<1> QED BY <1>1

(* A bounded nonempty set of naturals has a greatest element. *)
LEMMA GreatestOf ==
  ASSUME NEW b \in Nat, NEW T \in SUBSET (0 .. b), T # {}
  PROVE  \E n \in T : \A k \in T : k <= n
<1> DEFINE U == {b - k : k \in T}
<1>1. U \in SUBSET Nat /\ U # {}
  <2>1. \A k \in T : b - k \in Nat
    OBVIOUS
  <2>2. PICK k \in T : TRUE
    OBVIOUS
  <2>3. b - k \in U
    BY <2>2
  <2> QED BY <2>1, <2>3
<1>2. PICK x \in U : \A y \in U : x <= y
  <2> HIDE DEF U
  <2> QED BY <1>1, LeastOf
<1>3. PICK n \in T : x = b - n
  BY <1>2
<1>4. ASSUME NEW k \in T PROVE k <= n
  <2>1. b - k \in U /\ k \in Int /\ n \in Int
    OBVIOUS
  <2>2. b - n <= b - k
    <3> HIDE DEF U
    <3> QED BY <1>2, <1>3, <2>1
  <2> QED BY <2>1, <2>2
<1> QED BY <1>4

(* A product with a positive factor grows with the other one. *)
LEMMA Multiples ==
  ASSUME NEW c \in Nat \ {0}, NEW q \in Int, NEW p \in Int
  PROVE  /\ c * q \in Int /\ c * p \in Int /\ (q \in Nat => c * q \in Nat)
         /\ c * (q - p) = (c * q) - (c * p)
         /\ q >= p + 1 => c * q >= (c * p) + c
         /\ q >= p => c * q >= c * p
<1>1. c * q \in Int /\ c * p \in Int /\ c * (q - p) = (c * q) - (c * p)
  OBVIOUS
<1>2. ASSUME NEW n \in Nat PROVE c * n \in Nat
  OBVIOUS
<1>3. ASSUME q >= p + 1 PROVE c * q >= (c * p) + c
  <2>1. q - (p + 1) \in Nat
    BY <1>3
  <2>2. c * (q - (p + 1)) >= 0
    BY <1>2, <2>1
  <2>3. c * (q - (p + 1)) = (c * q) - ((c * p) + c)
    OBVIOUS
  <2> QED BY <1>1, <2>2, <2>3
<1>4. ASSUME q >= p PROVE c * q >= c * p
  <2>1. q - p \in Nat
    BY <1>4
  <2>2. c * (q - p) >= 0
    BY <1>2, <2>1
  <2> QED BY <1>1, <2>2
<1> QED BY <1>1, <1>2, <1>3, <1>4

(* Division with remainder *)
LEMMA Division ==
  ASSUME NEW c \in Nat \ {0}, NEW a \in Nat
  PROVE  /\ a \div c \in Nat /\ (a % c) \in 0 .. c - 1
         /\ a = (c * (a \div c)) + (a % c)
OBVIOUS

(* ... and there is only one. *)
LEMMA DivisionUnique ==
  ASSUME NEW c \in Nat \ {0}, NEW q \in Int, NEW p \in Int, NEW r \in 0 .. c - 1,
         NEW x \in 0 .. c - 1, (c * q) + r = (c * p) + x
  PROVE  q = p /\ r = x
<1>1. c * q \in Int /\ c * p \in Int
  OBVIOUS
<1>2. q >= p + 1 => c * q >= (c * p) + c
  BY Multiples
<1>3. p >= q + 1 => c * p >= (c * q) + c
  BY Multiples
<1>4. q = p
  BY <1>1, <1>2, <1>3
<1> QED BY <1>1, <1>4

(* Dividing by a product is dividing twice. *)
LEMMA DivideTwice ==
  ASSUME NEW c \in Nat \ {0}, NEW e \in Nat \ {0}, NEW a \in Nat
  PROVE  /\ e * c \in Nat \ {0}
         /\ a \div (e * c) = (a \div c) \div e
<1>0. e * c \in Nat \ {0}
  <2>1. e * c >= e * 1
    BY Multiples
  <2> QED BY <2>1
<1>1. PICK q \in Nat, r \in 0 .. c - 1 : q = a \div c /\ a = (c * q) + r
  BY Division
<1>2. PICK p \in Nat, i \in 0 .. e - 1 : p = q \div e /\ q = (e * p) + i
  BY Division
<1>3. PICK b \in Nat, x \in 0 .. (e * c) - 1 : b = a \div (e * c) /\ a = ((e * c) * b) + x
  BY <1>0, Division
<1>4. c * q = (c * (e * p)) + (c * i)
  <2> DEFINE w == e * p
  <2>1. w \in Int /\ i \in Int /\ q = w + i
    BY <1>2
  <2> HIDE DEF w
  <2>2. c * (w + i) = (c * w) + (c * i)
    BY <2>1
  <2> QED BY <2>1, <2>2 DEF w
<1>5. c * (e * p) = (e * c) * p /\ (e * c) * p \in Int
  OBVIOUS
<1>6. (c * i) + r \in 0 .. (e * c) - 1
  <2>1. c * i \in Nat /\ c * e >= (c * i) + c
    BY Multiples
  <2>2. c * e = e * c
    OBVIOUS
  <2> QED BY <2>1, <2>2
<1>7. a = ((e * c) * p) + ((c * i) + r)
  <2>1. c * i \in Int /\ r \in Int /\ c * q \in Int
    OBVIOUS
  <2> QED BY <1>1, <1>4, <1>5, <2>1
<1>8. ((e * c) * p) + ((c * i) + r) = ((e * c) * b) + x
  BY <1>3, <1>7
<1>9. p = b
  <2> DEFINE w == e * c
             y == (c * i) + r
  <2>1. w \in Nat \ {0} /\ y \in 0 .. w - 1 /\ (w * p) + y = (w * b) + x /\ x \in 0 .. w - 1
    BY <1>0, <1>3, <1>6, <1>8
  <2> HIDE DEF w, y
  <2> QED BY <2>1, DivisionUnique
<1> QED BY <1>0, <1>1, <1>2, <1>3, <1>9

-----------------------------------------------------------------------------
(* Addresses and the indices taken from them *)

(* The recursion that defines the spans has a solution. *)
LEMMA PowerDef ==
  Power = [n \in 0 .. LAST_LEVEL + 1 |-> IF n = 0 THEN 1 ELSE ENTRIES * Power[n - 1]]
<1> DEFINE Upto(x, k) == x = [n \in 0 .. k |-> IF n = 0 THEN 1 ELSE ENTRIES * x[n - 1]]
           Bad == {k \in Nat : ~ \E x : Upto(x, k)}
<1>1. ASSUME Bad # {} PROVE FALSE
  <2>1. PICK k \in Bad : k = 0 \/ (k - 1 \in Nat /\ k - 1 \notin Bad)
    BY <1>1, FirstOf
  <2>2. CASE k = 0
    <3>1. Upto([n \in 0 .. 0 |-> 1], 0)
      OBVIOUS
    <3> QED BY <2>1, <2>2, <3>1
  <2>3. CASE k # 0
    <3>1. PICK x : Upto(x, k - 1)
      BY <2>1, <2>3
    <3> DEFINE y == [n \in 0 .. k |-> IF n = k THEN ENTRIES * x[k - 1] ELSE x[n]]
    <3>2. k \in Nat /\ \A n \in 0 .. k - 1 : x[n] = IF n = 0 THEN 1 ELSE ENTRIES * x[n - 1]
      BY <2>1, <3>1
    <3>3. \A n \in 0 .. k : y[n] = IF n = 0 THEN 1 ELSE ENTRIES * y[n - 1]
      <4> TAKE n \in 0 .. k
      <4>1. CASE n = k
        BY <2>3, <3>2, <4>1
      <4>2. CASE n # k
        <5>1. n \in 0 .. k - 1 /\ (n # 0 => n - 1 \in 0 .. k - 1)
          BY <3>2, <4>2
        <5> QED BY <3>2, <5>1
      <4> QED BY <4>1, <4>2
    <3>4. Upto(y, k)
      <4>1. y = [n \in 0 .. k |-> y[n]]
        OBVIOUS
      <4> HIDE DEF y
      <4> QED BY <3>3, <4>1
    <3> QED BY <2>1, <3>4
  <2> QED BY <2>2, <2>3
<1>2. LAST_LEVEL + 1 \in Nat
  BY TablesAssumption
<1>3. \E x : Upto(x, LAST_LEVEL + 1)
  BY <1>1, <1>2
<1>4. Upto(CHOOSE x : Upto(x, LAST_LEVEL + 1), LAST_LEVEL + 1)
  BY <1>3, Zenon
<1> QED BY <1>4 DEF Power

(* Every span is a positive number, ENTRIES times the next one. *)
LEMMA PowerStep ==
  /\ Power[0] = 1
  /\ \A n \in 0 .. LAST_LEVEL + 1 : Power[n] \in Nat \ {0}
  /\ \A n \in 0 .. LAST_LEVEL : Power[n + 1] = ENTRIES * Power[n]
<1>0. LAST_LEVEL \in Nat \ {0} /\ ENTRIES \in Nat \ {0}
  BY TablesAssumption
<1>1. Power[0] = 1
  BY <1>0, PowerDef
<1>2. ASSUME NEW n \in 0 .. LAST_LEVEL PROVE Power[n + 1] = ENTRIES * Power[n]
  <2>1. n + 1 \in 0 .. LAST_LEVEL + 1 /\ n + 1 # 0 /\ (n + 1) - 1 = n
    BY <1>0
  <2> QED BY <2>1, PowerDef
<1> DEFINE Bad == {n \in 0 .. LAST_LEVEL + 1 : Power[n] \notin Nat \ {0}}
<1>3. ASSUME Bad # {} PROVE FALSE
  <2>1. Bad \in SUBSET Nat
    OBVIOUS
  <2>2. PICK n \in Bad : n = 0 \/ (n - 1 \in Nat /\ n - 1 \notin Bad)
    BY <1>3, <2>1, FirstOf
  <2>3. CASE n = 0
    BY <1>1, <2>2, <2>3
  <2>4. CASE n # 0
    <3>1. n - 1 \in 0 .. LAST_LEVEL /\ (n - 1) + 1 = n
      BY <1>0, <2>2, <2>4
    <3>2. Power[n - 1] \in Nat \ {0} /\ Power[n] = ENTRIES * Power[n - 1]
      BY <1>0, <1>2, <2>2, <2>4, <3>1
    <3>3. Power[n] \in Nat \ {0}
      BY <1>0, <3>2, DivideTwice
    <3> QED BY <2>2, <3>3
  <2> QED BY <2>3, <2>4
<1> QED BY <1>1, <1>2, <1>3

(* The spans by level *)
LEMMA Spans ==
  /\ ENTRIES \in Nat \ {0} /\ LAST_LEVEL \in Nat \ {0}
  /\ Span(LAST_LEVEL) = 1 /\ BLOCK = ENTRIES /\ Span(LAST_LEVEL - 1) = ENTRIES
  /\ \A level \in 0 .. LAST_LEVEL : Span(level) \in Nat \ {0}
  /\ \A level \in 0 .. LAST_LEVEL - 1 : Span(level) = ENTRIES * Span(level + 1)
  /\ PAGES \in Nat \ {0} /\ PAGES = ENTRIES * Span(0)
<1>0. LAST_LEVEL \in Nat \ {0} /\ ENTRIES \in Nat \ {0}
  BY TablesAssumption
<1>1. Span(LAST_LEVEL) = 1
  BY <1>0, PowerStep DEF Span
<1>2. \A level \in 0 .. LAST_LEVEL : Span(level) \in Nat \ {0}
  BY <1>0, PowerStep DEF Span
<1>3. ASSUME NEW level \in 0 .. LAST_LEVEL - 1 PROVE Span(level) = ENTRIES * Span(level + 1)
  <2>1. LAST_LEVEL - (level + 1) \in 0 .. LAST_LEVEL
        /\ (LAST_LEVEL - (level + 1)) + 1 = LAST_LEVEL - level
    BY <1>0
  <2> QED BY <2>1, PowerStep DEF Span
<1>4. Span(LAST_LEVEL - 1) = ENTRIES
  <2>1. LAST_LEVEL - 1 \in 0 .. LAST_LEVEL - 1 /\ (LAST_LEVEL - 1) + 1 = LAST_LEVEL
    BY <1>0
  <2>2. Span(LAST_LEVEL - 1) = ENTRIES * 1
    BY <1>1, <1>3, <2>1
  <2> QED BY <1>0, <2>2
<1>5. PAGES \in Nat \ {0}
  BY <1>0, <1>2, DivideTwice DEF PAGES
<1> QED BY <1>0, <1>1, <1>2, <1>3, <1>4, <1>5 DEF BLOCK, PAGES

(* The indices of a page, level by level, spell it out in base ENTRIES. *)
LEMMA Indices ==
  ASSUME NEW va \in Pages
  PROVE  /\ va \in Nat /\ Prefix(va, 0) = 0
         /\ \A level \in 0 .. LAST_LEVEL :
              /\ Prefix(va, level) \in Nat /\ TableIndex(va, level) \in 0 .. ENTRIES - 1
              /\ va \div Span(level) = (ENTRIES * Prefix(va, level)) + TableIndex(va, level)
         /\ \A level \in 0 .. LAST_LEVEL - 1 :
              Prefix(va, level + 1) = (ENTRIES * Prefix(va, level)) + TableIndex(va, level)
         /\ va = (ENTRIES * Prefix(va, LAST_LEVEL)) + TableIndex(va, LAST_LEVEL)
<1>0. /\ LAST_LEVEL \in Nat \ {0} /\ ENTRIES \in Nat \ {0} /\ va \in Nat /\ va < PAGES
      /\ PAGES \in Nat \ {0}
  BY Spans DEF Pages
<1>1. Prefix(va, 0) = 0
  <2>1. PICK q \in Nat, r \in 0 .. PAGES - 1 : q = va \div PAGES /\ va = (PAGES * q) + r
    BY <1>0, Division
  <2>2. (PAGES * q) + r = (PAGES * 0) + va /\ va \in 0 .. PAGES - 1
    BY <1>0, <2>1
  <2>3. q = 0
    BY <1>0, <2>2, DivisionUnique
  <2> QED BY <2>1, <2>3 DEF Prefix, PAGES
<1>2. ASSUME NEW level \in 0 .. LAST_LEVEL
      PROVE  /\ Prefix(va, level) \in Nat /\ TableIndex(va, level) \in 0 .. ENTRIES - 1
             /\ va \div Span(level) = (ENTRIES * Prefix(va, level)) + TableIndex(va, level)
  <2>1. Span(level) \in Nat \ {0}
    BY Spans
  <2>2. PICK q \in Nat : q = va \div Span(level)
    BY <1>0, <2>1, Division
  <2>3. Prefix(va, level) = q \div ENTRIES
    BY <1>0, <2>1, <2>2, DivideTwice DEF Prefix
  <2>4. TableIndex(va, level) = (q % ENTRIES)
    BY <2>2 DEF TableIndex
  <2> QED BY <1>0, <2>2, <2>3, <2>4, Division
<1>3. ASSUME NEW level \in 0 .. LAST_LEVEL - 1
      PROVE  Prefix(va, level + 1) = (ENTRIES * Prefix(va, level)) + TableIndex(va, level)
  <2>1. level \in 0 .. LAST_LEVEL /\ Span(level) = ENTRIES * Span(level + 1)
    BY <1>0, Spans
  <2> QED BY <1>2, <2>1 DEF Prefix
<1>4. va = (ENTRIES * Prefix(va, LAST_LEVEL)) + TableIndex(va, LAST_LEVEL)
  <2>1. LAST_LEVEL \in 0 .. LAST_LEVEL /\ Span(LAST_LEVEL) = 1 /\ va \div 1 = va
    BY <1>0, Spans
  <2> QED BY <1>2, <2>1
<1> QED BY <1>0, <1>1, <1>2, <1>3, <1>4

(* The pages that an entry covers are the ones that share its indices. *)
LEMMA Chunks ==
  ASSUME NEW va \in Pages, NEW page \in Pages, NEW level \in 0 .. LAST_LEVEL,
         va % Span(level) = 0
  PROVE  /\ (Prefix(page, level) = Prefix(va, level) /\ TableIndex(page, level) = TableIndex(va, level))
              <=> page \in va .. va + Span(level) - 1
         /\ page \in va .. va + Span(level) - 1 => page % Span(level) = page - va
<1> DEFINE s == Span(level)
           q == va \div s
           p == page \div s
<1>1. s \in Nat \ {0} /\ ENTRIES \in Nat \ {0}
  BY Spans
<1>2. va \in Nat /\ page \in Nat
  BY Indices
<1>3. q \in Nat /\ va = s * q /\ s * q \in Nat
  <2>1. va \div s \in Nat /\ va = (s * (va \div s)) + (va % s)
    <3> HIDE DEF s, q, p
    <3> QED BY <1>1, <1>2, Division
  <2>2. va = (s * q) + 0
    BY <2>1
  <2>3. s * q \in Nat
    <3> HIDE DEF s, q, p
    <3> QED BY <1>1, <2>1, Multiples DEF q
  <2> HIDE DEF s, q, p
  <2> QED BY <2>1, <2>2, <2>3 DEF q
<1>4. p \in Nat /\ page % s \in 0 .. s - 1 /\ page = (s * p) + (page % s)
  <2> HIDE DEF s
  <2> QED BY <1>1, <1>2, Division
<1>5. q = (ENTRIES * Prefix(va, level)) + TableIndex(va, level)
      /\ p = (ENTRIES * Prefix(page, level)) + TableIndex(page, level)
  BY Indices
<1>6. TableIndex(va, level) = q % ENTRIES /\ TableIndex(page, level) = p % ENTRIES
  BY DEF TableIndex
<1>7. Prefix(va, level) = q \div ENTRIES /\ Prefix(page, level) = p \div ENTRIES
  BY <1>1, <1>2, DivideTwice DEF Prefix
<1>8. ASSUME p = q PROVE page \in va .. va + s - 1
  <2>1. page = va + (page % s)
    BY <1>3, <1>4, <1>8
  <2> HIDE DEF s, q, p
  <2> QED BY <1>1, <1>2, <1>4, <2>1
<1>9. ASSUME page \in va .. va + s - 1 PROVE p = q /\ page % s = page - va
  <2>1. page - va \in 0 .. s - 1 /\ (s * p) + (page % s) = (s * q) + (page - va)
    <3> HIDE DEF s, q, p
    <3> QED BY <1>1, <1>2, <1>3, <1>4, <1>9
  <2> HIDE DEF s, q, p
  <2> QED BY <1>1, <1>3, <1>4, <2>1, DivisionUnique
<1> HIDE DEF s, q, p
<1>10. Prefix(page, level) = Prefix(va, level) /\ TableIndex(page, level) = TableIndex(va, level) <=> p = q
  BY <1>5, <1>6, <1>7
<1> QED BY <1>8, <1>9, <1>10 DEF s

-----------------------------------------------------------------------------
(* Trees of tables.  A map h of homes says of each table where it hangs: under  *)
(* which root, at which level and after which indices.                          *)

Place(root, level, above) == [root |-> root, level |-> level, above |-> above]
IsRoot(h, root) == root \in DOMAIN h /\ h[root] = Place(root, 0, 0)

(* What a valid entry can be: the next table, or a page or a block *)
LeadsToTable(mem, h, f, i) ==
  /\ h[f].level < LAST_LEVEL /\ ~mem.table[f][i].block
  /\ mem.table[f][i].at \in DOMAIN h
  /\ h[mem.table[f][i].at] = Place(h[f].root, h[f].level + 1, (ENTRIES * h[f].above) + i)

IsLeaf(mem, h, f, i) ==
  /\ \/ h[f].level = LAST_LEVEL /\ ~mem.table[f][i].block
     \/ h[f].level = LAST_LEVEL - 1 /\ mem.table[f][i].block
  /\ mem.table[f][i].at \in Nat /\ mem.table[f][i].attrs # "fault"

InMemory(mem, h) ==
  /\ mem.ok /\ DOMAIN mem.table \subseteq Nat /\ mem.free \subseteq DOMAIN mem.table
  /\ DOMAIN h \subseteq DOMAIN mem.table \ mem.free

HomesOf(h) ==
  \A f \in DOMAIN h :
    /\ h[f].level \in 0 .. LAST_LEVEL /\ IsRoot(h, h[f].root)
    /\ \E va \in Pages : h[f] = Place(h[f].root, h[f].level, Prefix(va, h[f].level))

OneEach(h) == \A f, g \in DOMAIN h : h[f] = h[g] => f = g

EntriesLead(mem, h) ==
  \A f \in DOMAIN h : \A i \in DOMAIN mem.table[f] :
    i \in 0 .. ENTRIES - 1 /\ (LeadsToTable(mem, h, f, i) \/ IsLeaf(mem, h, f, i))

Attached(mem, h) ==
  \A f \in DOMAIN h : h[f].level # 0 =>
    \E p \in DOMAIN h : \E i \in DOMAIN mem.table[p] :
      LeadsToTable(mem, h, p, i) /\ mem.table[p][i].at = f

ShapeOf(mem, h) ==
  InMemory(mem, h) /\ HomesOf(h) /\ OneEach(h) /\ EntriesLead(mem, h) /\ Attached(mem, h)

(* No table of the last level, but perhaps x, is empty. *)
Filled(mem, h, x) ==
  \A f \in DOMAIN h : h[f].level = LAST_LEVEL /\ f # x => DOMAIN mem.table[f] # {}

(* The tables of one root *)
TablesOf(h, root) == {f \in DOMAIN h : h[f].root = root}

(* The walk is the recursion it is defined by. *)
LEMMA PathDef ==
  ASSUME NEW tables, NEW root, NEW va
  PROVE  LET path == Path(tables, root, va)
         IN path = [level \in 0 .. LAST_LEVEL |->
              IF level = 0 THEN root ELSE Follow(tables, path[level - 1], TableIndex(va, level - 1))]
<1> DEFINE Step(t, level) == Follow(tables, t, TableIndex(va, level - 1))
           Upto(x, k) == x = [level \in 0 .. k |-> IF level = 0 THEN root ELSE Step(x[level - 1], level)]
           Bad == {k \in Nat : ~ \E x : Upto(x, k)}
<1>1. ASSUME Bad # {} PROVE FALSE
  <2>0. Bad \in SUBSET Nat
    OBVIOUS
  <2>1. PICK k \in Bad : k = 0 \/ (k - 1 \in Nat /\ k - 1 \notin Bad)
    <3> HIDE DEF Bad
    <3> QED BY <1>1, <2>0, FirstOf
  <2> HIDE DEF Step
  <2>2. CASE k = 0
    <3>1. Upto([level \in 0 .. 0 |-> root], 0)
      OBVIOUS
    <3> QED BY <2>1, <2>2, <3>1
  <2>3. CASE k # 0
    <3>1. PICK x : Upto(x, k - 1)
      BY <2>1, <2>3
    <3> DEFINE y == [level \in 0 .. k |-> IF level = k THEN Step(x[k - 1], k) ELSE x[level]]
    <3>2. k \in Nat /\ \A level \in 0 .. k - 1 : x[level] = IF level = 0 THEN root ELSE Step(x[level - 1], level)
      BY <2>1, <3>1
    <3>3. \A level \in 0 .. k : y[level] = IF level = 0 THEN root ELSE Step(y[level - 1], level)
      <4> TAKE level \in 0 .. k
      <4>1. CASE level = k
        BY <2>3, <3>2, <4>1
      <4>2. CASE level # k
        <5>1. level \in 0 .. k - 1 /\ (level # 0 => level - 1 \in 0 .. k - 1)
          BY <3>2, <4>2
        <5> QED BY <3>2, <5>1
      <4> QED BY <4>1, <4>2
    <3>4. Upto(y, k)
      <4>1. y = [level \in 0 .. k |-> y[level]]
        OBVIOUS
      <4> HIDE DEF y
      <4> QED BY <3>3, <4>1
    <3> QED BY <2>1, <3>4
  <2> QED BY <2>2, <2>3
<1>2. \E x : Upto(x, LAST_LEVEL)
  BY <1>1, TablesAssumption
<1>3. Upto(CHOOSE x : Upto(x, LAST_LEVEL), LAST_LEVEL)
  BY <1>2, Zenon
<1> QED BY <1>3 DEF Path

(* ... step by step *)
LEMMA PathSteps ==
  ASSUME NEW tables, NEW root, NEW va, NEW level \in 0 .. LAST_LEVEL
  PROVE  /\ Path(tables, root, va)[0] = root
         /\ level # 0 => Path(tables, root, va)[level]
                           = Follow(tables, Path(tables, root, va)[level - 1], TableIndex(va, level - 1))
<1>1. 0 \in 0 .. LAST_LEVEL
  BY TablesAssumption
<1> DEFINE path == Path(tables, root, va)
<1>2. path = [l \in 0 .. LAST_LEVEL |->
          IF l = 0 THEN root ELSE Follow(tables, path[l - 1], TableIndex(va, l - 1))]
  BY PathDef
<1> HIDE DEF path
<1>3. path[0] = root /\ (level # 0 => path[level] = Follow(tables, path[level - 1], TableIndex(va, level - 1)))
  BY <1>1, <1>2
<1> QED BY <1>3 DEF path

(* What a written table holds *)
LEMMA WriteIs ==
  ASSUME NEW tables, NEW t \in DOMAIN tables, NEW index, NEW entry
  PROVE  LET after == Write(tables, t, index, entry)
         IN /\ DOMAIN after = DOMAIN tables
            /\ \A f \in DOMAIN tables : f # t => after[f] = tables[f]
            /\ DOMAIN after[t] = DOMAIN tables[t] \cup {index} /\ after[t][index] = entry
            /\ \A i \in DOMAIN tables[t] : i # index => after[t][i] = tables[t][i]
BY DEF Write

(* A walk meets only tables of its root, each at the home of its indices. *)
LEMMA PathWithin ==
  ASSUME NEW mem, NEW h, ShapeOf(mem, h), NEW root, IsRoot(h, root), NEW va \in Pages,
         NEW level \in 0 .. LAST_LEVEL
  PROVE  LET f == Path(mem.table, root, va)[level]
         IN f = NoFrame \/ (f \in DOMAIN h /\ h[f] = Place(root, level, Prefix(va, level)))
<1> DEFINE path == Path(mem.table, root, va)
           Good(l) == path[l] = NoFrame \/ (path[l] \in DOMAIN h /\ h[path[l]] = Place(root, l, Prefix(va, l)))
           Bad == {l \in 0 .. LAST_LEVEL : ~Good(l)}
<1>0. LAST_LEVEL \in Nat \ {0}
  BY TablesAssumption
<1>1. ASSUME Bad # {} PROVE FALSE
  <2>0. Bad \in SUBSET Nat
    OBVIOUS
  <2>1. PICK l \in Bad : l = 0 \/ (l - 1 \in Nat /\ l - 1 \notin Bad)
    <3> HIDE DEF Bad
    <3> QED BY <1>1, <2>0, FirstOf
  <2>2. CASE l = 0
    <3>1. path[0] = root /\ Prefix(va, 0) = 0
      BY <2>1, PathSteps, Indices
    <3>2. Good(0)
      BY <3>1 DEF IsRoot
    <3> QED BY <2>1, <2>2, <3>2
  <2>3. CASE l # 0
    <3> DEFINE g == path[l - 1]
               i == TableIndex(va, l - 1)
    <3>1. l - 1 \in 0 .. LAST_LEVEL - 1 /\ (l - 1) + 1 = l /\ l - 1 \in 0 .. LAST_LEVEL
      BY <1>0, <2>1, <2>3
    <3>2. path[l] = Follow(mem.table, g, i)
      BY <2>1, <2>3, PathSteps
    <3>3. Good(l - 1)
      BY <2>1, <2>3, <3>1
    <3>4. ASSUME path[l] # NoFrame PROVE Good(l)
      <4>1. g # NoFrame /\ i \in DOMAIN mem.table[g] /\ ~mem.table[g][i].block /\ path[l] = mem.table[g][i].at
        BY <3>2, <3>4 DEF Follow
      <4>2. g \in DOMAIN h /\ h[g] = Place(root, l - 1, Prefix(va, l - 1))
        BY <3>3, <4>1
      <4>3. h[g].root = root /\ h[g].level = l - 1 /\ h[g].above = Prefix(va, l - 1)
        BY <4>2 DEF Place
      <4>4. LeadsToTable(mem, h, g, i)
        <5>1. LeadsToTable(mem, h, g, i) \/ IsLeaf(mem, h, g, i)
          BY <4>1, <4>2 DEF ShapeOf, EntriesLead
        <5> QED BY <5>1, <3>1, <4>1, <4>3 DEF IsLeaf
      <4>5. Prefix(va, l) = (ENTRIES * Prefix(va, l - 1)) + i
        BY <3>1, Indices
      <4>6. path[l] \in DOMAIN h /\ h[path[l]] = Place(root, l, Prefix(va, l))
        BY <3>1, <4>1, <4>3, <4>4, <4>5 DEF LeadsToTable
      <4> QED BY <4>6
    <3> QED BY <2>1, <3>4
  <2> QED BY <2>2, <2>3
<1> QED BY <1>1

(* ... and every table that is at such a home. *)
LEMMA PathFinds ==
  ASSUME NEW mem, NEW h, ShapeOf(mem, h), NEW root, IsRoot(h, root), NEW va \in Pages,
         NEW level \in 0 .. LAST_LEVEL, NEW f \in DOMAIN h,
         h[f] = Place(root, level, Prefix(va, level))
  PROVE  Path(mem.table, root, va)[level] = f /\ f # NoFrame
<1> DEFINE path == Path(mem.table, root, va)
           Bad == {l \in 0 .. LAST_LEVEL :
                     \E g \in DOMAIN h : h[g] = Place(root, l, Prefix(va, l)) /\ path[l] # g}
<1>0. LAST_LEVEL \in Nat \ {0} /\ ENTRIES \in Nat \ {0} /\ \A g \in DOMAIN h : g \in Nat /\ g # NoFrame
  BY TablesAssumption DEF ShapeOf, InMemory, NoFrame
<1>1. ASSUME Bad # {} PROVE FALSE
  <2>0. Bad \in SUBSET Nat
    OBVIOUS
  <2>1. PICK l \in Bad : l = 0 \/ (l - 1 \in Nat /\ l - 1 \notin Bad)
    <3> HIDE DEF Bad
    <3> QED BY <1>1, <2>0, FirstOf
  <2>2. PICK g \in DOMAIN h : h[g] = Place(root, l, Prefix(va, l)) /\ path[l] # g
    BY <2>1
  <2>3. CASE l = 0
    <3>1. path[0] = root /\ Prefix(va, 0) = 0
      BY <2>1, PathSteps, Indices
    <3>2. h[g] = h[root] /\ root \in DOMAIN h
      BY <2>2, <2>3, <3>1 DEF IsRoot
    <3>3. g = root
      BY <3>2 DEF ShapeOf, OneEach
    <3> QED BY <2>2, <2>3, <3>1, <3>3
  <2>4. CASE l # 0
    <3>1. l - 1 \in 0 .. LAST_LEVEL - 1 /\ (l - 1) + 1 = l /\ l - 1 \in 0 .. LAST_LEVEL /\ l \in Nat
      BY <1>0, <2>1, <2>4
    <3>2. h[g].root = root /\ h[g].level = l /\ h[g].above = Prefix(va, l)
      BY <2>2 DEF Place
    <3>3. PICK p \in DOMAIN h : \E i \in DOMAIN mem.table[p] :
            LeadsToTable(mem, h, p, i) /\ mem.table[p][i].at = g
      BY <2>4, <3>2 DEF ShapeOf, Attached
    <3>4. PICK i \in DOMAIN mem.table[p] : LeadsToTable(mem, h, p, i) /\ mem.table[p][i].at = g
      BY <3>3
    <3>5. h[g] = Place(h[p].root, h[p].level + 1, (ENTRIES * h[p].above) + i) /\ ~mem.table[p][i].block
      BY <3>4 DEF LeadsToTable
    <3>6. h[p].root = root /\ h[p].level + 1 = l /\ (ENTRIES * h[p].above) + i = Prefix(va, l)
      BY <3>2, <3>5 DEF Place
    <3>7. PICK w \in Pages : h[p] = Place(h[p].root, h[p].level, Prefix(w, h[p].level))
      BY DEF ShapeOf, HomesOf
    <3>8. h[p].level \in 0 .. LAST_LEVEL /\ i \in 0 .. ENTRIES - 1
      BY DEF ShapeOf, HomesOf, EntriesLead
    <3>9. h[p].level = l - 1
      BY <3>1, <3>6, <3>8
    <3>10. h[p].above \in Nat
      <4>1. h[p].above = Prefix(w, h[p].level)
        BY <3>7 DEF Place
      <4> QED BY <3>8, <4>1, Indices
    <3>11. Prefix(va, l) = (ENTRIES * Prefix(va, l - 1)) + TableIndex(va, l - 1)
           /\ Prefix(va, l - 1) \in Nat /\ TableIndex(va, l - 1) \in 0 .. ENTRIES - 1
      BY <3>1, Indices
    <3>12. h[p].above = Prefix(va, l - 1) /\ i = TableIndex(va, l - 1)
      <4> DEFINE a == h[p].above
                 b == Prefix(va, l - 1)
                 x == TableIndex(va, l - 1)
      <4>1. /\ ENTRIES \in Nat \ {0} /\ a \in Int /\ b \in Int /\ i \in 0 .. ENTRIES - 1
            /\ x \in 0 .. ENTRIES - 1 /\ (ENTRIES * a) + i = (ENTRIES * b) + x
        BY <1>0, <3>6, <3>8, <3>10, <3>11
      <4> HIDE DEF a, b, x
      <4>2. a = b /\ i = x
        BY ONLY <4>1, DivisionUnique
      <4> QED BY <4>2 DEF a, b, x
    <3>13. h[p] = Place(root, l - 1, Prefix(va, l - 1))
      BY <3>6, <3>7, <3>9, <3>12 DEF Place
    <3>14. path[l - 1] = p
      BY <2>1, <2>4, <3>1, <3>13
    <3>15. path[l] = Follow(mem.table, p, TableIndex(va, l - 1))
      BY <2>1, <2>4, <3>14, PathSteps
    <3>16. path[l] = g
      BY <1>0, <3>4, <3>5, <3>12, <3>15 DEF Follow
    <3> QED BY <2>2, <3>16
  <2> QED BY <2>3, <2>4
<1>2. level \notin Bad
  BY <1>1
<1> QED BY <1>0, <1>2

(* A walk does not come back from nowhere. *)
LEMMA PathBroken ==
  ASSUME NEW tables, NEW root, NEW va, NEW level \in 0 .. LAST_LEVEL, NEW k \in 0 .. level,
         Path(tables, root, va)[k] = NoFrame
  PROVE  Path(tables, root, va)[level] = NoFrame
<1> DEFINE path == Path(tables, root, va)
           Bad == {l \in k .. level : path[l] # NoFrame}
<1>0. LAST_LEVEL \in Nat \ {0} /\ level \in Nat /\ k \in Nat
  BY TablesAssumption
<1>1. ASSUME Bad # {} PROVE FALSE
  <2>0. Bad \in SUBSET Nat
    BY <1>0
  <2>1. PICK l \in Bad : l = 0 \/ (l - 1 \in Nat /\ l - 1 \notin Bad)
    <3> HIDE DEF Bad
    <3> QED BY <1>1, <2>0, FirstOf
  <2>2. l # k /\ l \in 0 .. LAST_LEVEL /\ l # 0 /\ l - 1 \in k .. level
    BY <1>0, <2>1
  <2>3. path[l - 1] = NoFrame
    BY <2>1, <2>2
  <2>4. path[l] = Follow(tables, path[l - 1], TableIndex(va, l - 1))
    BY <2>2, PathSteps
  <2>5. path[l] = NoFrame
    BY <2>3, <2>4 DEF Follow
  <2> QED BY <2>1, <2>5
<1>2. level \in k .. level
  BY <1>0
<1> QED BY <1>1, <1>2

(* A walk ends at a table of the last level, or where there is no further table. *)
Ends(table, level, i) == i \notin DOMAIN table \/ level = LAST_LEVEL \/ table[i].block

(* lookup reads the entry at which the walk ends. *)
LEMMA LookupIs ==
  ASSUME NEW mem, NEW h, ShapeOf(mem, h), NEW root, IsRoot(h, root), NEW va \in Pages,
         NEW level \in 0 .. LAST_LEVEL, NEW f \in DOMAIN h,
         h[f] = Place(root, level, Prefix(va, level)),
         Ends(mem.table[f], level, TableIndex(va, level))
  PROVE  Lookup(mem, root, va) = LeafOf(mem.table[f], va, level)
<1> DEFINE path == Path(mem.table, root, va)
           Last(k) == path[k] # NoFrame /\ (k < LAST_LEVEL => path[k + 1] = NoFrame)
<1>0. LAST_LEVEL \in Nat \ {0}
  BY TablesAssumption
<1>1. path[level] = f /\ f # NoFrame
  BY PathFinds
<1>2. ASSUME level < LAST_LEVEL PROVE path[level + 1] = NoFrame
  <2>1. level + 1 \in 0 .. LAST_LEVEL /\ level + 1 # 0 /\ (level + 1) - 1 = level
    BY <1>0, <1>2
  <2>2. path[level + 1] = Follow(mem.table, f, TableIndex(va, level))
    BY <1>1, <2>1, PathSteps
  <2> QED BY <1>0, <1>2, <2>2 DEF Follow, Ends
<1>3. Last(level)
  BY <1>1, <1>2
<1>4. ASSUME NEW k \in 0 .. LAST_LEVEL, Last(k) PROVE k = level
  <2>1. CASE k < level
    <3>1. k + 1 \in 0 .. level /\ path[k + 1] = NoFrame
      BY <1>0, <1>4, <2>1
    <3>2. path[level] = NoFrame
      BY <3>1, PathBroken
    <3> QED BY <1>1, <3>2
  <2>2. CASE level < k
    <3>1. level + 1 \in 0 .. k /\ path[level + 1] = NoFrame
      BY <1>0, <1>2, <2>2
    <3>2. path[k] = NoFrame
      BY <3>1, PathBroken
    <3> QED BY <1>4, <3>2
  <2> QED BY <1>0, <2>1, <2>2
<1> HIDE DEF path
<1>5. (CHOOSE k \in 0 .. LAST_LEVEL : Last(k)) = level
  BY <1>3, <1>4
<1>6. Lookup(mem, root, va) = LeafOf(mem.table[path[CHOOSE k \in 0 .. LAST_LEVEL : Last(k)]], va,
                                     CHOOSE k \in 0 .. LAST_LEVEL : Last(k))
  BY DEF Lookup, path
<1> QED BY <1>1, <1>5, <1>6

(* Every walk ends somewhere. *)
LEMMA WalkEnds ==
  ASSUME NEW mem, NEW h, ShapeOf(mem, h), NEW root, IsRoot(h, root), NEW va \in Pages
  PROVE  \E level \in 0 .. LAST_LEVEL : \E f \in DOMAIN h :
           /\ h[f] = Place(root, level, Prefix(va, level))
           /\ Ends(mem.table[f], level, TableIndex(va, level))
           /\ Lookup(mem, root, va) = LeafOf(mem.table[f], va, level)
<1> DEFINE path == Path(mem.table, root, va)
           Reached == {k \in 0 .. LAST_LEVEL : path[k] # NoFrame}
<1>0. LAST_LEVEL \in Nat \ {0}
  BY TablesAssumption
<1>1. 0 \in Reached
  <2>1. 0 \in 0 .. LAST_LEVEL /\ path[0] = root
    BY <1>0, PathSteps
  <2> QED BY <2>1 DEF IsRoot, ShapeOf, InMemory, NoFrame
<1>2. PICK level \in Reached : \A k \in Reached : k <= level
  <2>1. Reached \in SUBSET (0 .. LAST_LEVEL) /\ Reached # {}
    BY <1>1
  <2> HIDE DEF Reached
  <2> QED BY <1>0, <2>1, GreatestOf
<1>3. PICK f \in DOMAIN h : path[level] = f /\ h[f] = Place(root, level, Prefix(va, level))
  BY <1>2, PathWithin
<1>4. Ends(mem.table[f], level, TableIndex(va, level))
  <2>1. ASSUME level # LAST_LEVEL, TableIndex(va, level) \in DOMAIN mem.table[f],
               ~mem.table[f][TableIndex(va, level)].block
        PROVE  FALSE
    <3>1. level + 1 \in 0 .. LAST_LEVEL /\ level + 1 # 0 /\ (level + 1) - 1 = level
      BY <1>0, <1>2, <2>1
    <3>2. path[level + 1] = Follow(mem.table, f, TableIndex(va, level))
      BY <1>3, <3>1, PathSteps
    <3>3. f # NoFrame
      BY <1>2, <1>3
    <3>4. path[level + 1] = mem.table[f][TableIndex(va, level)].at
      BY <2>1, <3>2, <3>3 DEF Follow
    <3>5. LeadsToTable(mem, h, f, TableIndex(va, level))
      <4>1. h[f].level = level
        BY <1>3 DEF Place
      <4>2. LeadsToTable(mem, h, f, TableIndex(va, level)) \/ IsLeaf(mem, h, f, TableIndex(va, level))
        BY <2>1 DEF ShapeOf, EntriesLead
      <4> QED BY <1>0, <2>1, <4>1, <4>2 DEF IsLeaf
    <3>6. path[level + 1] # NoFrame
      BY <3>4, <3>5 DEF LeadsToTable, ShapeOf, InMemory, NoFrame
    <3>7. level + 1 \in Reached
      BY <3>1, <3>6
    <3> QED BY <1>0, <1>2, <3>1, <3>7
  <2> QED BY <2>1 DEF Ends
<1>5. Lookup(mem, root, va) = LeafOf(mem.table[f], va, level)
  BY <1>2, <1>3, <1>4, LookupIs
<1> QED BY <1>2, <1>3, <1>4, <1>5

-----------------------------------------------------------------------------
(* Growing a tree *)

(* The homes h1 extend h by tables of one root, taken from the free frames. *)
Extends(mem, h, mem1, h1, root) ==
  /\ DOMAIN mem1.table = DOMAIN mem.table
  /\ DOMAIN h \subseteq DOMAIN h1 /\ \A f \in DOMAIN h : h1[f] = h[f]
  /\ mem1.free \subseteq mem.free /\ DOMAIN h1 \ DOMAIN h = mem.free \ mem1.free
  /\ \A f \in DOMAIN h1 \ DOMAIN h : h1[f].root = root /\ h1[f].level # 0

SameWalks(mem, h, mem1) ==
  \A root : IsRoot(h, root) => \A va \in Pages : Lookup(mem1, root, va) = Lookup(mem, root, va)

(* A table f with a new entry e at index i *)
Written(table, i, e, table1) ==
  /\ DOMAIN table1 = DOMAIN table \cup {i} /\ table1[i] = e
  /\ \A j \in DOMAIN table : j # i => table1[j] = table[j]

(* Two growths, one after the other, are a growth. *)
LEMMA ExtendsTwice ==
  ASSUME NEW mem, NEW h, NEW mem1, NEW h1, NEW mem2, NEW h2, NEW root,
         Extends(mem, h, mem1, h1, root), Extends(mem1, h1, mem2, h2, root)
  PROVE  Extends(mem, h, mem2, h2, root)
BY DEF Extends

(* Roots stay roots. *)
LEMMA ExtendsRoots ==
  ASSUME NEW mem, NEW h, NEW mem1, NEW h1, NEW root, NEW r, Extends(mem, h, mem1, h1, root)
  PROVE  IsRoot(h, r) => IsRoot(h1, r)
BY DEF Extends, IsRoot

(* A walk that ends where nothing has changed ends there still. *)
LEMMA SameEnd ==
  ASSUME NEW mem1, NEW h1, ShapeOf(mem1, h1), NEW root, IsRoot(h1, root), NEW va \in Pages,
         NEW level \in 0 .. LAST_LEVEL, NEW f \in DOMAIN h1,
         h1[f] = Place(root, level, Prefix(va, level)), NEW table,
         Ends(table, level, TableIndex(va, level)),
         TableIndex(va, level) \in DOMAIN mem1.table[f] <=> TableIndex(va, level) \in DOMAIN table,
         TableIndex(va, level) \in DOMAIN table =>
           mem1.table[f][TableIndex(va, level)] = table[TableIndex(va, level)]
  PROVE  Lookup(mem1, root, va) = LeafOf(table, va, level)
<1>1. Ends(mem1.table[f], level, TableIndex(va, level))
  BY DEF Ends
<1>2. Lookup(mem1, root, va) = LeafOf(mem1.table[f], va, level)
  BY <1>1, LookupIs
<1> QED BY <1>2 DEF LeafOf

(* next_table, where there is no table yet *)
LEMMA MakesTable ==
  ASSUME NEW mem, NEW h, ShapeOf(mem, h), NEW root, IsRoot(h, root), NEW va \in Pages,
         NEW level \in 0 .. LAST_LEVEL - 1, NEW f \in DOMAIN h,
         h[f] = Place(root, level, Prefix(va, level)),
         TableIndex(va, level) \notin DOMAIN mem.table[f], Filled(mem, h, f),
         NEW new \in mem.free, NEW mem1,
         mem1.ok, mem1.free = mem.free \ {new}, DOMAIN mem1.table = DOMAIN mem.table,
         \A g \in DOMAIN mem.table \ {f, new} : mem1.table[g] = mem.table[g],
         DOMAIN mem1.table[new] = {},
         Written(mem.table[f], TableIndex(va, level), TableEntry(new), mem1.table[f])
  PROVE  \E h1 : /\ ShapeOf(mem1, h1) /\ Extends(mem, h, mem1, h1, root) /\ SameWalks(mem, h, mem1)
                 /\ new \in DOMAIN h1 /\ h1[new] = Place(root, level + 1, Prefix(va, level + 1))
                 /\ Filled(mem1, h1, new)
<1> DEFINE i == TableIndex(va, level)
           h1 == [g \in DOMAIN h \cup {new} |->
                    IF g = new THEN Place(root, level + 1, Prefix(va, level + 1)) ELSE h[g]]
<1>0. /\ LAST_LEVEL \in Nat \ {0} /\ ENTRIES \in Nat \ {0} /\ level \in Nat
      /\ level + 1 \in 0 .. LAST_LEVEL /\ level \in 0 .. LAST_LEVEL /\ level # LAST_LEVEL
  BY TablesAssumption
<1>1. new \notin DOMAIN h /\ new # f /\ f \in DOMAIN mem.table /\ new \in DOMAIN mem.table /\ new \in Nat
  BY DEF ShapeOf, InMemory
<1>2. DOMAIN h1 = DOMAIN h \cup {new} /\ h1[new] = Place(root, level + 1, Prefix(va, level + 1))
      /\ \A g \in DOMAIN h : h1[g] = h[g]
  BY <1>1
<1>3. i \in 0 .. ENTRIES - 1 /\ Prefix(va, level + 1) = (ENTRIES * Prefix(va, level)) + i
  BY <1>0, Indices
<1>4. h[f].root = root /\ h[f].level = level /\ h[f].above = Prefix(va, level)
  BY DEF Place
<1>5. h1[new].root = root /\ h1[new].level = level + 1 /\ h1[new].above = Prefix(va, level + 1)
  BY <1>2 DEF Place
<1>6. /\ DOMAIN mem1.table[f] = DOMAIN mem.table[f] \cup {i} /\ mem1.table[f][i] = TableEntry(new)
      /\ \A j \in DOMAIN mem.table[f] : j # i => mem1.table[f][j] = mem.table[f][j]
  BY DEF Written
<1>7. \A g \in DOMAIN h : g # f => mem1.table[g] = mem.table[g]
  BY <1>1 DEF ShapeOf, InMemory
<1> HIDE DEF i, h1
<1>8. \A r : IsRoot(h, r) => IsRoot(h1, r)
  BY <1>2 DEF IsRoot
<1>9. InMemory(mem1, h1)
  BY <1>1, <1>2 DEF ShapeOf, InMemory
<1>10. HomesOf(h1)
  <2> SUFFICES ASSUME NEW g \in DOMAIN h1
      PROVE /\ h1[g].level \in 0 .. LAST_LEVEL /\ IsRoot(h1, h1[g].root)
            /\ \E w \in Pages : h1[g] = Place(h1[g].root, h1[g].level, Prefix(w, h1[g].level))
    BY DEF HomesOf
  <2>1. CASE g = new
    BY <1>0, <1>2, <1>5, <1>8, <2>1
  <2>2. CASE g \in DOMAIN h
    BY <1>2, <1>8, <2>2 DEF ShapeOf, HomesOf
  <2> QED BY <1>2, <2>1, <2>2
<1>11. \A g \in DOMAIN h : h[g] # Place(root, level + 1, Prefix(va, level + 1))
  <2> SUFFICES ASSUME NEW g \in DOMAIN h, h[g] = Place(root, level + 1, Prefix(va, level + 1))
      PROVE FALSE
    OBVIOUS
  <2>1. Path(mem.table, root, va)[level + 1] = g /\ g # NoFrame
    BY <1>0, PathFinds
  <2>2. Path(mem.table, root, va)[level] = f
    BY <1>0, PathFinds
  <2>3. Path(mem.table, root, va)[level + 1] = Follow(mem.table, f, i)
    <3>1. level + 1 # 0 /\ (level + 1) - 1 = level
      BY <1>0
    <3> QED BY <1>0, <2>2, <3>1, PathSteps DEF i
  <2> QED BY <2>1, <2>3 DEF Follow, i
<1>12. OneEach(h1)
  BY <1>2, <1>11 DEF ShapeOf, OneEach
<1>13. ASSUME NEW g \in DOMAIN h, NEW j \in DOMAIN mem.table[g], LeadsToTable(mem, h, g, j)
       PROVE  j \in DOMAIN mem1.table[g] /\ mem1.table[g][j] = mem.table[g][j] /\ LeadsToTable(mem1, h1, g, j)
  <2>1. ~(g = f /\ j = i)
    BY DEF i
  <2>2. j \in DOMAIN mem1.table[g] /\ mem1.table[g][j] = mem.table[g][j]
    BY <1>6, <1>7, <2>1
  <2> QED BY <1>2, <1>13, <2>2 DEF LeadsToTable
<1>14. LeadsToTable(mem1, h1, f, i)
  <2>1. h1[f].root = root /\ h1[f].level = level /\ h1[f].above = Prefix(va, level)
    BY <1>2, <1>4
  <2>2. ~mem1.table[f][i].block /\ mem1.table[f][i].at = new
    BY <1>6 DEF TableEntry
  <2> QED BY <1>0, <1>2, <1>3, <2>1, <2>2 DEF LeadsToTable
<1>15. EntriesLead(mem1, h1)
  <2> SUFFICES ASSUME NEW g \in DOMAIN h1, NEW j \in DOMAIN mem1.table[g]
      PROVE j \in 0 .. ENTRIES - 1 /\ (LeadsToTable(mem1, h1, g, j) \/ IsLeaf(mem1, h1, g, j))
    BY DEF EntriesLead
  <2>1. CASE g = f /\ j = i
    BY <1>3, <1>14, <2>1
  <2>2. CASE ~(g = f /\ j = i)
    <3>1. g \in DOMAIN h
      BY <1>2
    <3>2. j \in DOMAIN mem.table[g] /\ mem1.table[g][j] = mem.table[g][j]
      BY <1>6, <1>7, <2>2, <3>1
    <3>3. j \in 0 .. ENTRIES - 1 /\ (LeadsToTable(mem, h, g, j) \/ IsLeaf(mem, h, g, j))
      BY <3>1, <3>2 DEF ShapeOf, EntriesLead
    <3>4. IsLeaf(mem, h, g, j) => IsLeaf(mem1, h1, g, j)
      BY <1>2, <3>1, <3>2 DEF IsLeaf
    <3> QED BY <1>13, <3>1, <3>2, <3>3, <3>4
  <2> QED BY <2>1, <2>2
<1>16. Attached(mem1, h1)
  <2> SUFFICES ASSUME NEW g \in DOMAIN h1, h1[g].level # 0
      PROVE \E p \in DOMAIN h1 : \E j \in DOMAIN mem1.table[p] :
              LeadsToTable(mem1, h1, p, j) /\ mem1.table[p][j].at = g
    BY DEF Attached
  <2>1. CASE g = new
    <3>1. f \in DOMAIN h1 /\ i \in DOMAIN mem1.table[f] /\ mem1.table[f][i].at = new
      BY <1>2, <1>6 DEF TableEntry
    <3> QED BY <1>14, <2>1, <3>1
  <2>2. CASE g \in DOMAIN h
    <3>1. PICK p \in DOMAIN h : \E j \in DOMAIN mem.table[p] :
            LeadsToTable(mem, h, p, j) /\ mem.table[p][j].at = g
      BY <1>2, <2>2 DEF ShapeOf, Attached
    <3>2. p \in DOMAIN h1
      BY <1>2
    <3> QED BY <1>13, <3>1, <3>2
  <2> QED BY <1>2, <2>1, <2>2
<1>17. ShapeOf(mem1, h1)
  BY <1>9, <1>10, <1>12, <1>15, <1>16 DEF ShapeOf
<1>18. Extends(mem, h, mem1, h1, root)
  BY <1>0, <1>1, <1>2, <1>5 DEF Extends
<1>19. SameWalks(mem, h, mem1)
  <2> SUFFICES ASSUME NEW r, IsRoot(h, r), NEW page \in Pages
      PROVE Lookup(mem1, r, page) = Lookup(mem, r, page)
    BY DEF SameWalks
  <2>1. PICK k \in 0 .. LAST_LEVEL : \E g \in DOMAIN h :
           /\ h[g] = Place(r, k, Prefix(page, k))
           /\ Ends(mem.table[g], k, TableIndex(page, k))
           /\ Lookup(mem, r, page) = LeafOf(mem.table[g], page, k)
    BY WalkEnds
  <2>2. PICK g \in DOMAIN h :
           /\ h[g] = Place(r, k, Prefix(page, k))
           /\ Ends(mem.table[g], k, TableIndex(page, k))
           /\ Lookup(mem, r, page) = LeafOf(mem.table[g], page, k)
    BY <2>1
  <2>3. IsRoot(h1, r)
    BY <1>8
  <2>4. CASE g = f /\ TableIndex(page, k) = i
    <3>1. k = level /\ r = root /\ Prefix(page, level) = Prefix(va, level)
      BY <1>4, <2>2, <2>4 DEF Place
    <3>2. Prefix(page, level + 1) = (ENTRIES * Prefix(page, level)) + TableIndex(page, level)
      BY <1>0, Indices
    <3>3. h1[new] = Place(root, level + 1, Prefix(page, level + 1))
      BY <1>2, <1>3, <2>4, <3>1, <3>2
    <3>4. Ends(mem1.table[new], level + 1, TableIndex(page, level + 1))
      BY DEF Ends
    <3>5. new \in DOMAIN h1 /\ IsRoot(h1, root) /\ level + 1 \in 0 .. LAST_LEVEL
      BY <1>0, <1>2, <2>3, <3>1
    <3>6. Lookup(mem1, root, page) = LeafOf(mem1.table[new], page, level + 1)
      BY <1>17, <3>3, <3>4, <3>5, LookupIs
    <3>7. LeafOf(mem1.table[new], page, level + 1) = Nowhere
      BY DEF LeafOf
    <3>8. LeafOf(mem.table[g], page, k) = Nowhere
      BY <2>4 DEF LeafOf, i
    <3> QED BY <2>2, <3>1, <3>6, <3>7, <3>8
  <2>5. CASE ~(g = f /\ TableIndex(page, k) = i)
    <3>1. TableIndex(page, k) \in DOMAIN mem1.table[g] <=> TableIndex(page, k) \in DOMAIN mem.table[g]
      BY <1>6, <1>7, <2>5
    <3>2. TableIndex(page, k) \in DOMAIN mem.table[g] =>
            mem1.table[g][TableIndex(page, k)] = mem.table[g][TableIndex(page, k)]
      BY <1>6, <1>7, <2>5
    <3>3. g \in DOMAIN h1 /\ h1[g] = Place(r, k, Prefix(page, k))
      BY <1>2, <2>2
    <3>4. Lookup(mem1, r, page) = LeafOf(mem.table[g], page, k)
      BY <1>17, <2>2, <2>3, <3>1, <3>2, <3>3, SameEnd
    <3> QED BY <2>2, <3>4
  <2> QED BY <2>4, <2>5
<1>20. Filled(mem1, h1, new)
  <2> SUFFICES ASSUME NEW g \in DOMAIN h1, h1[g].level = LAST_LEVEL, g # new
      PROVE DOMAIN mem1.table[g] # {}
    BY DEF Filled
  <2>1. g \in DOMAIN h /\ h[g].level = LAST_LEVEL
    BY <1>2
  <2>2. g # f
    BY <1>0, <1>4, <2>1
  <2> QED BY <1>7, <2>1, <2>2 DEF Filled
<1> QED BY <1>2, <1>17, <1>18, <1>19, <1>20

(* The lowest frame of a set is one of them. *)
LEMMA LowestIs ==
  ASSUME NEW S \in SUBSET Nat, S # {}
  PROVE  Lowest(S) \in S /\ \A g \in S : Lowest(S) <= g
<1>1. \E f \in S : \A g \in S : f <= g
  BY LeastOf
<1> QED BY <1>1 DEF Lowest

(* next_table follows a table or makes one; no walk changes. *)
LEMMA NextTableIs ==
  ASSUME NEW mem, NEW h, ShapeOf(mem, h), NEW root, IsRoot(h, root), NEW va \in Pages,
         NEW level \in 0 .. LAST_LEVEL - 1, NEW f \in DOMAIN h,
         h[f] = Place(root, level, Prefix(va, level)), Filled(mem, h, f),
         NEW next, next = NextTable(mem, f, TableIndex(va, level)), next.mem.ok
  PROVE  \E h1 : /\ ShapeOf(next.mem, h1) /\ Extends(mem, h, next.mem, h1, root)
                 /\ SameWalks(mem, h, next.mem)
                 /\ next.at \in DOMAIN h1 /\ h1[next.at] = Place(root, level + 1, Prefix(va, level + 1))
                 /\ Filled(next.mem, h1, next.at)
<1> DEFINE i == TableIndex(va, level)
<1>0. LAST_LEVEL \in Nat \ {0} /\ level \in 0 .. LAST_LEVEL /\ level # LAST_LEVEL
  BY TablesAssumption
<1>1. h[f].root = root /\ h[f].level = level /\ h[f].above = Prefix(va, level)
  BY DEF Place
<1>2. CASE i \in DOMAIN mem.table[f]
  <2>1. ~mem.table[f][i].block
    BY <1>2 DEF NextTable, Panicked
  <2>2. next.mem = mem /\ next.at = mem.table[f][i].at
    BY <1>2, <2>1 DEF NextTable
  <2>3. LeadsToTable(mem, h, f, i)
    <3>1. LeadsToTable(mem, h, f, i) \/ IsLeaf(mem, h, f, i)
      BY <1>2 DEF ShapeOf, EntriesLead
    <3> QED BY <1>0, <1>1, <2>1, <3>1 DEF IsLeaf
  <2>4. Prefix(va, level + 1) = (ENTRIES * Prefix(va, level)) + i
    BY Indices
  <2>5. next.at \in DOMAIN h /\ h[next.at] = Place(root, level + 1, Prefix(va, level + 1))
    BY <1>1, <2>2, <2>3, <2>4 DEF LeadsToTable
  <2>6. Extends(mem, h, mem, h, root) /\ SameWalks(mem, h, mem)
    BY DEF Extends, SameWalks
  <2>7. Filled(mem, h, next.at)
    BY <1>0, <1>1 DEF Filled
  <2> QED BY <2>2, <2>5, <2>6, <2>7
<1>3. CASE i \notin DOMAIN mem.table[f]
  <2> DEFINE new == Lowest(mem.free)
             claimed == Claim(mem, {new})
  <2>1. mem.free # {}
    BY <1>3 DEF NextTable, Panicked
  <2>2. new \in mem.free
    BY <2>1, LowestIs DEF ShapeOf, InMemory
  <2>3. next = [mem |-> Memory(Write(claimed.table, f, i, TableEntry(new)), claimed.free), at |-> new]
    BY <1>3, <2>1 DEF NextTable
  <2> HIDE DEF new, claimed
  <2>4. /\ DOMAIN claimed.table = DOMAIN mem.table /\ claimed.free = mem.free \ {new}
        /\ \A g \in DOMAIN mem.table : claimed.table[g] = IF g = new THEN Zeroed ELSE mem.table[g]
    BY DEF claimed, Claim, Memory
  <2>5. f \in DOMAIN mem.table /\ new \in DOMAIN mem.table /\ f # new
    BY <2>2 DEF ShapeOf, InMemory
  <2> DEFINE after == Write(claimed.table, f, i, TableEntry(new))
  <2>6. /\ DOMAIN after = DOMAIN mem.table
        /\ \A g \in DOMAIN mem.table : g # f => after[g] = claimed.table[g]
        /\ DOMAIN after[f] = DOMAIN mem.table[f] \cup {i} /\ after[f][i] = TableEntry(new)
        /\ \A j \in DOMAIN mem.table[f] : j # i => after[f][j] = mem.table[f][j]
    BY <2>4, <2>5, WriteIs
  <2> HIDE DEF after
  <2>7. next.mem.ok /\ next.mem.free = mem.free \ {new} /\ next.mem.table = after /\ next.at = new
    BY <2>3, <2>4 DEF Memory, after
  <2>8. /\ \A g \in DOMAIN mem.table \ {f, new} : next.mem.table[g] = mem.table[g]
        /\ DOMAIN next.mem.table[new] = {}
        /\ Written(mem.table[f], i, TableEntry(new), next.mem.table[f])
    BY <2>4, <2>5, <2>6, <2>7 DEF Written, Zeroed
  <2>9. DOMAIN next.mem.table = DOMAIN mem.table
    BY <2>6, <2>7
  <2>10. \E h1 : /\ ShapeOf(next.mem, h1) /\ Extends(mem, h, next.mem, h1, root)
                 /\ SameWalks(mem, h, next.mem)
                 /\ new \in DOMAIN h1 /\ h1[new] = Place(root, level + 1, Prefix(va, level + 1))
                 /\ Filled(next.mem, h1, new)
    BY <1>3, <2>2, <2>7, <2>8, <2>9, MakesTable
  <2> QED BY <2>7, <2>10
<1> QED BY <1>2, <1>3

(* The descent takes one next_table after the other. *)
IsDescent(step, mem, root, va, target) ==
  /\ Descend(mem, root, va, target) = step[target] /\ step[0] = [mem |-> mem, at |-> root]
  /\ \A n \in 0 .. target : n # 0 =>
       step[n] = IF ~step[n - 1].mem.ok THEN step[n - 1]
                 ELSE NextTable(step[n - 1].mem, step[n - 1].at, TableIndex(va, n - 1))

(* The loop of Descend, turn by turn *)
LEMMA DescendDef ==
  ASSUME NEW mem, NEW root, NEW va, NEW target \in Nat
  PROVE  \E step : IsDescent(step, mem, root, va, target)
<1> DEFINE Step(t, n) == IF ~t.mem.ok THEN t
                          ELSE NextTable(t.mem, t.at, TableIndex(va, n - 1))
           Upto(x, k) == x = [n \in 0 .. k |-> IF n = 0 THEN [mem |-> mem, at |-> root] ELSE Step(x[n - 1], n)]
           Bad == {k \in Nat : ~ \E x : Upto(x, k)}
<1>1. ASSUME Bad # {} PROVE FALSE
  <2>0. Bad \in SUBSET Nat
    OBVIOUS
  <2>1. PICK k \in Bad : k = 0 \/ (k - 1 \in Nat /\ k - 1 \notin Bad)
    <3> HIDE DEF Bad
    <3> QED BY <1>1, <2>0, FirstOf
  <2> HIDE DEF Step
  <2>2. CASE k = 0
    <3>1. Upto([n \in 0 .. 0 |-> [mem |-> mem, at |-> root]], 0)
      OBVIOUS
    <3> QED BY <2>1, <2>2, <3>1
  <2>3. CASE k # 0
    <3>1. PICK x : Upto(x, k - 1)
      BY <2>1, <2>3
    <3> DEFINE y == [n \in 0 .. k |-> IF n = k THEN Step(x[k - 1], k) ELSE x[n]]
    <3>2. k \in Nat /\ \A n \in 0 .. k - 1 : x[n] = IF n = 0 THEN [mem |-> mem, at |-> root] ELSE Step(x[n - 1], n)
      BY <2>1, <3>1
    <3>3. \A n \in 0 .. k : y[n] = IF n = 0 THEN [mem |-> mem, at |-> root] ELSE Step(y[n - 1], n)
      <4> TAKE n \in 0 .. k
      <4>1. CASE n = k
        BY <2>3, <3>2, <4>1
      <4>2. CASE n # k
        <5>1. n \in 0 .. k - 1 /\ (n # 0 => n - 1 \in 0 .. k - 1)
          BY <3>2, <4>2
        <5> QED BY <3>2, <5>1
      <4> QED BY <4>1, <4>2
    <3>4. Upto(y, k)
      <4>1. y = [n \in 0 .. k |-> y[n]]
        OBVIOUS
      <4> HIDE DEF y
      <4> QED BY <3>3, <4>1
    <3> QED BY <2>1, <3>4
  <2> QED BY <2>2, <2>3
<1>2. \E x : Upto(x, target)
  BY <1>1
<1>3. Upto(CHOOSE x : Upto(x, target), target)
  BY <1>2, Zenon
<1> DEFINE step == CHOOSE x : Upto(x, target)
<1>4. Descend(mem, root, va, target) = step[target]
  BY DEF Descend
<1>5. step = [n \in 0 .. target |-> IF n = 0 THEN [mem |-> mem, at |-> root] ELSE Step(step[n - 1], n)]
  BY <1>3
<1> HIDE DEF step
<1>6. /\ step[0] = [mem |-> mem, at |-> root]
      /\ \A n \in 0 .. target : n # 0 => step[n] = Step(step[n - 1], n)
  <2> HIDE DEF Step
  <2> QED BY <1>5
<1>7. IsDescent(step, mem, root, va, target)
  BY <1>4, <1>6 DEF IsDescent
<1> QED BY <1>7


(* So does the whole descent. *)
LEMMA DescendIs ==
  ASSUME NEW mem, NEW h, ShapeOf(mem, h), Filled(mem, h, NoFrame), NEW root, IsRoot(h, root),
         NEW va \in Pages, NEW target \in 0 .. LAST_LEVEL,
         NEW end, end = Descend(mem, root, va, target), end.mem.ok
  PROVE  \E h1 : /\ ShapeOf(end.mem, h1) /\ Extends(mem, h, end.mem, h1, root)
                 /\ SameWalks(mem, h, end.mem)
                 /\ end.at \in DOMAIN h1 /\ h1[end.at] = Place(root, target, Prefix(va, target))
                 /\ Filled(end.mem, h1, end.at)
<1>0. LAST_LEVEL \in Nat \ {0} /\ target \in Nat
  BY TablesAssumption
<1>1. PICK step : IsDescent(step, mem, root, va, target)
  BY <1>0, DescendDef
<1> DEFINE Good(n) ==
      \E h1 : /\ ShapeOf(step[n].mem, h1) /\ Extends(mem, h, step[n].mem, h1, root)
              /\ SameWalks(mem, h, step[n].mem)
              /\ step[n].at \in DOMAIN h1 /\ h1[step[n].at] = Place(root, n, Prefix(va, n))
              /\ Filled(step[n].mem, h1, step[n].at)
           Bad == {n \in 0 .. target : step[n].mem.ok /\ ~Good(n)}
<1>2. ASSUME Bad # {} PROVE FALSE
  <2>0. Bad \in SUBSET Nat
    OBVIOUS
  <2>1. PICK n \in Bad : n = 0 \/ (n - 1 \in Nat /\ n - 1 \notin Bad)
    <3> HIDE DEF Bad
    <3> QED BY <1>2, <2>0, FirstOf
  <2>2. n \in 0 .. target /\ step[n].mem.ok /\ ~Good(n)
    BY <2>1
  <2>3. CASE n = 0
    <3>1. step[0].mem = mem /\ step[0].at = root
      BY <1>1 DEF IsDescent
    <3>2. Extends(mem, h, mem, h, root) /\ SameWalks(mem, h, mem)
      BY DEF Extends, SameWalks
    <3>3. root \in DOMAIN h /\ h[root] = Place(root, 0, Prefix(va, 0))
      BY Indices DEF IsRoot
    <3>4. Filled(mem, h, root)
      <4>1. \A f \in DOMAIN h : f # NoFrame
        BY DEF ShapeOf, InMemory, NoFrame
      <4> QED BY <4>1 DEF Filled
    <3>5. Good(0)
      BY <3>1, <3>2, <3>3, <3>4
    <3> QED BY <2>2, <2>3, <3>5
  <2>4. CASE n # 0
    <3> DEFINE k == n - 1
               m0 == step[k].mem
               f == step[k].at
               next == step[n]
    <3>1. k \in 0 .. LAST_LEVEL - 1 /\ k + 1 = n /\ k \in 0 .. target
      BY <1>0, <2>2, <2>4
    <3>2. step[n] = IF ~m0.ok THEN step[k] ELSE NextTable(m0, f, TableIndex(va, k))
      BY <1>1, <2>2, <2>4 DEF IsDescent
    <3>3. m0.ok /\ step[n] = NextTable(m0, f, TableIndex(va, k))
      BY <2>2, <3>2
    <3>4. Good(k)
      BY <2>1, <2>4, <3>1, <3>3
    <3>5. PICK h0 : /\ ShapeOf(m0, h0) /\ Extends(mem, h, m0, h0, root)
                    /\ SameWalks(mem, h, m0)
                    /\ f \in DOMAIN h0 /\ h0[f] = Place(root, k, Prefix(va, k))
                    /\ Filled(m0, h0, f)
      BY <3>4
    <3>6. IsRoot(h0, root)
      BY <3>5, ExtendsRoots
    <3> HIDE DEF k, m0, f, next
    <3>7. PICK h1 : /\ ShapeOf(next.mem, h1) /\ Extends(m0, h0, next.mem, h1, root)
                    /\ SameWalks(m0, h0, next.mem)
                    /\ next.at \in DOMAIN h1 /\ h1[next.at] = Place(root, k + 1, Prefix(va, k + 1))
                    /\ Filled(next.mem, h1, next.at)
      <4>1. next = NextTable(m0, f, TableIndex(va, k)) /\ next.mem.ok
        BY <2>2, <3>3 DEF next
      <4> QED BY <3>1, <3>5, <3>6, <4>1, NextTableIs
    <3>8. Extends(mem, h, next.mem, h1, root)
      BY <3>5, <3>7, ExtendsTwice
    <3>9. SameWalks(mem, h, next.mem)
      <4> SUFFICES ASSUME NEW r, IsRoot(h, r), NEW page \in Pages
          PROVE Lookup(next.mem, r, page) = Lookup(mem, r, page)
        BY DEF SameWalks
      <4>1. IsRoot(h0, r)
        BY <3>5, ExtendsRoots
      <4> QED BY <3>5, <3>7, <4>1 DEF SameWalks
    <3>10. Good(n)
      BY <3>1, <3>7, <3>8, <3>9 DEF next
    <3> QED BY <2>2, <3>10
  <2> QED BY <2>3, <2>4
<1>3. end = step[target] /\ target \in 0 .. target
  BY <1>0, <1>1 DEF IsDescent
<1>4. Good(target)
  BY <1>2, <1>3
<1> QED BY <1>3, <1>4

-----------------------------------------------------------------------------
(* Mapping *)

(* From mem to mem1 the n pages from va on of one root come to lead to pa and *)
(* after, and nothing else changes for any walk.                             *)
Paints(mem, h, mem1, root, va, pa, n, attrs) ==
  \A r : IsRoot(h, r) => \A page \in Pages :
    Lookup(mem1, r, page) =
      IF r = root /\ va <= page /\ page < va + n
      THEN [at |-> pa + (page - va), attrs |-> attrs] ELSE Lookup(mem, r, page)

IsLeafEntry(e, level) ==
  /\ \/ level = LAST_LEVEL /\ ~e.block
     \/ level = LAST_LEVEL - 1 /\ e.block
  /\ e.at \in Nat /\ e.attrs # "fault"

(* A block goes where there is no table: one that is there leads to a page. *)
LEMMA NoTableThere ==
  ASSUME NEW mem, NEW h, ShapeOf(mem, h), NEW root, IsRoot(h, root), NEW va \in Pages,
         va % BLOCK = 0, NEW f \in DOMAIN h, Filled(mem, h, f),
         h[f] = Place(root, LAST_LEVEL - 1, Prefix(va, LAST_LEVEL - 1)),
         \A page \in va .. va + BLOCK - 1 : page \in Pages /\ Lookup(mem, root, page) = Nowhere
  PROVE  TableIndex(va, LAST_LEVEL - 1) \notin DOMAIN mem.table[f]
<1> DEFINE l == LAST_LEVEL - 1
           i == TableIndex(va, l)
<1>0. /\ LAST_LEVEL \in Nat \ {0} /\ ENTRIES \in Nat \ {0} /\ BLOCK = ENTRIES /\ Span(l) = ENTRIES
      /\ l \in 0 .. LAST_LEVEL /\ l \in 0 .. LAST_LEVEL - 1 /\ l # LAST_LEVEL /\ l + 1 = LAST_LEVEL
  BY Spans
<1>1. va \in Nat /\ va \in va .. va + BLOCK - 1 /\ i \in 0 .. ENTRIES - 1
  <2>1. va \in Nat /\ i \in 0 .. ENTRIES - 1
    BY <1>0, Indices
  <2> QED BY <1>0, <2>1
<1>2. h[f].root = root /\ h[f].level = l /\ h[f].above = Prefix(va, l)
  BY DEF Place
<1>3. ASSUME i \in DOMAIN mem.table[f], IsLeaf(mem, h, f, i) PROVE FALSE
  <2>1. mem.table[f][i].block /\ mem.table[f][i].attrs # "fault"
    BY <1>0, <1>2, <1>3 DEF IsLeaf
  <2>2. Ends(mem.table[f], l, i)
    BY <2>1 DEF Ends
  <2>3. Lookup(mem, root, va) = LeafOf(mem.table[f], va, l)
    BY <1>0, <2>2, LookupIs
  <2>4. LeafOf(mem.table[f], va, l).attrs # "fault"
    BY <1>3, <2>1 DEF LeafOf
  <2> QED BY <1>1, <2>3, <2>4 DEF Nowhere
<1>4. ASSUME i \in DOMAIN mem.table[f], LeadsToTable(mem, h, f, i) PROVE FALSE
  <2> DEFINE t == mem.table[f][i].at
  <2>1. t \in DOMAIN h /\ h[t] = Place(root, LAST_LEVEL, Prefix(va, LAST_LEVEL))
    <3>1. Prefix(va, LAST_LEVEL) = (ENTRIES * Prefix(va, l)) + i
      BY <1>0, Indices
    <3> QED BY <1>0, <1>2, <1>4, <3>1 DEF LeadsToTable
  <2> HIDE DEF t
  <2>2. h[t].level = LAST_LEVEL
    BY <2>1 DEF Place
  <2>3. t # f
    BY <1>0, <1>2, <2>2
  <2>4. PICK j \in DOMAIN mem.table[t] : TRUE
    BY <2>1, <2>2, <2>3 DEF Filled
  <2>5. j \in 0 .. ENTRIES - 1 /\ IsLeaf(mem, h, t, j)
    <3>1. j \in 0 .. ENTRIES - 1 /\ (LeadsToTable(mem, h, t, j) \/ IsLeaf(mem, h, t, j))
      BY <2>1, <2>4 DEF ShapeOf, EntriesLead
    <3> QED BY <1>0, <2>2, <3>1 DEF LeadsToTable
  <2> DEFINE page == va + j
  <2>6. page \in va .. va + BLOCK - 1 /\ page \in Pages /\ Lookup(mem, root, page) = Nowhere
    <3>1. page \in va .. va + BLOCK - 1
      BY <1>0, <1>1, <2>5
    <3> QED BY <3>1
  <2>7. Prefix(page, l) = Prefix(va, l) /\ TableIndex(page, l) = i
    <3>1. va % Span(l) = 0 /\ page \in va .. va + Span(l) - 1
      BY <1>0, <2>6
    <3> HIDE DEF page, l
    <3> QED BY <1>0, <2>6, <3>1, Chunks
  <2>8. Prefix(page, LAST_LEVEL) = Prefix(va, LAST_LEVEL)
    <3> HIDE DEF page
    <3>1. /\ Prefix(page, LAST_LEVEL) = (ENTRIES * Prefix(page, l)) + TableIndex(page, l)
          /\ Prefix(va, LAST_LEVEL) = (ENTRIES * Prefix(va, l)) + TableIndex(va, l)
      BY <1>0, <2>6, Indices
    <3> QED BY <2>7, <3>1
  <2>9. TableIndex(page, LAST_LEVEL) = j
    <3> DEFINE b == Prefix(page, LAST_LEVEL)
               x == TableIndex(page, LAST_LEVEL)
               y == TableIndex(va, LAST_LEVEL)
    <3>1. /\ LAST_LEVEL \in 0 .. LAST_LEVEL
          /\ b \in Nat /\ x \in 0 .. ENTRIES - 1 /\ page = (ENTRIES * b) + x
          /\ y \in 0 .. ENTRIES - 1 /\ va = (ENTRIES * b) + y
      <4>1. LAST_LEVEL \in 0 .. LAST_LEVEL
        BY <1>0
      <4> HIDE DEF page
      <4> QED BY <2>6, <2>8, <4>1, Indices
    <3>2. y = 0
      <4> HIDE DEF b, x, y, page
      <4>1. PICK q \in Nat : va = (ENTRIES * q) + 0
        <5>1. va = (ENTRIES * (va \div ENTRIES)) + (va % ENTRIES) /\ va \div ENTRIES \in Nat
          BY <1>0, <1>1, Division
        <5>2. va % ENTRIES = 0
          BY <1>0
        <5> QED BY <5>1, <5>2
      <4>2. /\ ENTRIES \in Nat \ {0} /\ 0 \in 0 .. ENTRIES - 1 /\ y \in 0 .. ENTRIES - 1
            /\ q \in Int /\ b \in Int /\ (ENTRIES * q) + 0 = (ENTRIES * b) + y
        BY <1>0, <3>1, <4>1
      <4>3. 0 = y
        BY ONLY <4>2, DivisionUnique
      <4> QED BY <4>3
    <3>3. ENTRIES * b \in Int
      <4> HIDE DEF b
      <4> QED BY <1>0, <3>1
    <3> HIDE DEF b, x, y
    <3> QED BY <1>1, <2>5, <3>1, <3>2, <3>3 DEF x
  <2>10. Lookup(mem, root, page) = LeafOf(mem.table[t], page, LAST_LEVEL)
    <3>1. Ends(mem.table[t], LAST_LEVEL, TableIndex(page, LAST_LEVEL)) /\ LAST_LEVEL \in 0 .. LAST_LEVEL
      BY <1>0 DEF Ends
    <3> HIDE DEF page
    <3> QED BY <2>1, <2>6, <2>8, <3>1, LookupIs
  <2>11. LeafOf(mem.table[t], page, LAST_LEVEL).attrs # "fault"
    BY <2>4, <2>5, <2>9 DEF LeafOf, IsLeaf
  <2> QED BY <2>6, <2>10, <2>11 DEF Nowhere
<1> QED BY <1>3, <1>4 DEF ShapeOf, EntriesLead

(* A page or a block in its table changes the walks to what it covers. *)
LEMMA WritesLeaf ==
  ASSUME NEW mem, NEW h, ShapeOf(mem, h), NEW root, IsRoot(h, root), NEW va \in Pages,
         NEW level \in 0 .. LAST_LEVEL, va % Span(level) = 0,
         NEW f \in DOMAIN h, Filled(mem, h, f), h[f] = Place(root, level, Prefix(va, level)),
         NEW e, IsLeafEntry(e, level),
         level = LAST_LEVEL - 1 => TableIndex(va, level) \notin DOMAIN mem.table[f],
         NEW mem1, mem1.ok, mem1.free = mem.free, DOMAIN mem1.table = DOMAIN mem.table,
         \A g \in DOMAIN mem.table \ {f} : mem1.table[g] = mem.table[g],
         Written(mem.table[f], TableIndex(va, level), e, mem1.table[f])
  PROVE  /\ ShapeOf(mem1, h) /\ Filled(mem1, h, NoFrame)
         /\ Paints(mem, h, mem1, root, va, e.at, Span(level), e.attrs)
<1> DEFINE i == TableIndex(va, level)
<1>0. LAST_LEVEL \in Nat \ {0} /\ Span(level) \in Nat \ {0} /\ level \in Int
  BY Spans
<1>1. h[f].root = root /\ h[f].level = level /\ h[f].above = Prefix(va, level)
  BY DEF Place
<1>2. /\ DOMAIN mem1.table[f] = DOMAIN mem.table[f] \cup {i} /\ mem1.table[f][i] = e
      /\ \A j \in DOMAIN mem.table[f] : j # i => mem1.table[f][j] = mem.table[f][j]
  BY DEF Written
<1>3. f \in DOMAIN mem.table /\ \A g \in DOMAIN h : g # f => mem1.table[g] = mem.table[g]
  BY DEF ShapeOf, InMemory
<1>4. i \in 0 .. ENTRIES - 1
  BY Indices
<1> HIDE DEF i
<1>5. ASSUME NEW g \in DOMAIN h, NEW j \in DOMAIN mem.table[g], LeadsToTable(mem, h, g, j)
      PROVE  j \in DOMAIN mem1.table[g] /\ mem1.table[g][j] = mem.table[g][j] /\ LeadsToTable(mem1, h, g, j)
  <2>1. ~(g = f /\ j = i)
    <3> SUFFICES ASSUME g = f, j = i PROVE FALSE
      OBVIOUS
    <3>1. level < LAST_LEVEL
      BY <1>1, <1>5 DEF LeadsToTable
    <3>2. level = LAST_LEVEL - 1
      BY <1>0, <3>1 DEF IsLeafEntry
    <3> QED BY <3>2 DEF i
  <2>2. j \in DOMAIN mem1.table[g] /\ mem1.table[g][j] = mem.table[g][j]
    BY <1>2, <1>3, <2>1
  <2> QED BY <1>5, <2>2 DEF LeadsToTable
<1>6. IsLeaf(mem1, h, f, i)
  BY <1>1, <1>2 DEF IsLeaf, IsLeafEntry
<1>7. InMemory(mem1, h)
  BY DEF ShapeOf, InMemory
<1>8. EntriesLead(mem1, h)
  <2> SUFFICES ASSUME NEW g \in DOMAIN h, NEW j \in DOMAIN mem1.table[g]
      PROVE j \in 0 .. ENTRIES - 1 /\ (LeadsToTable(mem1, h, g, j) \/ IsLeaf(mem1, h, g, j))
    BY DEF EntriesLead
  <2>1. CASE g = f /\ j = i
    BY <1>4, <1>6, <2>1
  <2>2. CASE ~(g = f /\ j = i)
    <3>1. j \in DOMAIN mem.table[g] /\ mem1.table[g][j] = mem.table[g][j]
      BY <1>2, <1>3, <2>2
    <3>2. j \in 0 .. ENTRIES - 1 /\ (LeadsToTable(mem, h, g, j) \/ IsLeaf(mem, h, g, j))
      BY <3>1 DEF ShapeOf, EntriesLead
    <3>3. IsLeaf(mem, h, g, j) => IsLeaf(mem1, h, g, j)
      BY <3>1 DEF IsLeaf
    <3> QED BY <1>5, <3>1, <3>2, <3>3
  <2> QED BY <2>1, <2>2
<1>9. Attached(mem1, h)
  <2> SUFFICES ASSUME NEW g \in DOMAIN h, h[g].level # 0
      PROVE \E p \in DOMAIN h : \E j \in DOMAIN mem1.table[p] :
              LeadsToTable(mem1, h, p, j) /\ mem1.table[p][j].at = g
    BY DEF Attached
  <2>1. PICK p \in DOMAIN h : \E j \in DOMAIN mem.table[p] :
          LeadsToTable(mem, h, p, j) /\ mem.table[p][j].at = g
    BY DEF ShapeOf, Attached
  <2> QED BY <1>5, <2>1
<1>10. ShapeOf(mem1, h)
  BY <1>7, <1>8, <1>9 DEF ShapeOf
<1>11. Filled(mem1, h, NoFrame)
  <2> SUFFICES ASSUME NEW g \in DOMAIN h, h[g].level = LAST_LEVEL
      PROVE DOMAIN mem1.table[g] # {}
    BY DEF Filled
  <2>1. CASE g = f
    BY <1>2, <2>1
  <2>2. CASE g # f
    BY <1>3, <2>2 DEF Filled
  <2> QED BY <2>1, <2>2
<1>12. ASSUME NEW r, IsRoot(h, r), NEW page \in Pages
       PROVE  Lookup(mem1, r, page) =
                IF r = root /\ va <= page /\ page < va + Span(level)
                THEN [at |-> e.at + (page - va), attrs |-> e.attrs] ELSE Lookup(mem, r, page)
  <2> DEFINE covered == page \in va .. va + Span(level) - 1
  <2>0. /\ va \in Nat /\ page \in Nat
        /\ (Prefix(page, level) = Prefix(va, level) /\ TableIndex(page, level) = i) <=> covered
        /\ covered => page % Span(level) = page - va
        /\ covered <=> (va <= page /\ page < va + Span(level))
    <3>1. va \in Nat /\ page \in Nat
      BY Indices
    <3>2. /\ (Prefix(page, level) = Prefix(va, level) /\ TableIndex(page, level) = i) <=> covered
          /\ covered => page % Span(level) = page - va
      BY Chunks DEF i
    <3>3. covered <=> (va <= page /\ page < va + Span(level))
      BY <1>0, <3>1
    <3> QED BY <3>1, <3>2, <3>3
  <2> HIDE DEF covered
  <2>1. CASE r = root /\ covered
    <3>1. h[f] = Place(r, level, Prefix(page, level)) /\ TableIndex(page, level) = i
      BY <2>0, <2>1
    <3>2. Ends(mem1.table[f], level, TableIndex(page, level))
      BY <1>0, <1>2, <3>1 DEF Ends, IsLeafEntry
    <3>3. Lookup(mem1, r, page) = LeafOf(mem1.table[f], page, level)
      BY <1>10, <1>12, <3>1, <3>2, LookupIs
    <3>4. LeafOf(mem1.table[f], page, level) = [at |-> e.at + (page - va), attrs |-> e.attrs]
      BY <1>2, <2>0, <2>1, <3>1 DEF LeafOf
    <3> QED BY <2>0, <2>1, <3>3, <3>4
  <2>2. CASE ~(r = root /\ covered)
    <3>1. PICK k \in 0 .. LAST_LEVEL : \E g \in DOMAIN h :
             /\ h[g] = Place(r, k, Prefix(page, k))
             /\ Ends(mem.table[g], k, TableIndex(page, k))
             /\ Lookup(mem, r, page) = LeafOf(mem.table[g], page, k)
      BY <1>12, WalkEnds
    <3>2. PICK g \in DOMAIN h :
             /\ h[g] = Place(r, k, Prefix(page, k))
             /\ Ends(mem.table[g], k, TableIndex(page, k))
             /\ Lookup(mem, r, page) = LeafOf(mem.table[g], page, k)
      BY <3>1
    <3>3. ~(g = f /\ TableIndex(page, k) = i)
      <4> SUFFICES ASSUME g = f, TableIndex(page, k) = i PROVE FALSE
        OBVIOUS
      <4>1. k = level /\ r = root /\ Prefix(page, level) = Prefix(va, level)
        BY <1>1, <3>2 DEF Place
      <4> QED BY <2>0, <2>2, <4>1
    <3>4. TableIndex(page, k) \in DOMAIN mem1.table[g] <=> TableIndex(page, k) \in DOMAIN mem.table[g]
      BY <1>2, <1>3, <3>3
    <3>5. TableIndex(page, k) \in DOMAIN mem.table[g] =>
            mem1.table[g][TableIndex(page, k)] = mem.table[g][TableIndex(page, k)]
      BY <1>2, <1>3, <3>3
    <3>6. Lookup(mem1, r, page) = LeafOf(mem.table[g], page, k)
      BY <1>10, <1>12, <3>2, <3>4, <3>5, SameEnd
    <3> QED BY <2>0, <2>2, <3>2, <3>6
  <2> QED BY <2>1, <2>2
<1>13. Paints(mem, h, mem1, root, va, e.at, Span(level), e.attrs)
  BY <1>12 DEF Paints
<1> QED BY <1>10, <1>11, <1>13

(* map_page and map_block *)
LEMMA MapLeafIs ==
  ASSUME NEW mem, NEW h, ShapeOf(mem, h), Filled(mem, h, NoFrame), NEW root, IsRoot(h, root),
         NEW va \in Pages, NEW level \in 0 .. LAST_LEVEL, va % Span(level) = 0,
         NEW e, IsLeafEntry(e, level),
         level = LAST_LEVEL - 1 =>
           \A page \in va .. va + BLOCK - 1 : page \in Pages /\ Lookup(mem, root, page) = Nowhere,
         NEW mem1, mem1 = MapLeaf(mem, root, va, e, level), mem1.ok
  PROVE  \E h1 : /\ ShapeOf(mem1, h1) /\ Filled(mem1, h1, NoFrame) /\ Extends(mem, h, mem1, h1, root)
                 /\ Paints(mem, h, mem1, root, va, e.at, Span(level), e.attrs)
<1> DEFINE end == Descend(mem, root, va, level)
<1>1. end.mem.ok
  BY DEF MapLeaf
<1>2. mem1 = Memory(Write(end.mem.table, end.at, TableIndex(va, level), e), end.mem.free)
  BY <1>1 DEF MapLeaf
<1>3. PICK h1 : /\ ShapeOf(end.mem, h1) /\ Extends(mem, h, end.mem, h1, root)
                /\ SameWalks(mem, h, end.mem)
                /\ end.at \in DOMAIN h1 /\ h1[end.at] = Place(root, level, Prefix(va, level))
                /\ Filled(end.mem, h1, end.at)
  BY <1>1, DescendIs
<1> HIDE DEF end
<1> DEFINE m0 == end.mem
           f == end.at
           i == TableIndex(va, level)
<1>4. f \in DOMAIN m0.table
  BY <1>3 DEF ShapeOf, InMemory
<1>5. /\ mem1.ok /\ mem1.free = m0.free /\ DOMAIN mem1.table = DOMAIN m0.table
      /\ \A g \in DOMAIN m0.table \ {f} : mem1.table[g] = m0.table[g]
      /\ Written(m0.table[f], i, e, mem1.table[f])
  BY <1>2, <1>4, WriteIs DEF Memory, Written
<1>6. IsRoot(h1, root)
  BY <1>3, ExtendsRoots
<1>7. level = LAST_LEVEL - 1 => i \notin DOMAIN m0.table[f]
  <2> SUFFICES ASSUME level = LAST_LEVEL - 1 PROVE i \notin DOMAIN m0.table[f]
    OBVIOUS
  <2>1. \A page \in va .. va + BLOCK - 1 : page \in Pages /\ Lookup(m0, root, page) = Nowhere
    BY <1>3 DEF SameWalks
  <2>2. va % BLOCK = 0
    BY DEF BLOCK
  <2>3. TableIndex(va, LAST_LEVEL - 1) \notin DOMAIN m0.table[f]
    <3>1. h1[f] = Place(root, LAST_LEVEL - 1, Prefix(va, LAST_LEVEL - 1))
      BY <1>3
    <3> HIDE DEF m0, f
    <3> QED BY <1>3, <1>6, <2>1, <2>2, <3>1, NoTableThere DEF m0, f
  <2> QED BY <2>3
<1>8. /\ ShapeOf(mem1, h1) /\ Filled(mem1, h1, NoFrame)
      /\ Paints(m0, h1, mem1, root, va, e.at, Span(level), e.attrs)
  BY <1>3, <1>5, <1>6, <1>7, WritesLeaf
<1>9. Extends(mem, h, mem1, h1, root)
  BY <1>3, <1>5 DEF Extends
<1>10. Paints(mem, h, mem1, root, va, e.at, Span(level), e.attrs)
  <2> SUFFICES ASSUME NEW r, IsRoot(h, r), NEW page \in Pages
      PROVE Lookup(mem1, r, page) =
              IF r = root /\ va <= page /\ page < va + Span(level)
              THEN [at |-> e.at + (page - va), attrs |-> e.attrs] ELSE Lookup(mem, r, page)
    BY DEF Paints
  <2>1. IsRoot(h1, r)
    BY <1>3, ExtendsRoots
  <2>2. Lookup(m0, r, page) = Lookup(mem, r, page)
    BY <1>3 DEF SameWalks
  <2> QED BY <1>8, <2>1, <2>2 DEF Paints
<1> QED BY <1>8, <1>9, <1>10

(* The turns of map_range's loop *)
IsTurns(turn, mem, root, r) ==
  /\ MapRange(mem, root, r) = turn[r.n].mem /\ turn[0] = [mem |-> mem, done |-> 0]
  /\ \A n \in 0 .. r.n : n # 0 => turn[n] = MapChunk(root, r, turn[n - 1])

(* The loop takes one turn after the other. *)
LEMMA MapRangeDef ==
  ASSUME NEW mem, NEW root, NEW r, r.n \in Nat
  PROVE  \E turn : IsTurns(turn, mem, root, r)
<1> DEFINE Step(t, n) == MapChunk(root, r, t)
           Upto(x, k) == x = [n \in 0 .. k |-> IF n = 0 THEN [mem |-> mem, done |-> 0] ELSE Step(x[n - 1], n)]
           Bad == {k \in Nat : ~ \E x : Upto(x, k)}
<1>1. ASSUME Bad # {} PROVE FALSE
  <2>0. Bad \in SUBSET Nat
    OBVIOUS
  <2>1. PICK k \in Bad : k = 0 \/ (k - 1 \in Nat /\ k - 1 \notin Bad)
    <3> HIDE DEF Bad
    <3> QED BY <1>1, <2>0, FirstOf
  <2> HIDE DEF Step
  <2>2. CASE k = 0
    <3>1. Upto([n \in 0 .. 0 |-> [mem |-> mem, done |-> 0]], 0)
      OBVIOUS
    <3> QED BY <2>1, <2>2, <3>1
  <2>3. CASE k # 0
    <3>1. PICK x : Upto(x, k - 1)
      BY <2>1, <2>3
    <3> DEFINE y == [n \in 0 .. k |-> IF n = k THEN Step(x[k - 1], k) ELSE x[n]]
    <3>2. k \in Nat /\ \A n \in 0 .. k - 1 : x[n] = IF n = 0 THEN [mem |-> mem, done |-> 0] ELSE Step(x[n - 1], n)
      BY <2>1, <3>1
    <3>3. \A n \in 0 .. k : y[n] = IF n = 0 THEN [mem |-> mem, done |-> 0] ELSE Step(y[n - 1], n)
      <4> TAKE n \in 0 .. k
      <4>1. CASE n = k
        BY <2>3, <3>2, <4>1
      <4>2. CASE n # k
        <5>1. n \in 0 .. k - 1 /\ (n # 0 => n - 1 \in 0 .. k - 1)
          BY <3>2, <4>2
        <5> QED BY <3>2, <5>1
      <4> QED BY <4>1, <4>2
    <3>4. Upto(y, k)
      <4>1. y = [n \in 0 .. k |-> y[n]]
        OBVIOUS
      <4> HIDE DEF y
      <4> QED BY <3>3, <4>1
    <3> QED BY <2>1, <3>4
  <2> QED BY <2>2, <2>3
<1>2. \E x : Upto(x, r.n)
  BY <1>1
<1>3. Upto(CHOOSE x : Upto(x, r.n), r.n)
  BY <1>2, Zenon
<1> DEFINE turn == CHOOSE x : Upto(x, r.n)
<1>4. MapRange(mem, root, r) = turn[r.n].mem
  BY DEF MapRange
<1>5. turn = [n \in 0 .. r.n |-> IF n = 0 THEN [mem |-> mem, done |-> 0] ELSE Step(turn[n - 1], n)]
  BY <1>3
<1> HIDE DEF turn
<1>6. /\ turn[0] = [mem |-> mem, done |-> 0]
      /\ \A n \in 0 .. r.n : n # 0 => turn[n] = Step(turn[n - 1], n)
  <2> HIDE DEF Step
  <2> QED BY <1>5
<1>7. IsTurns(turn, mem, root, r)
  BY <1>4, <1>6 DEF IsTurns
<1> QED BY <1>7


(* A range that map_range may be asked for *)
IsRange(r) ==
  r.va \in Nat /\ r.pa \in Nat /\ r.n \in Nat /\ r.va + r.n <= PAGES /\ r.attrs # "fault"

(* Painting some pages and then the next ones *)
LEMMA PaintsMore ==
  ASSUME NEW mem, NEW h, NEW m0, NEW h0, NEW m1, NEW root, NEW va \in Nat, NEW pa \in Nat,
         NEW d \in Nat, NEW s \in Nat, NEW attrs,
         Extends(mem, h, m0, h0, root),
         Paints(mem, h, m0, root, va, pa, d, attrs),
         Paints(m0, h0, m1, root, va + d, pa + d, s, attrs)
  PROVE  Paints(mem, h, m1, root, va, pa, d + s, attrs)
<1> SUFFICES ASSUME NEW r, IsRoot(h, r), NEW page \in Pages
    PROVE Lookup(m1, r, page) =
            IF r = root /\ va <= page /\ page < va + (d + s)
            THEN [at |-> pa + (page - va), attrs |-> attrs] ELSE Lookup(mem, r, page)
  BY DEF Paints
<1>1. IsRoot(h0, r) /\ page \in Nat
  BY ExtendsRoots, Indices
<1>2. Lookup(m0, r, page) =
        IF r = root /\ va <= page /\ page < va + d
        THEN [at |-> pa + (page - va), attrs |-> attrs] ELSE Lookup(mem, r, page)
  BY DEF Paints
<1>3. Lookup(m1, r, page) =
        IF r = root /\ va + d <= page /\ page < (va + d) + s
        THEN [at |-> (pa + d) + (page - (va + d)), attrs |-> attrs] ELSE Lookup(m0, r, page)
  BY <1>1 DEF Paints
<1>4. (pa + d) + (page - (va + d)) = pa + (page - va)
  BY <1>1
<1>5. CASE r = root
  <2>1. CASE page < va
    BY <1>1, <1>2, <1>3, <2>1
  <2>2. CASE va <= page /\ page < va + d
    BY <1>1, <1>2, <1>3, <1>5, <2>2
  <2>3. CASE va + d <= page /\ page < va + (d + s)
    BY <1>1, <1>3, <1>4, <1>5, <2>3
  <2>4. CASE page >= va + (d + s)
    BY <1>1, <1>2, <1>3, <2>4
  <2> QED BY <1>1, <2>1, <2>2, <2>3, <2>4
<1>6. CASE r # root
  BY <1>2, <1>3, <1>6
<1> QED BY <1>5, <1>6

(* map_range paints the pages it is asked for and no others, for every root, if *)
(* it is too short for blocks or goes where nothing is mapped.                  *)
LEMMA MapRangeIs ==
  ASSUME NEW mem, NEW h, ShapeOf(mem, h), Filled(mem, h, NoFrame), NEW root, IsRoot(h, root),
         NEW r, IsRange(r),
         r.n < BLOCK \/ \A page \in Pages :
           r.va <= page /\ page < r.va + r.n => Lookup(mem, root, page) = Nowhere,
         NEW mem1, mem1 = MapRange(mem, root, r), mem1.ok
  PROVE  \E h1 : /\ ShapeOf(mem1, h1) /\ Filled(mem1, h1, NoFrame) /\ Extends(mem, h, mem1, h1, root)
                 /\ Paints(mem, h, mem1, root, r.va, r.pa, r.n, r.attrs)
<1>0. /\ LAST_LEVEL \in Nat \ {0} /\ ENTRIES \in Nat \ {0} /\ BLOCK = ENTRIES
      /\ Span(LAST_LEVEL) = 1 /\ Span(LAST_LEVEL - 1) = BLOCK /\ PAGES \in Nat
      /\ r.va \in Nat /\ r.pa \in Nat /\ r.n \in Nat /\ r.va + r.n <= PAGES /\ r.attrs # "fault"
  BY Spans DEF IsRange
<1>1. PICK turn : IsTurns(turn, mem, root, r)
  BY <1>0, MapRangeDef
<1> DEFINE Good(n) ==
      \E h1 : /\ ShapeOf(turn[n].mem, h1) /\ Filled(turn[n].mem, h1, NoFrame)
              /\ Extends(mem, h, turn[n].mem, h1, root) /\ turn[n].done \in n .. r.n
              /\ Paints(mem, h, turn[n].mem, root, r.va, r.pa, turn[n].done, r.attrs)
           Bad == {n \in 0 .. r.n : turn[n].mem.ok /\ ~Good(n)}
<1>2. ASSUME Bad # {} PROVE FALSE
  <2>0. Bad \in SUBSET Nat
    OBVIOUS
  <2>1. PICK n \in Bad : n = 0 \/ (n - 1 \in Nat /\ n - 1 \notin Bad)
    <3> HIDE DEF Bad
    <3> QED BY <1>2, <2>0, FirstOf
  <2>2. n \in 0 .. r.n /\ turn[n].mem.ok /\ ~Good(n)
    BY <2>1
  <2>3. CASE n = 0
    <3>1. turn[0].mem = mem /\ turn[0].done = 0
      BY <1>1 DEF IsTurns
    <3>2. Extends(mem, h, mem, h, root)
      BY DEF Extends
    <3>3. Paints(mem, h, mem, root, r.va, r.pa, 0, r.attrs)
      <4>1. \A page \in Pages : page \in Nat
        BY Indices
      <4>2. \A page \in Pages : ~(r.va <= page /\ page < r.va + 0)
        BY <1>0, <4>1
      <4> QED BY <4>2 DEF Paints
    <3>4. Good(0)
      BY <1>0, <3>1, <3>2, <3>3
    <3> QED BY <2>2, <2>3, <3>4
  <2>4. CASE n # 0
    <3> DEFINE last == turn[n - 1]
               d == last.done
               va == r.va + d
               pa == r.pa + d
    <3>1. n - 1 \in 0 .. r.n /\ n \in Nat
      BY <1>0, <2>2, <2>4
    <3>2. turn[n] = MapChunk(root, r, last)
      BY <1>1, <2>2, <2>4 DEF IsTurns
    <3>3. CASE ~last.mem.ok
      BY <2>2, <3>2, <3>3 DEF MapChunk
    <3>4. CASE last.mem.ok
      <4>1. Good(n - 1)
        BY <2>1, <2>4, <3>1, <3>4
      <4>2. PICK h0 : /\ ShapeOf(last.mem, h0) /\ Filled(last.mem, h0, NoFrame)
                      /\ Extends(mem, h, last.mem, h0, root) /\ d \in (n - 1) .. r.n
                      /\ Paints(mem, h, last.mem, root, r.va, r.pa, d, r.attrs)
        BY <4>1
      <4>3. IsRoot(h0, root)
        BY <4>2, ExtendsRoots
      <4>4. CASE d >= r.n
        <5>1. turn[n] = last
          BY <3>2, <4>4 DEF MapChunk
        <5>2. d \in n .. r.n
          BY <1>0, <2>2, <3>1, <4>2, <4>4
        <5> QED BY <2>2, <4>2, <5>1, <5>2
      <4>5. CASE d < r.n
        <5> DEFINE big == BlockFits(va, pa, r.n - d)
                   level == IF big THEN LAST_LEVEL - 1 ELSE LAST_LEVEL
                   e == IF big THEN BlockEntry(pa, r.attrs) ELSE PageEntry(pa, r.attrs)
        <5>0. d \in Nat /\ ~(d >= r.n) /\ va \in Nat /\ pa \in Nat
          BY <1>0, <3>1, <4>2, <4>5
        <5>1. turn[n] = [mem |-> MapLeaf(last.mem, root, va, e, level), done |-> d + Span(level)]
          <6>1. CASE big
            BY <1>0, <3>2, <3>4, <5>0, <6>1 DEF MapChunk
          <6>2. CASE ~big
            BY <1>0, <3>2, <3>4, <5>0, <6>2 DEF MapChunk
          <6> QED BY <6>1, <6>2
        <5> HIDE DEF last, d
        <5>2. va \in Pages
          BY <1>0, <4>2, <4>5, <5>0 DEF Pages
        <5>3. level \in 0 .. LAST_LEVEL /\ va % Span(level) = 0 /\ Span(level) \in Nat \ {0}
          <6>1. CASE big
            BY <1>0, <6>1 DEF BlockFits
          <6>2. CASE ~big
            BY <1>0, <5>0, <6>2
          <6> QED BY <6>1, <6>2
        <5>4. IsLeafEntry(e, level) /\ e.at = pa /\ e.attrs = r.attrs
          <6>1. CASE big
            BY <1>0, <5>0, <6>1 DEF IsLeafEntry, BlockEntry
          <6>2. CASE ~big
            BY <1>0, <5>0, <6>2 DEF IsLeafEntry, PageEntry
          <6> QED BY <6>1, <6>2
        <5>5. d + Span(level) \in n .. r.n
          <6>1. CASE big
            <7>1. r.n - d >= BLOCK /\ Span(level) = BLOCK
              BY <1>0, <6>1 DEF BlockFits
            <7> QED BY <1>0, <3>1, <4>2, <5>0, <7>1
          <6>2. CASE ~big
            BY <1>0, <3>1, <4>2, <4>5, <5>0, <6>2
          <6> QED BY <6>1, <6>2
        <5>6. ASSUME level = LAST_LEVEL - 1, NEW page \in va .. va + BLOCK - 1
              PROVE  page \in Pages /\ Lookup(last.mem, root, page) = Nowhere
          <6>1. big
            BY <1>0, <5>6
          <6>2. r.n - d >= BLOCK
            BY <6>1 DEF BlockFits
          <6>3. /\ page \in Nat /\ r.va <= page /\ page < r.va + r.n /\ ~(page < r.va + d) /\ page \in Pages
                /\ ~(r.n < BLOCK)
            BY <1>0, <5>0, <5>6, <6>2 DEF Pages
          <6>4. Lookup(mem, root, page) = Nowhere
            BY <6>3
          <6> QED BY <4>2, <6>3, <6>4 DEF Paints
        <5> HIDE DEF big, e, va, pa, level
        <5> DEFINE mem2 == MapLeaf(last.mem, root, va, e, level)
        <5>7. turn[n].mem = mem2 /\ mem2.ok /\ turn[n].done = d + Span(level)
          BY <2>2, <5>1
        <5> HIDE DEF mem2
        <5>8. PICK h1 : /\ ShapeOf(mem2, h1) /\ Filled(mem2, h1, NoFrame)
                        /\ Extends(last.mem, h0, mem2, h1, root)
                        /\ Paints(last.mem, h0, mem2, root, va, e.at, Span(level), e.attrs)
          BY <4>2, <4>3, <5>2, <5>3, <5>4, <5>6, <5>7, MapLeafIs DEF mem2
        <5>9. Extends(mem, h, mem2, h1, root)
          BY <4>2, <5>8, ExtendsTwice
        <5>10. Paints(last.mem, h0, mem2, root, r.va + d, r.pa + d, Span(level), r.attrs)
          BY <5>4, <5>8 DEF va, pa
        <5>11. Paints(mem, h, mem2, root, r.va, r.pa, d + Span(level), r.attrs)
          <6>1. r.va \in Nat /\ r.pa \in Nat /\ d \in Nat /\ Span(level) \in Nat
            BY <1>0, <5>0, <5>3
          <6> QED BY <4>2, <5>10, <6>1, PaintsMore
        <5>12. Good(n)
          BY <5>5, <5>7, <5>8, <5>9, <5>11
        <5> QED BY <2>2, <5>12
      <4> QED BY <1>0, <3>1, <4>2, <4>4, <4>5
    <3> QED BY <3>3, <3>4
  <2> QED BY <2>3, <2>4
<1>3. mem1 = turn[r.n].mem /\ r.n \in 0 .. r.n
  BY <1>0, <1>1 DEF IsTurns
<1>4. Good(r.n)
  BY <1>2, <1>3
<1>5. turn[r.n].done \in r.n .. r.n => turn[r.n].done = r.n
  BY <1>0
<1> QED BY <1>3, <1>4, <1>5

-----------------------------------------------------------------------------
(* Roots that are made and dropped *)

(* Whatever happens to other frames, the trees of the roots in S stay. *)
LEMMA TreesStay ==
  ASSUME NEW mem, NEW h, ShapeOf(mem, h), Filled(mem, h, NoFrame), NEW S, NEW h1,
         DOMAIN h1 = {f \in DOMAIN h : h[f].root \in S}, \A f \in DOMAIN h1 : h1[f] = h[f],
         NEW mem1, InMemory(mem1, h1), \A f \in DOMAIN h1 : mem1.table[f] = mem.table[f]
  PROVE  ShapeOf(mem1, h1) /\ Filled(mem1, h1, NoFrame) /\ SameWalks(mem, h1, mem1)
<1>1. ASSUME NEW r PROVE IsRoot(h1, r) <=> IsRoot(h, r) /\ r \in S
  BY DEF IsRoot, Place
<1>2. HomesOf(h1)
  <2> SUFFICES ASSUME NEW f \in DOMAIN h1
      PROVE /\ h1[f].level \in 0 .. LAST_LEVEL /\ IsRoot(h1, h1[f].root)
            /\ \E w \in Pages : h1[f] = Place(h1[f].root, h1[f].level, Prefix(w, h1[f].level))
    BY DEF HomesOf
  <2>1. f \in DOMAIN h /\ h1[f] = h[f] /\ h[f].root \in S
    OBVIOUS
  <2>2. /\ h[f].level \in 0 .. LAST_LEVEL /\ IsRoot(h, h[f].root)
        /\ \E w \in Pages : h[f] = Place(h[f].root, h[f].level, Prefix(w, h[f].level))
    BY <2>1 DEF ShapeOf, HomesOf
  <2> QED BY <1>1, <2>1, <2>2
<1>3. OneEach(h1)
  BY DEF ShapeOf, OneEach
<1>4. ASSUME NEW f \in DOMAIN h1, NEW i \in DOMAIN mem.table[f], LeadsToTable(mem, h, f, i)
      PROVE  LeadsToTable(mem1, h1, f, i)
  <2>1. f \in DOMAIN h /\ h1[f] = h[f] /\ mem1.table[f] = mem.table[f] /\ h[f].root \in S
    OBVIOUS
  <2>2. h[mem.table[f][i].at].root = h[f].root
    BY <1>4 DEF LeadsToTable, Place
  <2>3. mem.table[f][i].at \in DOMAIN h1
    BY <1>4, <2>1, <2>2 DEF LeadsToTable
  <2> QED BY <1>4, <2>1, <2>3 DEF LeadsToTable
<1>5. EntriesLead(mem1, h1)
  <2> SUFFICES ASSUME NEW f \in DOMAIN h1, NEW i \in DOMAIN mem1.table[f]
      PROVE i \in 0 .. ENTRIES - 1 /\ (LeadsToTable(mem1, h1, f, i) \/ IsLeaf(mem1, h1, f, i))
    BY DEF EntriesLead
  <2>1. f \in DOMAIN h /\ h1[f] = h[f] /\ i \in DOMAIN mem.table[f] /\ mem1.table[f] = mem.table[f]
    OBVIOUS
  <2>2. i \in 0 .. ENTRIES - 1 /\ (LeadsToTable(mem, h, f, i) \/ IsLeaf(mem, h, f, i))
    BY <2>1 DEF ShapeOf, EntriesLead
  <2>3. IsLeaf(mem, h, f, i) => IsLeaf(mem1, h1, f, i)
    BY <2>1 DEF IsLeaf
  <2> QED BY <1>4, <2>1, <2>2, <2>3
<1>6. Attached(mem1, h1)
  <2> SUFFICES ASSUME NEW f \in DOMAIN h1, h1[f].level # 0
      PROVE \E p \in DOMAIN h1 : \E i \in DOMAIN mem1.table[p] :
              LeadsToTable(mem1, h1, p, i) /\ mem1.table[p][i].at = f
    BY DEF Attached
  <2>1. f \in DOMAIN h /\ h1[f] = h[f] /\ h[f].root \in S
    OBVIOUS
  <2>2. PICK p \in DOMAIN h : \E i \in DOMAIN mem.table[p] :
          LeadsToTable(mem, h, p, i) /\ mem.table[p][i].at = f
    BY <2>1 DEF ShapeOf, Attached
  <2>3. PICK i \in DOMAIN mem.table[p] : LeadsToTable(mem, h, p, i) /\ mem.table[p][i].at = f
    BY <2>2
  <2>4. h[f].root = h[p].root
    BY <2>3 DEF LeadsToTable, Place
  <2>5. p \in DOMAIN h1 /\ mem1.table[p] = mem.table[p]
    BY <2>1, <2>4
  <2> QED BY <1>4, <2>3, <2>5
<1>7. ShapeOf(mem1, h1)
  BY <1>2, <1>3, <1>5, <1>6 DEF ShapeOf
<1>8. Filled(mem1, h1, NoFrame)
  BY DEF Filled
<1>9. SameWalks(mem, h1, mem1)
  <2> SUFFICES ASSUME NEW r, IsRoot(h1, r), NEW page \in Pages
      PROVE Lookup(mem1, r, page) = Lookup(mem, r, page)
    BY DEF SameWalks
  <2>1. IsRoot(h, r) /\ r \in S
    BY <1>1
  <2>2. PICK k \in 0 .. LAST_LEVEL : \E g \in DOMAIN h :
           /\ h[g] = Place(r, k, Prefix(page, k))
           /\ Ends(mem.table[g], k, TableIndex(page, k))
           /\ Lookup(mem, r, page) = LeafOf(mem.table[g], page, k)
    BY <2>1, WalkEnds
  <2>3. PICK g \in DOMAIN h :
           /\ h[g] = Place(r, k, Prefix(page, k))
           /\ Ends(mem.table[g], k, TableIndex(page, k))
           /\ Lookup(mem, r, page) = LeafOf(mem.table[g], page, k)
    BY <2>2
  <2>4. g \in DOMAIN h1 /\ h1[g] = Place(r, k, Prefix(page, k)) /\ mem1.table[g] = mem.table[g]
    <3>1. h[g].root = r
      BY <2>3 DEF Place
    <3> QED BY <2>1, <2>3, <3>1
  <2>5. Lookup(mem1, r, page) = LeafOf(mem1.table[g], page, k)
    BY <1>7, <2>3, <2>4, LookupIs
  <2> QED BY <2>3, <2>4, <2>5
<1> QED BY <1>7, <1>8, <1>9

(* Nothing that is not a table matters. *)
LEMMA AllStay ==
  ASSUME NEW mem, NEW h, ShapeOf(mem, h), Filled(mem, h, NoFrame),
         NEW mem1, InMemory(mem1, h), \A f \in DOMAIN h : mem1.table[f] = mem.table[f]
  PROVE  ShapeOf(mem1, h) /\ Filled(mem1, h, NoFrame) /\ SameWalks(mem, h, mem1)
<1> DEFINE S == {h[f].root : f \in DOMAIN h}
<1>1. DOMAIN h = {f \in DOMAIN h : h[f].root \in S}
  OBVIOUS
<1> HIDE DEF S
<1> QED BY <1>1, TreesStay

(* What claiming frames changes *)
LEMMA ClaimIs ==
  ASSUME NEW mem, NEW fs
  PROVE  LET mem1 == Claim(mem, fs)
         IN /\ mem1.ok /\ mem1.free = mem.free \ fs /\ DOMAIN mem1.table = DOMAIN mem.table
            /\ \A f \in DOMAIN mem.table : mem1.table[f] = IF f \in fs THEN Zeroed ELSE mem.table[f]
BY DEF Claim, Memory

(* Frames that were free are nobody's table. *)
LEMMA ClaimStays ==
  ASSUME NEW mem, NEW h, ShapeOf(mem, h), Filled(mem, h, NoFrame), NEW fs \in SUBSET mem.free,
         NEW mem1, mem1 = Claim(mem, fs)
  PROVE  /\ ShapeOf(mem1, h) /\ Filled(mem1, h, NoFrame) /\ SameWalks(mem, h, mem1)
         /\ mem1.free = mem.free \ fs /\ DOMAIN mem1.table = DOMAIN mem.table /\ mem1.ok
<1>1. /\ mem1.ok /\ mem1.free = mem.free \ fs /\ DOMAIN mem1.table = DOMAIN mem.table
      /\ \A f \in DOMAIN mem.table : mem1.table[f] = IF f \in fs THEN Zeroed ELSE mem.table[f]
  BY ClaimIs
<1>2. InMemory(mem1, h)
  BY <1>1 DEF ShapeOf, InMemory
<1>3. \A f \in DOMAIN h : mem1.table[f] = mem.table[f]
  BY <1>1 DEF ShapeOf, InMemory
<1> QED BY <1>1, <1>2, <1>3, AllStay

(* The homes with one more root *)
NewRooted(mem, h, h1, root) ==
  /\ ShapeOf(mem, h1) /\ Filled(mem, h1, NoFrame)
  /\ DOMAIN h1 = DOMAIN h \cup {root} /\ \A f \in DOMAIN h : h1[f] = h[f]
  /\ IsRoot(h1, root) /\ \A va \in Pages : Lookup(mem, root, va) = Nowhere

(* A frame that was zeroed and claimed is a root from which nothing is mapped. *)
LEMMA NewRootIs ==
  ASSUME NEW mem, NEW h, ShapeOf(mem, h), Filled(mem, h, NoFrame), NEW root,
         root \in DOMAIN mem.table, root \notin mem.free, root \notin DOMAIN h,
         DOMAIN mem.table[root] = {}
  PROVE  \E h1 : NewRooted(mem, h, h1, root)
<1> DEFINE h1 == [f \in DOMAIN h \cup {root} |-> IF f = root THEN Place(root, 0, 0) ELSE h[f]]
<1>0. LAST_LEVEL \in Nat \ {0} /\ 0 \in 0 .. LAST_LEVEL /\ 0 \in Pages
  BY Spans DEF Pages
<1>1. DOMAIN h1 = DOMAIN h \cup {root} /\ h1[root] = Place(root, 0, 0) /\ \A f \in DOMAIN h : h1[f] = h[f]
  OBVIOUS
<1> HIDE DEF h1
<1>2. IsRoot(h1, root) /\ \A r : IsRoot(h, r) => IsRoot(h1, r)
  BY <1>1 DEF IsRoot
<1>3. h1[root].root = root /\ h1[root].level = 0 /\ h1[root].above = 0
  BY <1>1 DEF Place
<1>4. InMemory(mem, h1)
  BY <1>1 DEF ShapeOf, InMemory
<1>5. HomesOf(h1)
  <2> SUFFICES ASSUME NEW f \in DOMAIN h1
      PROVE /\ h1[f].level \in 0 .. LAST_LEVEL /\ IsRoot(h1, h1[f].root)
            /\ \E w \in Pages : h1[f] = Place(h1[f].root, h1[f].level, Prefix(w, h1[f].level))
    BY DEF HomesOf
  <2>1. CASE f = root
    <3>1. Prefix(0, 0) = 0
      BY <1>0, Indices
    <3> QED BY <1>0, <1>1, <1>2, <1>3, <2>1, <3>1
  <2>2. CASE f \in DOMAIN h
    BY <1>1, <1>2, <2>2 DEF ShapeOf, HomesOf
  <2> QED BY <1>1, <2>1, <2>2
<1>6. OneEach(h1)
  <2>1. ASSUME NEW f \in DOMAIN h, h[f] = Place(root, 0, 0) PROVE FALSE
    <3>1. IsRoot(h, h[f].root) /\ h[f].root = root
      BY <2>1 DEF ShapeOf, HomesOf, Place
    <3> QED BY <3>1 DEF IsRoot
  <2> QED BY <1>1, <2>1 DEF ShapeOf, OneEach
<1>7. EntriesLead(mem, h1)
  <2> SUFFICES ASSUME NEW f \in DOMAIN h1, NEW i \in DOMAIN mem.table[f]
      PROVE i \in 0 .. ENTRIES - 1 /\ (LeadsToTable(mem, h1, f, i) \/ IsLeaf(mem, h1, f, i))
    BY DEF EntriesLead
  <2>1. f \in DOMAIN h
    BY <1>1
  <2>2. i \in 0 .. ENTRIES - 1 /\ (LeadsToTable(mem, h, f, i) \/ IsLeaf(mem, h, f, i))
    BY <2>1 DEF ShapeOf, EntriesLead
  <2> QED BY <1>1, <2>1, <2>2 DEF LeadsToTable, IsLeaf
<1>8. Attached(mem, h1)
  <2> SUFFICES ASSUME NEW f \in DOMAIN h1, h1[f].level # 0
      PROVE \E p \in DOMAIN h1 : \E i \in DOMAIN mem.table[p] :
              LeadsToTable(mem, h1, p, i) /\ mem.table[p][i].at = f
    BY DEF Attached
  <2>1. f \in DOMAIN h /\ h[f].level # 0
    BY <1>1, <1>3
  <2>2. PICK p \in DOMAIN h : \E i \in DOMAIN mem.table[p] :
          LeadsToTable(mem, h, p, i) /\ mem.table[p][i].at = f
    BY <2>1 DEF ShapeOf, Attached
  <2>3. p \in DOMAIN h1 /\ \A i : LeadsToTable(mem, h, p, i) => LeadsToTable(mem, h1, p, i)
    BY <1>1 DEF LeadsToTable
  <2> QED BY <2>2, <2>3
<1>9. ShapeOf(mem, h1)
  BY <1>4, <1>5, <1>6, <1>7, <1>8 DEF ShapeOf
<1>10. Filled(mem, h1, NoFrame)
  BY <1>0, <1>1, <1>3 DEF Filled
<1>11. ASSUME NEW va \in Pages PROVE Lookup(mem, root, va) = Nowhere
  <2>1. Prefix(va, 0) = 0 /\ Ends(mem.table[root], 0, TableIndex(va, 0))
    BY Indices DEF Ends
  <2>2. root \in DOMAIN h1 /\ h1[root] = Place(root, 0, Prefix(va, 0))
    BY <1>1, <2>1
  <2>3. Lookup(mem, root, va) = LeafOf(mem.table[root], va, 0)
    BY <1>0, <1>2, <1>9, <2>1, <2>2, LookupIs
  <2> QED BY <2>3 DEF LeafOf
<1>12. NewRooted(mem, h, h1, root)
  BY <1>1, <1>2, <1>9, <1>10, <1>11 DEF NewRooted
<1> QED BY <1>12

(* free_table visits the tables of its root, each of them ... *)
LEMMA TablesVisitedAre ==
  ASSUME NEW mem, NEW h, ShapeOf(mem, h), NEW root, IsRoot(h, root)
  PROVE  Freed(TablesVisited(mem, root)) = TablesOf(h, root)
<1> DEFINE at(va, level) == Path(mem.table, root, va)[level]
<1>1. \A f : f \in Freed(TablesVisited(mem, root)) <=>
        \E va \in Pages : \E level \in 0 .. LAST_LEVEL : f = at(va, level) /\ f # NoFrame
  <2> HIDE DEF at
  <2> DEFINE all == {<<<<level, Prefix(va, level)>>, at(va, level)>> : va \in Pages, level \in 0 .. LAST_LEVEL}
  <2>1. TablesVisited(mem, root) = {v \in all : v[2] # NoFrame}
    BY DEF TablesVisited, at
  <2>2. ASSUME NEW f \in Freed(TablesVisited(mem, root))
        PROVE  \E va \in Pages : \E level \in 0 .. LAST_LEVEL : f = at(va, level) /\ f # NoFrame
    <3>1. PICK v \in all : v[2] = f /\ v[2] # NoFrame
      BY <2>1 DEF Freed
    <3>2. \E va \in Pages : \E level \in 0 .. LAST_LEVEL : v = <<<<level, Prefix(va, level)>>, at(va, level)>>
      BY <3>1
    <3> QED BY <3>1, <3>2
  <2>3. ASSUME NEW va \in Pages, NEW level \in 0 .. LAST_LEVEL, at(va, level) # NoFrame
        PROVE  at(va, level) \in Freed(TablesVisited(mem, root))
    <3> DEFINE v == <<<<level, Prefix(va, level)>>, at(va, level)>>
    <3>1. v \in all /\ v[2] = at(va, level)
      OBVIOUS
    <3> HIDE DEF v, all
    <3> QED BY <2>1, <2>3, <3>1 DEF Freed
  <2> QED BY <2>2, <2>3
<1>2. ASSUME NEW va \in Pages, NEW level \in 0 .. LAST_LEVEL, at(va, level) # NoFrame
      PROVE  at(va, level) \in TablesOf(h, root)
  <2>1. at(va, level) \in DOMAIN h /\ h[at(va, level)] = Place(root, level, Prefix(va, level))
    BY <1>2, PathWithin
  <2>2. h[at(va, level)].root = root
    BY <2>1 DEF Place
  <2> HIDE DEF at
  <2> QED BY <2>1, <2>2 DEF TablesOf
<1>3. ASSUME NEW f \in TablesOf(h, root)
      PROVE  \E va \in Pages : \E level \in 0 .. LAST_LEVEL : f = at(va, level) /\ f # NoFrame
  <2>1. f \in DOMAIN h /\ h[f].root = root
    BY DEF TablesOf
  <2>2. PICK va \in Pages : h[f] = Place(root, h[f].level, Prefix(va, h[f].level))
    BY <2>1 DEF ShapeOf, HomesOf
  <2>3. h[f].level \in 0 .. LAST_LEVEL
    BY <2>1 DEF ShapeOf, HomesOf
  <2>4. f = at(va, h[f].level) /\ f # NoFrame
    BY <2>1, <2>2, <2>3, PathFinds
  <2> HIDE DEF at
  <2> QED BY <2>3, <2>4
<1> HIDE DEF at
<1> QED BY <1>1, <1>2, <1>3

(* ... and the pages it leads to. *)
LEMMA LeavesVisitedAre ==
  ASSUME NEW mem, NEW root
  PROVE  Freed(LeavesVisited(mem, root)) = {Lookup(mem, root, va).at : va \in Pages} \ {NoFrame}
<1> DEFINE at(va) == Lookup(mem, root, va).at
           all == {<<<<LAST_LEVEL + 1, va>>, at(va)>> : va \in Pages}
<1> HIDE DEF at
<1>1. LeavesVisited(mem, root) = {v \in all : v[2] # NoFrame}
  BY DEF LeavesVisited, at
<1>2. ASSUME NEW f \in Freed(LeavesVisited(mem, root)) PROVE f \in {at(va) : va \in Pages} \ {NoFrame}
  <2>1. PICK v \in all : v[2] = f /\ v[2] # NoFrame
    BY <1>1 DEF Freed
  <2>2. \E va \in Pages : v = <<<<LAST_LEVEL + 1, va>>, at(va)>>
    BY <2>1
  <2> QED BY <2>1, <2>2
<1>3. ASSUME NEW va \in Pages, at(va) # NoFrame PROVE at(va) \in Freed(LeavesVisited(mem, root))
  <2> DEFINE v == <<<<LAST_LEVEL + 1, va>>, at(va)>>
  <2>1. v \in all /\ v[2] = at(va)
    OBVIOUS
  <2> HIDE DEF v, all
  <2> QED BY <1>1, <1>3, <2>1 DEF Freed
<1>4. Freed(LeavesVisited(mem, root)) = {at(va) : va \in Pages} \ {NoFrame}
  BY <1>2, <1>3
<1> QED BY <1>4 DEF at

=============================================================================
