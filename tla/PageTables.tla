------------------------------ MODULE PageTables ------------------------------
(***************************************************************************)
(* Translation tables (kernel/src/paging.rs) over the frames they live in:  *)
(* the code that maps a range, walks a table and frees one.                 *)
(*                                                                          *)
(* Addresses count pages.  A memory mem is a record of                      *)
(*    table : what each frame holds, read as a table; a table is a function *)
(*            on the indices of its valid entries                           *)
(*    free  : the frames the allocator will hand out, lowest first          *)
(*    ok    : FALSE once an assertion or an expect has failed               *)
(* The allocator behind it is FrameAllocator's; here it is a set.           *)
(*                                                                          *)
(* The loops of the code are functions from the number of turns taken.      *)
(***************************************************************************)
EXTENDS Integers, FiniteSets

CONSTANTS
  ENTRIES,     \* entries of a table (512)
  LAST_LEVEL   \* the level whose entries are pages (3); blocks are one above

ASSUME TablesAssumption == ENTRIES \in Nat \ {0} /\ LAST_LEVEL \in Nat \ {0}

(* Pages that an entry covers, n levels above the last *)
Power[n \in 0 .. LAST_LEVEL + 1] == IF n = 0 THEN 1 ELSE ENTRIES * Power[n - 1]

Span(level) == Power[LAST_LEVEL - level]
BLOCK == Span(LAST_LEVEL - 1)
PAGES == ENTRIES * Span(0)
Pages == 0 .. PAGES - 1

(* The sign extension of the high half falls out of the index. *)
TableIndex(va, level) == (va \div Span(level)) % ENTRIES

(* The part of va that the levels above this one have used *)
Prefix(va, level) == va \div (ENTRIES * Span(level))

(* Descriptors: the bit that tells a table from a block also marks a page. *)
TableEntry(f) == [block |-> FALSE, at |-> f, attrs |-> "table"]
PageEntry(pa, attrs) == [block |-> FALSE, at |-> pa, attrs |-> attrs]
BlockEntry(pa, attrs) == [block |-> TRUE, at |-> pa, attrs |-> attrs]

Zeroed == [index \in {} |-> 0]
Write(tables, table, index, entry) ==
  [tables EXCEPT ![table] = [i \in DOMAIN @ \cup {index} |-> IF i = index THEN entry ELSE @[i]]]

Memory(tables, free) == [table |-> tables, free |-> free, ok |-> TRUE]
Panicked(mem) == [table |-> mem.table, free |-> mem.free, ok |-> FALSE]

-----------------------------------------------------------------------------
(* frames::alloc.  Variant: a frame is handed out with what it held. *)
ClaimUnzeroed(mem, fs) == Memory(mem.table, mem.free \ fs)

Claim(mem, fs) ==
  Memory([f \in DOMAIN mem.table |-> IF f \in fs THEN Zeroed ELSE mem.table[f]], mem.free \ fs)

Lowest(S) == CHOOSE f \in S : \A g \in S : f <= g

(* alloc_contiguous: the lowest run that is free *)
Runs(mem, n) == {f \in mem.free : f .. f + n - 1 \subseteq mem.free}

(* frames::free of every frame of visits, pairs of a place and the frame     *)
(* found there: it panics if the frame is free already.                      *)
Freed(visits) == {v[2] : v \in visits}
FreedTwice(visits) == \E v, w \in visits : v[2] = w[2] /\ v # w

Release(mem, visits) ==
  IF ~FreedTwice(visits) /\ Freed(visits) \cap mem.free = {}
  THEN Memory(mem.table, mem.free \cup Freed(visits)) ELSE Panicked(mem)

-----------------------------------------------------------------------------
(* next_table: [mem |-> the memory after it, at |-> the table followed or made] *)
NextTable(mem, table, index) ==
  IF index \in DOMAIN mem.table[table]
  THEN LET entry == mem.table[table][index]
       IN IF entry.block THEN [mem |-> Panicked(mem), at |-> table] ELSE [mem |-> mem, at |-> entry.at]
  ELSE IF mem.free = {} THEN [mem |-> Panicked(mem), at |-> table]
  ELSE LET new == Lowest(mem.free)
           claimed == Claim(mem, {new})
       IN [mem |-> Memory(Write(claimed.table, table, index, TableEntry(new)), claimed.free), at |-> new]

(* The table for va at a level, and the memory when it is reached *)
Descend(mem, root, va, target) ==
  LET step[level \in 0 .. target] ==
        IF level = 0 THEN [mem |-> mem, at |-> root]
        ELSE IF ~step[level - 1].mem.ok THEN step[level - 1]
        ELSE NextTable(step[level - 1].mem, step[level - 1].at, TableIndex(va, level - 1))
  IN step[target]

(* map_page and map_block *)
MapLeaf(mem, root, va, entry, level) ==
  LET end == Descend(mem, root, va, level)
  IN IF ~end.mem.ok THEN end.mem
     ELSE Memory(Write(end.mem.table, end.at, TableIndex(va, level), entry), end.mem.free)

BlockFits(va, pa, n) == n >= BLOCK /\ va % BLOCK = 0 /\ pa % BLOCK = 0

(* One turn of map_range's loop, done pages into the range *)
MapChunk(root, r, last) ==
  LET va == r.va + last.done
      pa == r.pa + last.done
  IN IF last.done >= r.n \/ ~last.mem.ok THEN last
     ELSE IF BlockFits(va, pa, r.n - last.done)
     THEN [mem |-> MapLeaf(last.mem, root, va, BlockEntry(pa, r.attrs), LAST_LEVEL - 1),
           done |-> last.done + BLOCK]
     ELSE [mem |-> MapLeaf(last.mem, root, va, PageEntry(pa, r.attrs), LAST_LEVEL),
           done |-> last.done + 1]

MapRange(mem, root, r) ==
  LET turn[n \in 0 .. r.n] ==
        IF n = 0 THEN [mem |-> mem, done |-> 0] ELSE MapChunk(root, r, turn[n - 1])
  IN turn[r.n].mem

-----------------------------------------------------------------------------
(* lookup, down to the page: where va leads and with which attributes *)
NoFrame == -1
Nowhere == [at |-> NoFrame, attrs |-> "fault"]

Follow(tables, table, index) ==
  IF table # NoFrame /\ index \in DOMAIN tables[table] /\ ~tables[table][index].block
  THEN tables[table][index].at ELSE NoFrame

(* The table that the walk for va comes to at each level *)
Path(tables, root, va) ==
  LET at[level \in 0 .. LAST_LEVEL] ==
        IF level = 0 THEN root ELSE Follow(tables, at[level - 1], TableIndex(va, level - 1))
  IN at

LeafOf(table, va, level) ==
  LET index == TableIndex(va, level)
  IN IF index \notin DOMAIN table THEN Nowhere
     ELSE [at |-> table[index].at + (va % Span(level)), attrs |-> table[index].attrs]

Lookup(mem, root, va) ==
  LET path == Path(mem.table, root, va)
      last == CHOOSE level \in 0 .. LAST_LEVEL :
                /\ path[level] # NoFrame
                /\ level < LAST_LEVEL => path[level + 1] = NoFrame
  IN LeafOf(mem.table[path[last]], va, last)

-----------------------------------------------------------------------------
(* free_table visits every table and every page a leaf covers, each at the   *)
(* place that the addresses leading to it share.  Variant: the tables below  *)
(* the root are not freed.                                                   *)
OnlyRootVisited(mem, root) == {<<<<0, 0>>, root>>}

TablesVisited(mem, root) ==
  {v \in {<<<<level, Prefix(va, level)>>, Path(mem.table, root, va)[level]>> :
            va \in Pages, level \in 0 .. LAST_LEVEL} : v[2] # NoFrame}

LeavesVisited(mem, root) ==
  {v \in {<<<<LAST_LEVEL + 1, va>>, Lookup(mem, root, va).at>> : va \in Pages} : v[2] # NoFrame}

SpaceVisited(mem, root) == TablesVisited(mem, root) \cup LeavesVisited(mem, root)

FreeTable(mem, root) == Release(mem, SpaceVisited(mem, root))
=============================================================================
