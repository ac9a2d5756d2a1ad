------------------------------ MODULE DeviceTree ------------------------------
(***************************************************************************)
(* The reader of the flattened device tree (kernel/src/fdt.rs) and what the *)
(* boot path asks of it: the memory map (main.rs, adopt_memory_map), the    *)
(* console and the interrupt controller (discover_devices) and the virtio   *)
(* transports (virtio.rs, discover).                                        *)
(*                                                                          *)
(* The blob is an array of 4-byte words, as every token, length, cell and   *)
(* padded string of the format is, and offsets and lengths count words.     *)
(* The blob comes from outside, so any word may hold anything.  A step is   *)
(* one turn of a loop of the code.                                          *)
(***************************************************************************)
EXTENDS Naturals, Sequences, FiniteSets

CONSTANTS
  Blobs,       \* external: what the firmware may pass, headers decoded
  LIMIT,       \* offsets, lengths and cells are below LIMIT (2^32)
  HEADER_SIZE, MAX_BLOB, SUPPORTED_VERSION,
  RamStart, RamEnd,                     \* the window of RAM known so far
  MAX_DEPTH, MAX_RESERVATIONS, MAX_TRANSPORTS,
  MAX_WINDOWS,                          \* discover_devices has room for 4
  Text,        \* words that do not begin with a zero byte
  Open,        \* words without any zero byte: a string goes on after them
  Components,  \* [goal -> names that match the path find_node is given]
  Models,      \* [goal -> the word of a compatible list that is looked for]
  Reg, Compatible, Interrupts, AddressCells, SizeCells   \* property names

FDT_BEGIN_NODE == 1
FDT_END_NODE == 2
FDT_PROP == 3
FDT_NOP == 4
FDT_END == 9
Default == [address |-> 2, size |-> 1]

ASSUME LimitAssumption == LIMIT \in Nat /\ MAX_BLOB \in Nat /\ 2 * MAX_BLOB + 16 < LIMIT
ASSUME DepthAssumption == MAX_DEPTH \in Nat /\ MAX_DEPTH > 2
ASSUME BlobsAssumption ==
  \A b \in Blobs :
    /\ {b.total, b.struct, b.structSize, b.strings, b.stringsSize, b.rsvmap} \subseteq 0 .. LIMIT - 1
    /\ \A i \in DOMAIN b.word : b.word[i] \in 0 .. LIMIT - 1

VARIABLES
  blob,                  \* the blob: header fields, words, where it lies
  pc,                    \* what the reader does next
  goal,                  \* which question is being answered
  offset, depth, cells,  \* the Walker
  node, name,            \* the Step::Node it returned last
  onPath,                \* find_node: on_path
  parent, after,         \* /reserved-memory; find_compatible_after's offset
  cursor, want, value,   \* Properties: its offset, the name looked for, the hit
  memory, reserved, dropped,  \* the MemoryMap
  windows,               \* the reg windows adopted for pl011 and gic
  probed, slots,         \* virtio: the transports decoded, the slots seen
  window,                \* virtio probe: the window of the slot being decoded
  inside                 \* every word read so far lies in the blob

walkerVars == <<offset, depth, cells>>
foundVars == <<node, name>>
searchVars == <<onPath, parent, after>>
scanVars == <<cursor, want, value>>
mapVars == <<memory, reserved, dropped>>
deviceVars == <<windows, window, probed, slots>>
vars == <<blob, pc, goal, walkerVars, foundVars, searchVars, scanVars, mapVars, deviceVars, inside>>

-----------------------------------------------------------------------------
(* Reading the blob.  The memory behind the words the firmware wrote reads  *)
(* as zero.                                                                 *)
Word(o) == IF o \in DOMAIN blob.word THEN blob.word[o] ELSE 0

Least(a, b) == IF a < b THEN a ELSE b

(* Reads that end before the offsets in ends *)
Reads(ends) == inside' = (inside /\ \A e \in ends : e <= blob.total)

(* Variant: the sum of the bounds check wraps. *)
FitsWrapping(o, n) == (o + n) % LIMIT <= blob.total

(* u32_at and bytes_at: checked_add, then the comparison *)
Fits(o, n) == o + n < LIMIT /\ o + n <= blob.total

(* str_at: the string at o ends with the first word that has a zero byte. *)
StrLimit(limit) == Least(limit, blob.total)
StrEnds(o, limit) == {e \in o .. StrLimit(limit) - 1 : Word(e) \notin Open}
HasStr(o, limit) == StrEnds(o, limit) # {}
StrEnd(o, limit) == CHOOSE e \in StrEnds(o, limit) : \A d \in StrEnds(o, limit) : e <= d
Str(o, limit) ==
  IF Word(o) \in Text THEN [i \in 1 .. StrEnd(o, limit) - o + 1 |-> Word(o + i - 1)] ELSE <<>>
StrReads(o, limit) ==
  IF o >= StrLimit(limit) THEN {} ELSE {IF HasStr(o, limit) THEN StrEnd(o, limit) + 1 ELSE StrLimit(limit)}

(* string: a name in the strings block *)
StringsEnd == blob.strings + blob.stringsSize
NameAt(o) == blob.strings + Word(o)
HasName(o) == NameAt(o) < LIMIT /\ NameAt(o) < StringsEnd /\ HasStr(NameAt(o), StringsEnd)
NameOf(o) == Str(NameAt(o), StringsEnd)

(* A property token at o: length, name and value lie inside the blob. *)
PropFits(o) == Fits(o + 1, 1) /\ Fits(o + 2, 1) /\ Fits(o + 3, Word(o + 1)) /\ HasName(o + 2)
PropEnd(o) == o + 3 + Word(o + 1)
PropReads(o) ==
  {o + 1} \cup
  IF ~Fits(o + 1, 1) THEN {}
  ELSE IF ~Fits(o + 2, 1) THEN {o + 2}
  ELSE IF ~Fits(o + 3, Word(o + 1)) THEN {o + 3}
  ELSE {PropEnd(o)} \cup (IF NameAt(o + 2) < StringsEnd THEN StrReads(NameAt(o + 2), StringsEnd) ELSE {})

(* A value is a slice of the blob. *)
Slice(o) == [at |-> o + 3, len |-> Word(o + 1)]
Cell(i) == Word(value.at + i)

-----------------------------------------------------------------------------
(* probe's checks of the header *)
EndsInside(o, size) == o + size < LIMIT /\ o + size <= blob.total

HeaderAccepted ==
  /\ blob.aligned /\ blob.magic
  /\ blob.total >= HEADER_SIZE /\ blob.total <= MAX_BLOB
  /\ blob.compat <= SUPPORTED_VERSION /\ blob.version >= blob.compat
  /\ EndsInside(blob.struct, blob.structSize)
  /\ EndsInside(blob.strings, blob.stringsSize)
  /\ blob.rsvmap < blob.total

InRam == blob.pa >= RamStart /\ blob.pa + HEADER_SIZE <= RamEnd

Init ==
  /\ blob \in Blobs
  /\ pc = "probe" /\ goal = "reserved-memory"
  /\ offset = 0 /\ depth = 0 /\ cells = [d \in 0 .. MAX_DEPTH - 1 |-> Default]
  /\ node = [offset |-> 0, depth |-> 0, cells |-> Default] /\ name = <<>>
  /\ onPath = [d \in 0 .. MAX_DEPTH - 1 |-> d = 0]
  /\ parent = node /\ after = 0
  /\ cursor = 0 /\ want = Reg /\ value = [at |-> 0, len |-> 0]
  /\ memory = [base |-> 0, size |-> 0, banks |-> 0] /\ reserved = <<>> /\ dropped = 0
  /\ windows = [g \in {"pl011", "gic"} |-> <<>>] /\ probed = <<>> /\ slots = 0
  /\ window = [base |-> 0, size |-> 0] /\ inside = TRUE

(* MemoryMap::reserve *)
Reserve(base, size) ==
  /\ reserved' = IF size = 0 \/ Len(reserved) = MAX_RESERVATIONS
                 THEN reserved ELSE Append(reserved, [base |-> base, size |-> size])
  /\ dropped' = IF size # 0 /\ Len(reserved) = MAX_RESERVATIONS THEN dropped + 1 ELSE dropped
  /\ UNCHANGED memory

(* init: without a tree the kernel keeps its constants. *)
Accept ==
  /\ pc = "probe" /\ blob.pa # 0 /\ InRam
  /\ HeaderAccepted /\ blob.pa + blob.total <= RamEnd
  /\ pc' = "rsvmap" /\ offset' = blob.rsvmap
  /\ Reserve(blob.pa, blob.total)
  /\ Reads({HEADER_SIZE})
  /\ UNCHANGED <<blob, goal, depth, cells, foundVars, searchVars, scanVars, deviceVars>>

Refuse ==
  /\ pc = "probe"
  /\ ~(blob.pa # 0 /\ InRam /\ HeaderAccepted /\ blob.pa + blob.total <= RamEnd)
  /\ pc' = "refused"
  /\ UNCHANGED <<blob, goal, walkerVars, foundVars, searchVars, scanVars, mapVars, deviceVars, inside>>

-----------------------------------------------------------------------------
(* walk: a new Walker at the top of the structure block, for question g *)
Walk(g) ==
  /\ goal' = g
  /\ pc' = "walk"
  /\ offset' = blob.struct /\ depth' = 0 /\ cells' = [d \in 0 .. MAX_DEPTH - 1 |-> Default]

(* The questions in the order of the boot path.  find_node starts with a     *)
(* path of its own, find_compatible after offset 0.                         *)
Following == [g \in {"reserved-memory", "children", "memory", "pl011", "gic"} |->
  CASE g \in {"reserved-memory", "children"} -> "memory"
    [] g = "memory" -> "pl011"
    [] g = "pl011" -> "gic"
    [] g = "gic" -> "virtio"]

Ask(g) ==
  /\ Walk(g)
  /\ onPath' = [d \in 0 .. MAX_DEPTH - 1 |-> d = 0]
  /\ after' = 0
  /\ UNCHANGED <<parent, foundVars, scanVars>>

(* memory_map: the reservation block, a pair of u64 at a time *)
U64(o) == Word(o) * LIMIT + Word(o + 1)
RsvEntry == Fits(offset, 1) /\ Fits(offset + 1, 1) /\ Fits(offset + 2, 1) /\ Fits(offset + 3, 1)
RsvReads == {o \in offset + 1 .. offset + 4 : Fits(o - 1, 1)}

ReserveEntry ==
  /\ pc = "rsvmap" /\ RsvEntry /\ ~(U64(offset) = 0 /\ U64(offset + 2) = 0)
  /\ Reserve(U64(offset), U64(offset + 2))
  /\ offset' = offset + 4
  /\ Reads(RsvReads)
  /\ UNCHANGED <<blob, pc, goal, depth, cells, foundVars, searchVars, scanVars, deviceVars>>

RsvmapDone ==
  /\ pc = "rsvmap" /\ ~(RsvEntry /\ ~(U64(offset) = 0 /\ U64(offset + 2) = 0))
  /\ Reads(RsvReads)
  /\ Ask("reserved-memory")
  /\ UNCHANGED <<blob, mapVars, deviceVars>>

-----------------------------------------------------------------------------
(* Walker::next, one turn of its loop *)
StructEnd == Least(blob.struct + blob.structSize, LIMIT - 1)
AtToken == offset < StructEnd /\ Fits(offset, 1)
Walking(token) == pc = "walk" /\ AtToken /\ Word(offset) = token

(* Variant: a deleted token is not skipped. *)
WalkNopStays ==
  /\ Walking(FDT_NOP)
  /\ Reads({offset + 1})
  /\ UNCHANGED <<blob, pc, goal, walkerVars, foundVars, searchVars, scanVars, mapVars, deviceVars>>

WalkNop ==
  /\ Walking(FDT_NOP)
  /\ offset' = offset + 1
  /\ Reads({offset + 1})
  /\ UNCHANGED <<blob, pc, goal, depth, cells, foundVars, searchVars, scanVars, mapVars, deviceVars>>

(* Variant: the last level of the array is not kept free. *)
RoomBelowUnchecked == depth + 1 <= MAX_DEPTH

RoomBelow == depth + 1 < MAX_DEPTH

(* Variant: a node that does not say keeps what the last one at its depth said. *)
OpenedInherits == cells

Opened == [cells EXCEPT ![depth + 1] = Default]

Begins == HasStr(offset + 1, StructEnd) /\ RoomBelow

WalkBegin ==
  /\ Walking(FDT_BEGIN_NODE) /\ Begins
  /\ depth' = depth + 1
  /\ cells' = Opened
  /\ offset' = StrEnd(offset + 1, StructEnd) + 1
  /\ node' = [offset |-> offset, depth |-> depth + 1, cells |-> cells[depth]]
  /\ name' = Str(offset + 1, StructEnd)
  /\ pc' = "node"
  /\ Reads({offset + 1} \cup StrReads(offset + 1, StructEnd))
  /\ UNCHANGED <<blob, goal, searchVars, scanVars, mapVars, deviceVars>>

WalkEndNode ==
  /\ Walking(FDT_END_NODE) /\ depth > 0
  /\ depth' = depth - 1
  /\ offset' = offset + 1
  /\ Reads({offset + 1})
  /\ UNCHANGED <<blob, pc, goal, cells, foundVars, searchVars, scanVars, mapVars, deviceVars>>

(* A property of the open node; the two that count cells are recorded. *)
WalkProp ==
  /\ Walking(FDT_PROP) /\ PropFits(offset)
  /\ offset' = PropEnd(offset)
  /\ cells' =
       IF depth = 0 \/ Word(offset + 1) = 0 THEN cells
       ELSE CASE NameOf(offset + 2) = AddressCells -> [cells EXCEPT ![depth].address = Word(offset + 3)]
              [] NameOf(offset + 2) = SizeCells -> [cells EXCEPT ![depth].size = Word(offset + 3)]
              [] OTHER -> cells
  /\ Reads(PropReads(offset))
  /\ UNCHANGED <<blob, pc, goal, depth, foundVars, searchVars, scanVars, mapVars, deviceVars>>

(* None: the end of the tree, and every malformed case *)
Stuck ==
  AtToken =>
    CASE Word(offset) = FDT_NOP -> FALSE
      [] Word(offset) = FDT_BEGIN_NODE -> ~Begins
      [] Word(offset) = FDT_END_NODE -> depth = 0
      [] Word(offset) = FDT_PROP -> ~PropFits(offset)
      [] OTHER -> TRUE

StopReads ==
  IF ~AtToken THEN {}
  ELSE CASE Word(offset) = FDT_BEGIN_NODE -> {offset + 1} \cup StrReads(offset + 1, StructEnd)
         [] Word(offset) = FDT_PROP -> PropReads(offset)
         [] OTHER -> {offset + 1}

(* A question without an answer; discover ends when it finds no more. *)
WalkStop ==
  /\ pc = "walk" /\ Stuck
  /\ Reads(StopReads)
  /\ \/ goal # "virtio" /\ Ask(Following[goal])
     \/ goal = "virtio" /\ pc' = "done"
        /\ UNCHANGED <<goal, walkerVars, foundVars, searchVars, scanVars>>
  /\ UNCHANGED <<blob, mapVars, deviceVars>>

-----------------------------------------------------------------------------
(* What the caller does with a node *)
NodeAt(g) == pc = "node" /\ goal = g

PassNode ==
  /\ pc' = "walk"
  /\ UNCHANGED <<goal, walkerVars, foundVars, parent, after, scanVars>>

(* find_node, for a path of one component *)
Matched ==
  IF node.depth = 1 THEN name = <<>>
  ELSE node.depth = 2 /\ onPath[1] /\ name \in Components[goal]

Answered == Matched /\ node.depth = 2

(* Properties of the node, from behind its name *)
Scan(property) ==
  /\ pc' = "scan" /\ want' = property
  /\ cursor' = IF HasStr(node.offset + 1, blob.total)
               THEN StrEnd(node.offset + 1, blob.total) + 1 ELSE LIMIT - 1
  /\ Reads(StrReads(node.offset + 1, blob.total))
  /\ UNCHANGED <<walkerVars, foundVars, parent, value>>

(* reg refuses what it cannot hold before it looks. *)
CellsHeld == node.cells.address \in {1, 2} /\ node.cells.size <= 2

LookForPath ==
  /\ pc = "node" /\ goal \in {"reserved-memory", "memory"} /\ ~Answered
  /\ onPath' = [onPath EXCEPT ![node.depth] = Matched]
  /\ PassNode
  /\ UNCHANGED <<blob, mapVars, deviceVars, inside>>

FoundReserved ==
  /\ NodeAt("reserved-memory") /\ Answered
  /\ parent' = node
  /\ Walk("children")
  /\ UNCHANGED <<blob, foundVars, onPath, after, scanVars, mapVars, deviceVars, inside>>

FoundMemory ==
  /\ NodeAt("memory") /\ Answered
  /\ \/ CellsHeld /\ Scan(Reg) /\ UNCHANGED <<goal, onPath, after>>
     \/ ~CellsHeld /\ Ask("pl011") /\ UNCHANGED inside
  /\ UNCHANGED <<blob, mapVars, deviceVars>>

(* The children of /reserved-memory, by a walk from the top *)
BehindParent == node.offset > parent.offset
IsChild == BehindParent /\ node.depth = parent.depth + 1

LookForChild ==
  /\ NodeAt("children")
  /\ \/ /\ ~BehindParent \/ (node.depth > parent.depth /\ ~(IsChild /\ CellsHeld))
        /\ PassNode /\ UNCHANGED <<onPath, inside>>
     \/ /\ BehindParent /\ node.depth <= parent.depth
        /\ Ask("memory") /\ UNCHANGED inside
     \/ /\ IsChild /\ CellsHeld
        /\ Scan(Reg) /\ UNCHANGED <<goal, onPath, after>>
  /\ UNCHANGED <<blob, mapVars, deviceVars>>

(* Variant: the node found last is found again. *)
BehindLastOrAt == node.offset >= after

(* find_compatible_after *)
BehindLast == node.offset > after

LookForModel ==
  /\ pc = "node" /\ goal \in {"pl011", "gic", "virtio"}
  /\ \/ ~BehindLast /\ PassNode /\ UNCHANGED inside
     \/ BehindLast /\ Scan(Compatible) /\ UNCHANGED <<goal, after>>
  /\ UNCHANGED <<blob, onPath, mapVars, deviceVars>>

-----------------------------------------------------------------------------
(* Properties::next, and property's comparison of the name *)
Scanning(token) == pc = "scan" /\ Fits(cursor, 1) /\ Word(cursor) = token

ScanNop ==
  /\ Scanning(FDT_NOP)
  /\ cursor' = cursor + 1
  /\ Reads({cursor + 1})
  /\ UNCHANGED <<blob, pc, goal, walkerVars, foundVars, searchVars, want, value, mapVars, deviceVars>>

ScanProp ==
  /\ Scanning(FDT_PROP) /\ PropFits(cursor)
  /\ cursor' = PropEnd(cursor)
  /\ \/ NameOf(cursor + 2) = want /\ pc' = "hit" /\ value' = Slice(cursor)
     \/ NameOf(cursor + 2) # want /\ UNCHANGED <<pc, value>>
  /\ Reads(PropReads(cursor))
  /\ UNCHANGED <<blob, goal, walkerVars, foundVars, searchVars, want, mapVars, deviceVars>>

ScanOver ==
  ~Fits(cursor, 1) \/ (Word(cursor) # FDT_NOP /\ ~(Word(cursor) = FDT_PROP /\ PropFits(cursor)))

(* None: found as a value of no length, which no reader of it takes *)
ScanMiss ==
  /\ pc = "scan" /\ ScanOver
  /\ pc' = "hit" /\ value' = [at |-> 0, len |-> 0]
  /\ Reads(IF ~Fits(cursor, 1) THEN {} ELSE IF Word(cursor) = FDT_PROP THEN PropReads(cursor) ELSE {cursor + 1})
  /\ UNCHANGED <<blob, goal, walkerVars, foundVars, searchVars, cursor, want, mapVars, deviceVars>>

-----------------------------------------------------------------------------
(* reg and regions: entries of the parent's cells, each cell 32 bits more *)
Cells(at, count) ==
  CASE count = 0 -> 0
    [] count = 1 -> Cell(at)
    [] OTHER -> Cell(at) * LIMIT + Cell(at + 1)

Entry == node.cells.address + node.cells.size
Region(i) ==
  [base |-> Cells(i * Entry, node.cells.address),
   size |-> Cells(i * Entry + node.cells.address, node.cells.size)]
Entries == value.len \div Entry
Regions(max) == [i \in 1 .. Least(Entries, max) |-> Region(i - 1)]

Hit(g, property) == pc = "hit" /\ goal = g /\ want = property

ReserveChild ==
  /\ Hit("children", Reg)
  /\ \/ Entries > 0 /\ Reserve(Region(0).base, Region(0).size)
     \/ Entries = 0 /\ UNCHANGED mapVars
  /\ PassNode
  /\ UNCHANGED <<blob, onPath, deviceVars, inside>>

AdoptMemory ==
  /\ Hit("memory", Reg)
  /\ memory' = IF Entries > 0 /\ Region(0).size # 0
               THEN [base |-> Region(0).base, size |-> Region(0).size, banks |-> Entries] ELSE memory
  /\ Ask("pl011")
  /\ UNCHANGED <<blob, reserved, dropped, deviceVars, inside>>

(* string_list_contains *)
Listed == \E i \in 0 .. value.len - 1 : Cell(i) = Models[goal]

NotListed ==
  /\ pc = "hit" /\ want = Compatible /\ ~Listed
  /\ PassNode
  /\ UNCHANGED <<blob, onPath, mapVars, deviceVars, inside>>

Panic ==
  /\ pc' = "panic"
  /\ UNCHANGED <<goal, walkerVars, foundVars, searchVars, scanVars>>

(* discover_devices asserts that the node has the windows it needs. *)
FoundDevice ==
  /\ pc = "hit" /\ want = Compatible /\ Listed /\ goal # "virtio"
  /\ \/ CellsHeld /\ Scan(Reg) /\ UNCHANGED <<goal, onPath, after>>
     \/ ~CellsHeld /\ Panic /\ UNCHANGED inside
  /\ UNCHANGED <<blob, mapVars, deviceVars>>

Needed == [g \in {"pl011", "gic"} |-> IF g = "gic" THEN 2 ELSE 1]

AdoptDevice ==
  /\ pc = "hit" /\ want = Reg /\ goal \in {"pl011", "gic"}
  /\ LET found == Regions(MAX_WINDOWS)
     IN IF Len(found) < Needed[goal] \/ (goal = "gic" /\ found[1].base = found[2].base)
        THEN Panic /\ UNCHANGED windows
        ELSE windows' = [windows EXCEPT ![goal] = SubSeq(found, 1, Needed[goal])] /\ Ask(Following[goal])
  /\ UNCHANGED <<blob, mapVars, window, probed, slots, inside>>

-----------------------------------------------------------------------------
(* virtio: discover, and the part of probe that reads the tree.  What the    *)
(* device's registers then answer is left out: probed holds the transports  *)
(* whose registers are read.                                                *)
NextSlot(seen) ==
  IF seen = MAX_TRANSPORTS
  THEN pc' = "done" /\ UNCHANGED <<goal, walkerVars, foundVars, parent, onPath, scanVars>>
  ELSE Walk("virtio") /\ UNCHANGED <<foundVars, parent, onPath, scanVars>>

FoundSlot ==
  /\ Hit("virtio", Compatible) /\ Listed
  /\ after' = node.offset /\ slots' = slots + 1
  /\ \/ CellsHeld /\ Scan(Reg) /\ UNCHANGED <<goal, onPath>>
     \/ ~CellsHeld /\ NextSlot(slots + 1) /\ UNCHANGED inside
  /\ UNCHANGED <<blob, mapVars, windows, window, probed>>

SlotWindow ==
  /\ Hit("virtio", Reg)
  /\ \/ Entries > 0 /\ window' = Region(0) /\ Scan(Interrupts) /\ UNCHANGED <<goal, onPath>>
     \/ Entries = 0 /\ NextSlot(slots) /\ UNCHANGED <<window, inside>>
  /\ UNCHANGED <<blob, after, mapVars, windows, probed, slots>>

(* Shared interrupts are numbered from 32 at the controller, private ones   *)
(* from 16; the sum panics when it overflows.                               *)
IntidBase == [kind \in {0, 1} |-> IF kind = 0 THEN 32 ELSE 16]

SlotInterrupt ==
  /\ Hit("virtio", Interrupts)
  /\ IF value.len < 2 \/ Cell(0) \notin {0, 1}
     THEN NextSlot(slots) /\ UNCHANGED <<after, probed>>
     ELSE IF Cell(1) + IntidBase[Cell(0)] >= LIMIT THEN Panic /\ UNCHANGED probed
     ELSE /\ probed' = Append(probed, [window |-> window, intid |-> Cell(1) + IntidBase[Cell(0)]])
          /\ NextSlot(slots) /\ UNCHANGED after
  /\ UNCHANGED <<blob, mapVars, windows, window, slots, inside>>

-----------------------------------------------------------------------------
Finished == pc \in {"done", "refused", "panic"}

Next ==
  \/ Accept \/ Refuse \/ ReserveEntry \/ RsvmapDone
  \/ WalkNop \/ WalkBegin \/ WalkEndNode \/ WalkProp \/ WalkStop
  \/ LookForPath \/ FoundReserved \/ FoundMemory \/ LookForChild \/ LookForModel
  \/ ScanNop \/ ScanProp \/ ScanMiss
  \/ ReserveChild \/ AdoptMemory \/ NotListed \/ FoundDevice \/ AdoptDevice
  \/ FoundSlot \/ SlotWindow \/ SlotInterrupt
  \/ Finished /\ UNCHANGED vars

Spec == Init /\ [][Next]_vars

(* The reader is straight-line code with loops: it keeps running. *)
FairSpec == Spec /\ WF_vars(Next)

-----------------------------------------------------------------------------
(***************************************************************************)
(* Properties                                                              *)
(***************************************************************************)
(* Whatever the blob holds, no read leaves it, the walker's arrays are never *)
(* indexed past their end, and the sums it does not check (offset + 12) fit  *)
(* in 32 bits: u32_at, bytes_at, str_at and the depth check of Walker::next  *)
(* (fdt.rs).                                                                *)
StaysInside ==
  /\ inside
  /\ offset + 3 < LIMIT
  /\ depth < MAX_DEPTH
  /\ node.depth < MAX_DEPTH

FirstOf(seq, n) == SubSeq(seq, 1, Least(Len(seq), n))

(* The memory map (fdt.rs, memory_map) is the one the tree was written from: *)
(* the first bank of /memory, read with its parent's cells, and the blob,   *)
(* the reservation block and the children of /reserved-memory in order,     *)
(* those past MAX_RESERVATIONS counted.                                     *)
MapIsWhatTheTreeSays ==
  pc = "done" /\ blob.intact =>
    LET all == <<[base |-> blob.pa, size |-> blob.total]>> \o blob.says.reserved
    IN /\ memory = blob.says.memory
       /\ reserved = FirstOf(all, MAX_RESERVATIONS)
       /\ dropped = Len(all) - Len(reserved)

(* The windows the console and the interrupt controller move to              *)
(* (main.rs, discover_devices), and each virtio transport once, in order     *)
(* and with its interrupt (virtio.rs, discover), are those of the tree; and  *)
(* a tree that is in order is neither refused nor a reason to panic.         *)
DevicesAreWhatTheTreeSays ==
  Finished /\ blob.intact =>
    /\ pc = "done"
    /\ windows = blob.says.windows
    /\ LET good == SelectSeq(FirstOf(blob.says.slots, MAX_TRANSPORTS), LAMBDA slot : slot.good)
       IN probed = [i \in DOMAIN good |-> [window |-> good[i].window, intid |-> good[i].intid]]

(* No blob, however damaged, keeps the boot path in one of its loops over    *)
(* the tree (Walker::next, Properties::next, discover).                     *)
ReaderFinishes == <>Finished
=============================================================================
