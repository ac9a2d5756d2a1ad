----------------------------- MODULE MCDeviceTree -----------------------------
(***************************************************************************)
(* Trees for DeviceTree: a writer that flattens a tree into words, what the *)
(* tree says, and the blobs of one run: well-formed trees of every order of *)
(* their nodes, one of them damaged at every word, and damaged headers.     *)
(***************************************************************************)
EXTENDS DeviceTree, SequencesExt

MCLIMIT == 1024
MCText == 500 .. 700
MCOpen == {600}

(* Names as words; the last one is a name of two words. *)
bus == <<501>>
memoryName == <<502>>
memoryAt == <<503>>
device == <<504>>
reservedName == <<600, 505>>
pl011 == 520
gicModel == 521
virtioModel == 522
other == 523

MCReg == <<530>>
MCCompatible == <<531>>
MCInterrupts == <<532>>
MCAddressCells == <<533>>
MCSizeCells == <<534>>
Strings == <<530, 531, 532, 533, 534>>

MCComponents == [g \in {"reserved-memory", "memory"} |->
  IF g = "memory" THEN {memoryName, memoryAt} ELSE {reservedName}]
MCModels == [g \in {"pl011", "gic", "virtio"} |->
  CASE g = "pl011" -> pl011 [] g = "gic" -> gicModel [] g = "virtio" -> virtioModel]

-----------------------------------------------------------------------------
(* A node before it is written: cells is what it declares, <<>> if nothing. *)
Node(n, declared, regs, models, interrupts, kids) ==
  [name |-> n, cells |-> declared, regs |-> regs, models |-> models,
   interrupts |-> interrupts, kids |-> kids]

R(b, s) == [base |-> b, size |-> s]

Property(p, words) ==
  <<FDT_PROP, Len(words), (CHOOSE i \in 1 .. 5 : <<Strings[i]>> = p) - 1>> \o words

Number(v, count) == CASE count = 0 -> <<>> [] count = 1 -> <<v>> [] OTHER -> <<v \div LIMIT, v % LIMIT>>

RegWords(regs, c) ==
  FlattenSeq([i \in DOMAIN regs |-> Number(regs[i].base, c.address) \o Number(regs[i].size, c.size)])

Declared(n) == IF n.cells = <<>> THEN Default ELSE [address |-> n.cells[1], size |-> n.cells[2]]

RECURSIVE Flat(_, _)
Flat(n, c) ==
  <<FDT_BEGIN_NODE>> \o n.name
  \o (IF n.models = <<>> THEN <<FDT_NOP>> ELSE Property(Compatible, n.models))
  \o (IF n.cells = <<>> THEN <<>> ELSE Property(AddressCells, <<n.cells[1]>>) \o Property(SizeCells, <<n.cells[2]>>))
  \o (IF n.regs = <<>> THEN <<>> ELSE Property(Reg, RegWords(n.regs, c)))
  \o (IF n.interrupts = <<>> THEN <<>> ELSE <<FDT_NOP>> \o Property(Interrupts, n.interrupts))
  \o FlattenSeq([i \in DOMAIN n.kids |-> Flat(n.kids[i], Declared(n))])
  \o <<FDT_END_NODE>>

RECURSIVE Preorder(_)
Preorder(n) == <<n>> \o FlattenSeq([i \in DOMAIN n.kids |-> Preorder(n.kids[i])])

HasModel(n, model) == \E i \in DOMAIN n.models : n.models[i] = model
WithModel(root, model) == SelectSeq(Preorder(root), LAMBDA n : HasModel(n, model))

FirstRegs(nodes, count) == IF nodes = <<>> THEN <<>> ELSE SubSeq(nodes[1].regs, 1, count)

(* What a tree says, read off the tree itself *)
Says(root, rsvmap) ==
  LET memories == SelectSeq(root.kids, LAMBDA n : n.name \in MCComponents["memory"])
      parents == SelectSeq(root.kids, LAMBDA n : n.name = reservedName)
      children == IF parents = <<>> THEN <<>>
                  ELSE SelectSeq(parents[1].kids, LAMBDA n : n.regs # <<>> /\ n.regs[1].size # 0)
      virtios == WithModel(root, virtioModel)
  IN [memory |-> IF memories = <<>> THEN [base |-> 0, size |-> 0, banks |-> 0]
                 ELSE [base |-> memories[1].regs[1].base, size |-> memories[1].regs[1].size,
                       banks |-> Len(memories[1].regs)],
      reserved |-> rsvmap \o [i \in DOMAIN children |-> children[i].regs[1]],
      windows |-> [g \in {"pl011", "gic"} |->
                     IF g = "pl011" THEN FirstRegs(WithModel(root, pl011), 1)
                     ELSE FirstRegs(WithModel(root, gicModel), 2)],
      slots |-> [i \in DOMAIN virtios |->
                   LET n == virtios[i]
                   IN [good |-> n.regs # <<>> /\ n.interrupts # <<>> /\ n.interrupts[1] \in {0, 1},
                       window |-> IF n.regs = <<>> THEN R(0, 0) ELSE n.regs[1],
                       intid |-> IF n.interrupts = <<>> THEN 0
                                 ELSE n.interrupts[2] + (IF n.interrupts[1] = 0 THEN 32 ELSE 16)]]]

Blob(root, rsvmap) ==
  LET pairs == FlattenSeq([i \in DOMAIN rsvmap |-> Number(rsvmap[i].base, 2) \o Number(rsvmap[i].size, 2)])
               \o <<0, 0, 0, 0>>
      structure == Flat(root, Default) \o <<FDT_END>>
      words == [i \in 1 .. HEADER_SIZE |-> 0] \o pairs \o structure \o Strings
  IN [total |-> Len(words), struct |-> HEADER_SIZE + Len(pairs), structSize |-> Len(structure),
      strings |-> HEADER_SIZE + Len(pairs) + Len(structure), stringsSize |-> Len(Strings),
      rsvmap |-> HEADER_SIZE, version |-> 17, compat |-> 16, aligned |-> TRUE, magic |-> TRUE,
      pa |-> RamStart + 8, word |-> [i \in 0 .. Len(words) - 1 |-> words[i + 1]],
      says |-> Says(root, rsvmap), intact |-> TRUE]

-----------------------------------------------------------------------------
(* The nodes under the root.  A bus has cells of its own and a node that is  *)
(* called memory; the reserved regions have the default cells, one of them   *)
(* is empty and one has a region below it.                                  *)
Virtio(b, interrupts) == Node(device, <<>>, <<R(b, 8)>>, <<other, virtioModel>>, interrupts, <<>>)
Bus == Node(bus, <<1, 2>>, <<>>, <<>>, <<>>,
            <<Node(memoryName, <<>>, <<R(70, 7)>>, <<>>, <<>>, <<>>), Virtio(80, <<0, 5, 1>>)>>)
ReservedMemory ==
  Node(reservedName, <<>>, <<>>, <<>>, <<>>,
       <<Node(device, <<1, 0>>, <<R(300, 4)>>, <<>>, <<>>, <<Node(bus, <<>>, <<R(310, 0)>>, <<>>, <<>>, <<>>)>>),
         Node(device, <<>>, <<R(320, 0)>>, <<>>, <<>>, <<>>),
         Node(device, <<>>, <<R(330, 6)>>, <<>>, <<>>, <<>>)>>)
MemoryNode == Node(memoryAt, <<>>, <<R(40, 90), R(200, 50)>>, <<>>, <<>>, <<>>)
Devices == <<Node(device, <<>>, <<R(9, 1)>>, <<pl011, other>>, <<>>, <<>>),
             Node(device, <<>>, <<R(6, 1), R(7, 1)>>, <<gicModel>>, <<>>, <<>>)>>
Transports == <<Virtio(81, <<1, 3, 1>>), Virtio(82, <<2, 3, 1>>), Virtio(83, <<0, 6, 1>>)>>

Root(declared, kids) == Node(<<0>>, declared, <<>>, <<>>, <<>>, kids)

Groups == <<<<Bus>>, <<ReservedMemory>>, <<MemoryNode>>, Devices, Transports>>
Orders == {p \in [1 .. 5 -> 1 .. 5] : \A i, j \in 1 .. 5 : i # j => p[i] # p[j]}
InOrder(p) == FlattenSeq([i \in 1 .. 5 |-> Groups[p[i]]])

WellFormed ==
  {Blob(Root(c, InOrder(p)), <<R(2 * LIMIT + 3, 5)>>) :
     c \in {<<>>, <<1, 1>>, <<2, 2>>}, p \in {q \in Orders : q[1] < 4}}
  \cup {Blob(Root(<<1, 1>>, kids), <<>>) : kids \in {<<>>, <<Bus>>, Transports \o <<ReservedMemory>>}}

Small ==
  Blob(Root(<<1, 1>>, <<Node(reservedName, <<>>, <<>>, <<>>, <<>>, <<Node(device, <<>>, <<R(330, 6)>>, <<>>, <<>>, <<>>)>>),
                        Node(memoryAt, <<>>, <<R(40, 90)>>, <<>>, <<>>, <<>>),
                        Node(device, <<>>, <<R(6, 1), R(7, 1)>>, <<pl011, gicModel>>, <<>>, <<>>),
                        Virtio(81, <<1, 3, 1>>)>>),
       <<R(2, 5)>>)

(* Deeper than the walker goes: it gives up, and so does what comes after. *)
RECURSIVE Nest(_)
Nest(n) == Node(bus, <<>>, <<>>, <<>>, <<>>, IF n = 0 THEN <<>> ELSE <<Nest(n - 1)>>)
Deep == [Blob(Root(<<1, 1>>, <<Nest(4), MemoryNode>>), <<>>) EXCEPT !.intact = FALSE]

Damaged(b, i, v) == [b EXCEPT !.word[i] = v, !.intact = FALSE]
DamagedWords ==
  {Damaged(Small, i, v) : i \in HEADER_SIZE .. Small.total - 1, v \in {0, 1, 2, 3, 4, 9, 600, LIMIT - 1}}
DamagedHeaders ==
  LET lost == [Small EXCEPT !.intact = FALSE]
  IN {[lost EXCEPT !.total = v] : v \in {HEADER_SIZE - 1, MAX_BLOB + 1, MAX_BLOB, Small.total - 1}}
     \cup {[lost EXCEPT !.struct = v] : v \in {0, Small.struct + 1, LIMIT - 1}}
     \cup {[lost EXCEPT !.structSize = v] : v \in {0, 20, Small.structSize - 2, LIMIT - Small.struct}}
     \cup {[lost EXCEPT !.strings = v] : v \in {0, LIMIT - 2}}
     \cup {[lost EXCEPT !.stringsSize = v] : v \in {0, 2, LIMIT - 1}}
     \cup {[lost EXCEPT !.rsvmap = v] : v \in {0, Small.total - 2, Small.total}}
     \cup {[lost EXCEPT !.pa = v] : v \in {0, RamStart - 1, RamEnd - HEADER_SIZE, RamEnd - HEADER_SIZE + 1}}
     \cup {[lost EXCEPT !.version = 15], [lost EXCEPT !.compat = 18], [lost EXCEPT !.magic = FALSE],
           [lost EXCEPT !.aligned = FALSE]}

MCBlobs == WellFormed \cup DamagedWords \cup DamagedHeaders \cup {Deep}
=============================================================================
