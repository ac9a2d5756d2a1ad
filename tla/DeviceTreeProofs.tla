---------------------------- MODULE DeviceTreeProofs ----------------------------
(***************************************************************************)
(* The reader of the device tree stays inside the blob and inside its own   *)
(* arrays, for every blob there is.                                         *)
(***************************************************************************)
EXTENDS DeviceTree, WellFoundedInduction, TLAPS

(***************************************************************************)
(* The inductive invariant: once the header is accepted its blocks lie in   *)
(* the blob, and positions are naturals, wherever the words have led them.  *)
(***************************************************************************)
ReaderInv ==
  /\ blob \in Blobs
  /\ pc \notin {"probe", "refused"} => HeaderAccepted
  /\ inside = TRUE
  /\ offset \in Nat /\ offset <= MAX_BLOB /\ cursor \in Nat
  /\ depth \in 0 .. MAX_DEPTH - 1
  /\ node.offset \in Nat /\ node.depth \in 1 .. MAX_DEPTH - 1 \cup {0}

(* A nonempty set of offsets has a first one. *)
LEMMA FirstOffset ==
  ASSUME NEW T \in SUBSET Nat, T # {}
  PROVE  \E e \in T : \A d \in T : e <= d
<1> DEFINE Before == OpToRel(<, Nat)
<1>1. IsWellFoundedOn(Before, Nat)
  BY NatLessThanWellFounded
<1>2. PICK e \in T : \A d \in T : ~ (<<d, e>> \in Before)
  <2> HIDE DEF Before
  <2> QED BY <1>1, WFMin
<1>3. ASSUME NEW d \in T PROVE e <= d
  <2>1. <<d, e>> \notin {p \in Nat \X Nat : p[1] < p[2]}
    BY <1>2 DEF OpToRel
  <2> QED BY <2>1
<1> QED BY <1>3

(* The header's numbers and the words are below 2^32. *)
LEMMA BlobNumbers ==
  ASSUME blob \in Blobs
  PROVE  /\ blob.total \in Nat /\ blob.struct \in Nat /\ blob.structSize \in Nat
         /\ blob.strings \in Nat /\ blob.stringsSize \in Nat /\ blob.rsvmap \in Nat
         /\ LIMIT \in Nat /\ LIMIT > 16 /\ \A o : Word(o) \in Nat
         /\ MAX_BLOB \in Nat /\ MAX_BLOB + 3 < LIMIT
<1>1. {blob.total, blob.struct, blob.structSize, blob.strings, blob.stringsSize, blob.rsvmap} \subseteq Nat
  BY BlobsAssumption, LimitAssumption
<1>2. ASSUME NEW o PROVE Word(o) \in Nat
  <2>1. CASE o \in DOMAIN blob.word
    BY <2>1, BlobsAssumption, LimitAssumption DEF Word
  <2>2. CASE o \notin DOMAIN blob.word
    BY <2>2 DEF Word
  <2> QED BY <2>1, <2>2
<1>3. LIMIT \in Nat /\ LIMIT > 16 /\ MAX_BLOB \in Nat /\ MAX_BLOB + 3 < LIMIT
  BY LimitAssumption
<1> QED BY <1>1, <1>2, <1>3

(* A string that is found ends before its limit, which is in the blob. *)
LEMMA StrEndInside ==
  ASSUME blob \in Blobs, NEW o \in Nat, NEW limit \in Nat, HasStr(o, limit)
  PROVE  StrEnd(o, limit) \in Nat /\ StrEnd(o, limit) >= o /\ StrEnd(o, limit) < blob.total
<1> DEFINE T == StrEnds(o, limit)
<1>1. StrLimit(limit) \in Nat /\ StrLimit(limit) <= blob.total
  BY BlobNumbers DEF StrLimit, Least
<1>2. T \in SUBSET Nat /\ T # {} /\ \A e \in T : e >= o /\ e < StrLimit(limit)
  BY <1>1 DEF StrEnds, HasStr
<1>3. \E e \in T : \A d \in T : e <= d
  <2> HIDE DEF T
  <2> QED BY <1>2, FirstOffset
<1>4. StrEnd(o, limit) \in T
  BY <1>3 DEF StrEnd
<1> QED BY <1>1, <1>2, <1>4, BlobNumbers

(* str_at reads no further than its limit and the blob. *)
LEMMA StrReadsInside ==
  ASSUME blob \in Blobs, NEW o \in Nat, NEW limit \in Nat
  PROVE  \A e \in StrReads(o, limit) : e <= blob.total
<1>1. StrLimit(limit) <= blob.total
  BY BlobNumbers DEF StrLimit, Least
<1>2. CASE HasStr(o, limit)
  BY <1>2, StrEndInside, BlobNumbers DEF StrReads
<1>3. CASE ~HasStr(o, limit)
  BY <1>1, <1>3 DEF StrReads
<1> QED BY <1>2, <1>3

(* Neither does the reading of a property, whatever its length and name say. *)
LEMMA PropReadsInside ==
  ASSUME blob \in Blobs, NEW o \in Nat, Fits(o, 1)
  PROVE  \A e \in PropReads(o) : e <= blob.total
<1> USE BlobNumbers
<1>1. o + 1 <= blob.total
  BY DEF Fits
<1>2. Fits(o + 1, 1) => o + 2 <= blob.total
  BY DEF Fits
<1>3. Fits(o + 2, 1) => o + 3 <= blob.total
  BY DEF Fits
<1>4. Fits(o + 3, Word(o + 1)) => PropEnd(o) <= blob.total
  BY DEF Fits, PropEnd
<1>5. NameAt(o + 2) \in Nat /\ StringsEnd \in Nat
  BY DEF NameAt, StringsEnd
<1>6. \A e \in StrReads(NameAt(o + 2), StringsEnd) : e <= blob.total
  BY <1>5, StrReadsInside
<1> QED BY <1>1, <1>2, <1>3, <1>4, <1>6 DEF PropReads

(* A property that fits ends in the blob. *)
LEMMA PropEndInside ==
  ASSUME blob \in Blobs, NEW o \in Nat, PropFits(o)
  PROVE  PropEnd(o) \in Nat /\ PropEnd(o) <= blob.total
BY BlobNumbers DEF PropEnd, PropFits, Fits

(* Reads of words in the blob keep the record of them good. *)
LEMMA ReadsKeep ==
  ASSUME ReaderInv, NEW ends, \A e \in ends : e <= blob.total, Reads(ends)
  PROVE  inside' = TRUE
BY DEF ReaderInv, Reads

(* The parts the steps share *)
LEMMA WalkKeeps ==
  ASSUME ReaderInv, NEW g, Walk(g), HeaderAccepted, blob' = blob, inside' = TRUE,
         UNCHANGED <<node, cursor>>
  PROVE  ReaderInv'
BY BlobNumbers, DepthAssumption DEF ReaderInv, Walk, HeaderAccepted, EndsInside

(* The next question is put to the tree. *)
LEMMA AskKeeps ==
  ASSUME ReaderInv, NEW g, Ask(g), HeaderAccepted, blob' = blob, inside' = TRUE
  PROVE  ReaderInv'
BY WalkKeeps DEF Ask, foundVars, scanVars

(* A search for a property starts behind the name of the node. *)
LEMMA ScanKeeps ==
  ASSUME ReaderInv, NEW p, Scan(p), HeaderAccepted, blob' = blob
  PROVE  ReaderInv'
<1>1. blob \in Blobs /\ node.offset + 1 \in Nat /\ blob.total \in Nat
  BY BlobNumbers DEF ReaderInv
<1>2. \A e \in StrReads(node.offset + 1, blob.total) : e <= blob.total
  BY <1>1, StrReadsInside
<1>3. inside' = TRUE
  BY <1>2, ReadsKeep DEF Scan
<1>4. cursor' \in Nat
  BY <1>1, StrEndInside, BlobNumbers DEF Scan
<1> QED BY <1>3, <1>4 DEF ReaderInv, Scan, walkerVars, foundVars, HeaderAccepted, EndsInside

(* The caller passes over a node. *)
LEMMA PassKeeps ==
  ASSUME ReaderInv, PassNode, HeaderAccepted, blob' = blob, inside' = inside
  PROVE  ReaderInv'
BY DEF ReaderInv, PassNode, walkerVars, foundVars, scanVars, HeaderAccepted, EndsInside

(* The caller gives up with a panic. *)
LEMMA PanicKeeps ==
  ASSUME ReaderInv, Panic, HeaderAccepted, blob' = blob, inside' = inside
  PROVE  ReaderInv'
BY DEF ReaderInv, Panic, walkerVars, foundVars, scanVars, HeaderAccepted, EndsInside

(* discover goes on to the next transport slot. *)
LEMMA NextSlotKeeps ==
  ASSUME ReaderInv, NEW seen, NextSlot(seen), HeaderAccepted, blob' = blob, inside' = inside
  PROVE  ReaderInv'
<1>1. CASE seen = MAX_TRANSPORTS
  BY <1>1 DEF NextSlot, ReaderInv, walkerVars, foundVars, scanVars, HeaderAccepted, EndsInside
<1>2. CASE seen # MAX_TRANSPORTS
  BY <1>2, WalkKeeps DEF NextSlot, foundVars, scanVars, ReaderInv
<1> QED BY <1>1, <1>2

(* init and the reservation block *)
LEMMA HeaderStep ==
  ASSUME ReaderInv, Accept \/ Refuse \/ ReserveEntry \/ RsvmapDone
  PROVE  ReaderInv'
<1> USE BlobNumbers DEF ReaderInv
<1>1. CASE Accept
  <2>1. HEADER_SIZE <= blob.total
    BY <1>1 DEF Accept, HeaderAccepted
  <2>2. inside' = TRUE
    BY <1>1, <2>1 DEF Accept, Reads
  <2> QED BY <1>1, <2>2 DEF Accept, HeaderAccepted, EndsInside, foundVars, scanVars
<1>2. CASE Refuse
  BY <1>2 DEF Refuse, walkerVars, foundVars, scanVars
<1>3. RsvReads \subseteq Nat /\ \A e \in RsvReads : e <= blob.total
  BY DEF RsvReads, Fits
<1>4. CASE ReserveEntry
  <2>1. inside' = TRUE
    BY <1>3, <1>4 DEF ReserveEntry, Reads
  <2>2. offset' \in Nat /\ offset' <= MAX_BLOB
    BY <1>4 DEF ReserveEntry, RsvEntry, Fits, HeaderAccepted
  <2> QED BY <1>4, <2>1, <2>2 DEF ReserveEntry, HeaderAccepted, EndsInside, foundVars, scanVars
<1>5. CASE RsvmapDone
  BY <1>3, <1>5, AskKeeps, ReadsKeep DEF RsvmapDone
<1> QED BY <1>1, <1>2, <1>4, <1>5

(* Walker::next *)
LEMMA WalkStepKeeps ==
  ASSUME ReaderInv, WalkNop \/ WalkBegin \/ WalkEndNode \/ WalkProp \/ WalkStop
  PROVE  ReaderInv'
<1> USE BlobNumbers, DepthAssumption DEF ReaderInv
<1>1. blob \in Blobs /\ offset \in Nat /\ StructEnd \in Nat /\ HeaderAccepted
  BY DEF StructEnd, Least, WalkNop, WalkBegin, WalkEndNode, WalkProp, WalkStop, Walking
<1>2. AtToken => offset + 1 <= blob.total
  BY DEF AtToken, Fits
<1>3. \A e \in StrReads(offset + 1, StructEnd) : e <= blob.total
  BY <1>1, StrReadsInside
<1>4. AtToken => \A e \in PropReads(offset) : e <= blob.total
  BY <1>1, PropReadsInside DEF AtToken
<1>5. CASE WalkNop
  <2>1. inside' = TRUE
    BY <1>2, <1>5 DEF WalkNop, Walking, Reads
  <2>2. offset' \in Nat /\ offset' <= MAX_BLOB
    BY <1>1, <1>2, <1>5 DEF WalkNop, Walking, HeaderAccepted
  <2> QED BY <1>1, <1>5, <2>1, <2>2 DEF WalkNop, HeaderAccepted, EndsInside, foundVars, scanVars
<1>6. CASE WalkBegin
  <2>1. inside' = TRUE
    BY <1>2, <1>3, <1>6 DEF WalkBegin, Walking, Reads
  <2>2. offset' \in Nat /\ offset' <= blob.total /\ blob.total <= MAX_BLOB
    BY <1>1, <1>6, StrEndInside DEF WalkBegin, Begins, HeaderAccepted
  <2>3. depth' \in 1 .. MAX_DEPTH - 1
    BY <1>6 DEF WalkBegin, Begins, RoomBelow
  <2>4. node'.offset = offset /\ node'.depth = depth'
    BY <1>6 DEF WalkBegin
  <2> QED BY <1>1, <1>6, <2>1, <2>2, <2>3, <2>4 DEF WalkBegin, HeaderAccepted, EndsInside, scanVars
<1>7. CASE WalkEndNode
  <2>1. inside' = TRUE
    BY <1>2, <1>7 DEF WalkEndNode, Walking, Reads
  <2>2. offset' \in Nat /\ offset' <= MAX_BLOB
    BY <1>1, <1>2, <1>7 DEF WalkEndNode, Walking, HeaderAccepted
  <2> QED BY <1>1, <1>7, <2>1, <2>2 DEF WalkEndNode, HeaderAccepted, EndsInside, foundVars, scanVars
<1>8. CASE WalkProp
  <2>1. inside' = TRUE
    BY <1>4, <1>8 DEF WalkProp, Walking, Reads
  <2>2. offset' \in Nat /\ offset' <= MAX_BLOB
    BY <1>1, <1>8, PropEndInside DEF WalkProp, HeaderAccepted
  <2> QED BY <1>1, <1>8, <2>1, <2>2 DEF WalkProp, HeaderAccepted, EndsInside, foundVars, scanVars
<1>9. CASE WalkStop
  <2>1. \A e \in StopReads : e <= blob.total
    BY <1>2, <1>3, <1>4 DEF StopReads
  <2>2. inside' = TRUE
    BY <1>9, <2>1 DEF WalkStop, Reads
  <2>3. CASE goal # "virtio"
    BY <1>1, <1>9, <2>2, <2>3, AskKeeps DEF WalkStop
  <2>4. CASE goal = "virtio"
    BY <1>1, <1>9, <2>2, <2>4
       DEF WalkStop, HeaderAccepted, EndsInside, walkerVars, foundVars, scanVars
  <2> QED BY <2>3, <2>4
<1> QED BY <1>5, <1>6, <1>7, <1>8, <1>9

(* The callers, at a node *)
LEMMA NodeStepKeeps ==
  ASSUME ReaderInv, LookForPath \/ FoundReserved \/ FoundMemory \/ LookForChild \/ LookForModel
  PROVE  ReaderInv'
<1>1. HeaderAccepted /\ inside = TRUE
  BY DEF ReaderInv, LookForPath, FoundReserved, FoundMemory, LookForChild, LookForModel, NodeAt
<1>2. CASE LookForPath
  BY <1>1, <1>2, PassKeeps DEF LookForPath
<1>3. CASE FoundReserved
  BY <1>1, <1>3, WalkKeeps DEF FoundReserved, foundVars, scanVars
<1>4. CASE FoundMemory
  BY <1>1, <1>4, ScanKeeps, AskKeeps DEF FoundMemory
<1>5. CASE LookForChild
  BY <1>1, <1>5, ScanKeeps, AskKeeps, PassKeeps DEF LookForChild
<1>6. CASE LookForModel
  BY <1>1, <1>6, ScanKeeps, PassKeeps DEF LookForModel
<1> QED BY <1>2, <1>3, <1>4, <1>5, <1>6

(* Properties::next *)
LEMMA ScanStepKeeps ==
  ASSUME ReaderInv, ScanNop \/ ScanProp \/ ScanMiss
  PROVE  ReaderInv'
<1> USE BlobNumbers DEF ReaderInv
<1>1. blob \in Blobs /\ cursor \in Nat /\ HeaderAccepted
  BY DEF ScanNop, ScanProp, ScanMiss, Scanning
<1>2. Fits(cursor, 1) => cursor + 1 <= blob.total /\ \A e \in PropReads(cursor) : e <= blob.total
  BY <1>1, PropReadsInside DEF Fits
<1>3. CASE ScanNop
  <2>1. inside' = TRUE
    BY <1>2, <1>3 DEF ScanNop, Scanning, Reads
  <2> QED BY <1>1, <1>3, <2>1 DEF ScanNop, HeaderAccepted, EndsInside, walkerVars, foundVars
<1>4. CASE ScanProp
  <2>1. inside' = TRUE /\ cursor' \in Nat
    BY <1>1, <1>2, <1>4, PropEndInside DEF ScanProp, Scanning, Reads
  <2> QED BY <1>1, <1>4, <2>1 DEF ScanProp, HeaderAccepted, EndsInside, walkerVars, foundVars
<1>5. CASE ScanMiss
  <2>1. inside' = TRUE
    BY <1>1, <1>2, <1>5 DEF ScanMiss, Reads
  <2> QED BY <1>1, <1>5, <2>1 DEF ScanMiss, HeaderAccepted, EndsInside, walkerVars, foundVars
<1> QED BY <1>3, <1>4, <1>5

(* The callers, with a property's value *)
LEMMA HitStepKeeps ==
  ASSUME ReaderInv,
         ReserveChild \/ AdoptMemory \/ NotListed \/ FoundDevice \/ AdoptDevice
           \/ FoundSlot \/ SlotWindow \/ SlotInterrupt
  PROVE  ReaderInv'
<1>1. HeaderAccepted /\ inside = TRUE
  BY DEF ReaderInv, ReserveChild, AdoptMemory, NotListed, FoundDevice, AdoptDevice, FoundSlot,
         SlotWindow, SlotInterrupt, Hit
<1>2. CASE ReserveChild
  BY <1>1, <1>2, PassKeeps DEF ReserveChild
<1>3. CASE AdoptMemory
  BY <1>1, <1>3, AskKeeps DEF AdoptMemory
<1>4. CASE NotListed
  BY <1>1, <1>4, PassKeeps DEF NotListed
<1>5. CASE FoundDevice
  BY <1>1, <1>5, ScanKeeps, PanicKeeps DEF FoundDevice
<1>6. CASE AdoptDevice
  <2>1. Panic \/ Ask(Following[goal])
    BY <1>6 DEF AdoptDevice
  <2> QED BY <1>1, <1>6, <2>1, PanicKeeps, AskKeeps DEF AdoptDevice
<1>7. CASE FoundSlot
  BY <1>1, <1>7, ScanKeeps, NextSlotKeeps DEF FoundSlot
<1>8. CASE SlotWindow
  BY <1>1, <1>8, ScanKeeps, NextSlotKeeps DEF SlotWindow
<1>9. CASE SlotInterrupt
  <2>1. Panic \/ NextSlot(slots)
    BY <1>9 DEF SlotInterrupt
  <2> QED BY <1>1, <1>9, <2>1, PanicKeeps, NextSlotKeeps DEF SlotInterrupt
<1> QED BY <1>2, <1>3, <1>4, <1>5, <1>6, <1>7, <1>8, <1>9

(* So the invariant holds in every reachable state of the reader. *)
LEMMA ReaderInvariant == Spec => []ReaderInv
<1>1. Init => ReaderInv
  BY DepthAssumption, LimitAssumption DEF Init, ReaderInv
<1>2. ReaderInv /\ [Next]_vars => ReaderInv'
  <2> SUFFICES ASSUME ReaderInv, [Next]_vars PROVE ReaderInv'
    OBVIOUS
  <2>1. CASE UNCHANGED vars
    BY <2>1 DEF vars, walkerVars, foundVars, scanVars, ReaderInv, HeaderAccepted, EndsInside
  <2> QED BY <2>1, HeaderStep, WalkStepKeeps, NodeStepKeeps, ScanStepKeeps, HitStepKeeps DEF Next
<1> QED BY <1>1, <1>2, PTL DEF Spec

(***************************************************************************)
(* For every blob whose fields are 32-bit numbers, for every size limit and *)
(* depth: no read of u32_at, bytes_at or str_at leaves the blob, and        *)
(* neither the walker's cells nor find_node's path is indexed past its end  *)
(* (fdt.rs).                                                                *)
(***************************************************************************)
THEOREM ReaderStaysInside == Spec => []StaysInside
<1>1. ReaderInv => StaysInside
  BY DepthAssumption, BlobNumbers DEF ReaderInv, StaysInside
<1> QED BY <1>1, ReaderInvariant, PTL

=============================================================================
