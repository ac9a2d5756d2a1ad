------------------------------- MODULE Virtqueue -------------------------------
(***************************************************************************)
(* The split virtqueue (kernel/src/virtqueue.rs): a descriptor table whose  *)
(* free entries are a list threaded through `next`, an available ring the   *)
(* driver fills and a used ring the device fills, both positioned by free   *)
(* running indices that wrap.  The device is external: it takes requests in *)
(* order, finishes them in any order, and runs between any two driver steps *)
(* the fences separate.                                                     *)
(***************************************************************************)
EXTENDS Integers, FiniteSets

CONSTANTS
  QUEUE_SIZE,  \* descriptors in the table, entries in each ring
  INDICES,     \* 2^16: the values of a ring index
  MaxChain     \* the longest chain the modelled drivers queue

ASSUME QueueAssumption ==
  /\ QUEUE_SIZE \in Nat \ {0} /\ INDICES \in Nat /\ MaxChain \in Nat
  /\ INDICES > QUEUE_SIZE /\ INDICES % QUEUE_SIZE = 0

Descriptors == 0 .. QUEUE_SIZE - 1
Nil == QUEUE_SIZE        \* what `next` of the last free descriptor says

VARIABLES
  next,        \* [Descriptors -> 0..QUEUE_SIZE]: the next field
  chained,     \* [Descriptors -> BOOLEAN]: the DESC_NEXT flag
  freeHead, freeCount,   \* Queue::free_head, Queue::free_count
  availRing, availIndex, \* the available ring and its published index
  usedRing, usedIndex,   \* the used ring and its published index
  lastUsed,    \* Queue::last_used
  adding,      \* add has written its ring entry and not yet the index
  live,        \* QUEUE_READY
  deviceIndex, \* external: how far the device has read the available ring
  inFlight,    \* external: the requests the device is working on
  finishing,   \* external: the device has written a used entry, not the index
  requests     \* history: what add queued and take_used has not returned

driverVars == <<next, chained, freeHead, freeCount, lastUsed, requests>>
availVars == <<availRing, availIndex, adding>>
deviceVars == <<usedRing, usedIndex, deviceIndex, inFlight, finishing>>
queueVars == <<driverVars, availVars, deviceVars, live>>

Succ(index) == (index + 1) % INDICES
Position(index) == index % QUEUE_SIZE
(* Where k steps along the free list from head, or along its chain, arrive *)
ListFrom(head) ==
  LET at[k \in 0 .. QUEUE_SIZE] ==
        IF k = 0 THEN head
        ELSE IF at[k - 1] \in Descriptors THEN next[at[k - 1]] ELSE Nil
  IN  at
ChainFrom(head) ==
  LET at[k \in 0 .. QUEUE_SIZE] ==
        IF k = 0 THEN head
        ELSE IF at[k - 1] \in Descriptors /\ chained[at[k - 1]] THEN next[at[k - 1]] ELSE Nil
  IN  at
ChainLength(head) == Cardinality({k \in 0 .. QUEUE_SIZE : ChainFrom(head)[k] # Nil})
ChainSet(head) == {ChainFrom(head)[k] : k \in 0 .. ChainLength(head) - 1}

(* A request is the head add returned and the descriptors of its chain. *)
Request(head, descriptors) == [head |-> head, descriptors |-> descriptors]
Outstanding == {r.head : r \in requests}

-----------------------------------------------------------------------------
(* Nothing is queued and the device has nothing: before new, and after a reset *)
EmptyRing == [i \in Descriptors |-> 0]

QueueInit ==
  /\ next = [d \in Descriptors |-> d + 1]
  /\ chained = [d \in Descriptors |-> FALSE]
  /\ freeHead = 0 /\ freeCount = QUEUE_SIZE
  /\ availRing = EmptyRing /\ availIndex = 0
  /\ usedRing = EmptyRing /\ usedIndex = 0
  /\ lastUsed = 0 /\ adding = FALSE /\ live = FALSE
  /\ deviceIndex = 0 /\ inFlight = {} /\ finishing = FALSE
  /\ requests = {}

(***************************************************************************)
(* new: the table threaded into one free list, both rings empty in a zeroed *)
(* frame, and the queue marked ready.  What the device remembers of its own *)
(* is not touched: only a reset does that.                                  *)
(***************************************************************************)
New ==
  /\ next' = [d \in Descriptors |-> d + 1]
  /\ chained' = [d \in Descriptors |-> FALSE]
  /\ freeHead' = 0 /\ freeCount' = QUEUE_SIZE
  /\ availRing' = EmptyRing /\ availIndex' = 0
  /\ usedRing' = EmptyRing /\ usedIndex' = 0
  /\ lastUsed' = 0 /\ adding' = FALSE /\ live' = TRUE
  /\ requests' = {}
  /\ UNCHANGED <<deviceIndex, inFlight, finishing>>

(* Variant: the last descriptor of the chain keeps its NEXT flag. *)
AddChainsAll(n) ==
  LET list == ListFrom(freeHead)
      used == {list[k] : k \in 0 .. n - 1}
      last == list[n - 1]
  IN  /\ live /\ ~adding
      /\ n <= freeCount
      /\ chained' = [d \in Descriptors |-> IF d \in used THEN TRUE ELSE chained[d]]
      /\ freeHead' = next[last]
      /\ freeCount' = freeCount - n
      /\ availRing' = [availRing EXCEPT ![Position(availIndex)] = freeHead]
      /\ adding' = TRUE
      /\ requests' = requests \cup {Request(freeHead, used)}
      /\ UNCHANGED <<next, availIndex, lastUsed, deviceVars, live>>

(***************************************************************************)
(* add, for a chain of n buffers that fits: the first n free descriptors    *)
(* become the chain in the order they are in, what followed them becomes    *)
(* the free list, and the head goes into the available ring.                *)
(***************************************************************************)
Add(n) ==
  LET list == ListFrom(freeHead)
      used == {list[k] : k \in 0 .. n - 1}
      last == list[n - 1]
  IN  /\ live /\ ~adding
      /\ n <= freeCount
      /\ chained' = [d \in Descriptors |-> IF d \in used THEN d # last ELSE chained[d]]
      /\ freeHead' = next[last]
      /\ freeCount' = freeCount - n
      /\ availRing' = [availRing EXCEPT ![Position(availIndex)] = freeHead]
      /\ adding' = TRUE
      /\ requests' = requests \cup {Request(freeHead, used)}
      /\ UNCHANGED <<next, availIndex, lastUsed, deviceVars, live>>

(* The index that publishes the entry, after the fence *)
Publish ==
  /\ live /\ adding
  /\ availIndex' = Succ(availIndex)
  /\ adding' = FALSE
  /\ UNCHANGED <<driverVars, availRing, deviceVars, live>>

(* Variant: indices are compared by ring position, so a full ring looks empty. *)
UsedPositionMoved == Position(lastUsed) # Position(usedIndex)

UsedReady == lastUsed # usedIndex

(* Variant: the chain is put back as if it were one descriptor. *)
RecycleHeadOnly(head) ==
  /\ next' = [next EXCEPT ![head] = freeHead]
  /\ freeHead' = head
  /\ freeCount' = freeCount + 1

(* recycle: the whole chain goes to the front of the free list. *)
Recycle(head) ==
  LET last == ChainFrom(head)[ChainLength(head) - 1]
  IN  /\ next' = [next EXCEPT ![last] = freeHead]
      /\ freeHead' = head
      /\ freeCount' = freeCount + ChainLength(head)

(* Variant: the entry is read one place behind. *)
UsedHeadBehind == usedRing[Position(lastUsed + QUEUE_SIZE - 1)]

UsedHead == usedRing[Position(lastUsed)]

(* take_used, when the device's index has moved past last_used *)
TakeUsed ==
  /\ live /\ ~adding
  /\ UsedReady
  /\ lastUsed' = Succ(lastUsed)
  /\ Recycle(UsedHead)
  /\ requests' = {r \in requests : r.head # UsedHead}
  /\ UNCHANGED <<chained, availVars, deviceVars, live>>

(* release: the device is told to stop and the frame is given back. *)
Release ==
  /\ live /\ ~adding
  /\ live' = FALSE
  /\ UNCHANGED <<driverVars, availVars, deviceVars>>

-----------------------------------------------------------------------------
(* The device *)
DeviceTake ==
  LET head == availRing[Position(deviceIndex)]
  IN  /\ live /\ deviceIndex # availIndex
      /\ deviceIndex' = Succ(deviceIndex)
      /\ inFlight' = inFlight \cup {Request(head, ChainSet(head))}
      /\ UNCHANGED <<driverVars, availVars, usedRing, usedIndex, finishing, live>>

DeviceFinish(r) ==
  /\ live /\ ~finishing /\ r \in inFlight
  /\ usedRing' = [usedRing EXCEPT ![Position(usedIndex)] = r.head]
  /\ inFlight' = inFlight \ {r}
  /\ finishing' = TRUE
  /\ UNCHANGED <<driverVars, availVars, usedIndex, deviceIndex, live>>

DevicePublish ==
  /\ live /\ finishing
  /\ usedIndex' = Succ(usedIndex)
  /\ finishing' = FALSE
  /\ UNCHANGED <<driverVars, availVars, usedRing, deviceIndex, inFlight, live>>

(* A reset: the queue is gone and so is everything the device remembered. *)
DeviceForgets ==
  /\ live' = FALSE
  /\ deviceIndex' = 0 /\ inFlight' = {} /\ finishing' = FALSE
  /\ UNCHANGED <<driverVars, availVars, usedRing, usedIndex>>

-----------------------------------------------------------------------------
(***************************************************************************)
(* The first free_count entries of the free list and the chains still out   *)
(* are all the descriptors, each in exactly one place: none is lost, queued *)
(* twice, or counted wrongly, in whatever order requests come back.         *)
(***************************************************************************)
DescriptorsPartitioned ==
  LET freed == {ListFrom(freeHead)[k] : k \in 0 .. freeCount - 1}
      chains == {r.descriptors : r \in requests}
  IN  /\ Cardinality(freed) = freeCount
      /\ \A r, s \in requests : r # s => r.descriptors \cap s.descriptors = {}
      /\ freed \cap UNION chains = {}
      /\ freed \cup UNION chains = Descriptors

(***************************************************************************)
(* What the device has been given is a request add queued and is still      *)
(* whole: neither later requests nor recycling rewrite a chain under it.    *)
(***************************************************************************)
DeviceSeesTheRequest ==
  /\ inFlight \subseteq requests
  /\ \A r \in requests : ChainSet(r.head) = r.descriptors

(***************************************************************************)
(* take_used returns requests that are out, one each: every advance of      *)
(* last_used completes exactly one of them, which the device had finished.  *)
(***************************************************************************)
EachFinishesOnce ==
  [][live /\ live' /\ lastUsed' # lastUsed =>
       \E r \in requests \ inFlight : requests' = requests \ {r}]_queueVars

=============================================================================
