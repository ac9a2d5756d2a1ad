----------------------------- MODULE KernelProofs -----------------------------
(***************************************************************************)
(* Proofs about Kernel for every number of slots, priority and bit.         *)
(* First what every kernel keeps, whatever it spawns, restarts and posts:   *)
(* its types, and Settled, which no missed notification and clean fresh     *)
(* instances follow from.  Then, for the kernels of UserKernel, that IInv   *)
(* is inductive, which the wakeup and buffer invariants follow from; last   *)
(* what no step may do, and that message passing implements Rendezvous.     *)
(***************************************************************************)
EXTENDS KernelInvariant, WellFoundedInduction, TLAPS

(* A nonempty set of naturals has a least element. *)
LEMMA SmallestOf ==
  ASSUME NEW T \in SUBSET Nat, T # {}
  PROVE  \E n \in T : \A m \in T : n <= m
<1> DEFINE R == OpToRel(<, Nat)
<1>1. IsWellFoundedOn(R, Nat)
  BY NatLessThanWellFounded
<1>2. PICK x \in T : \A y \in T : ~ (<<y, x>> \in R)
  <2> HIDE DEF R
  <2> QED BY <1>1, WFMin
<1>3. ASSUME NEW y \in T PROVE x <= y
  <2>1. <<y, x>> \notin {ss \in Nat \X Nat : ss[1] < ss[2]}
    BY <1>2 DEF OpToRel
  <2> QED BY <2>1
<1> QED BY <1>3

(* The slot numbers: task 0 is a slot, NoTask is not. *)
LEMMA SlotFacts ==
  /\ KernelThread \in Slots /\ NoTask \notin Slots /\ Slots \subseteq Nat
  /\ MAX_TASKS \in Nat
BY SchedulerAssumption DEF Slots, KernelThread, NoTask

(* The cyclic scan of next_runnable meets every slot after a natural number of steps. *)
LEMMA ScanDistanceType ==
  ASSUME NEW cur \in Slots, NEW s \in Slots
  PROVE  ScanDistance(cur, s) \in Nat
BY SchedulerAssumption DEF ScanDistance, Slots

PriorityType == priority \in [Slots -> Nat]

(* next_runnable finds a runnable task whenever there is one, and no better one is. *)
LEMMA NextRunnableFound ==
  ASSUME PriorityType, NEW st, NEW cur \in Slots,
         NEW r \in Slots, st[r] = "Runnable"
  PROVE  /\ NextRunnable(st, cur) \in Slots /\ st[NextRunnable(st, cur)] = "Runnable"
         /\ \A u \in Slots : st[u] = "Runnable" => ~Outranks(u, NextRunnable(st, cur))
<1> DEFINE R == {s \in Slots : st[s] = "Runnable"}
           P == {priority[s] : s \in R}
<1>1. P \in SUBSET Nat /\ P # {}
  BY DEF PriorityType
<1>2. PICK p \in P : \A q \in P : p <= q
  BY <1>1, SmallestOf
<1> DEFINE B == {s \in R : priority[s] = p}
           D == {ScanDistance(cur, s) : s \in B}
<1>3. D \in SUBSET Nat /\ D # {}
  BY <1>2, ScanDistanceType
<1>4. PICK d \in D : \A e \in D : d <= e
  <2> HIDE DEF D
  <2> QED BY <1>3, SmallestOf
<1>5. PICK s \in B : ScanDistance(cur, s) = d
  BY <1>4
<1>6. ASSUME NEW u \in Slots, st[u] = "Runnable"
      PROVE  \/ Outranks(s, u)
             \/ priority[s] = priority[u] /\ ScanDistance(cur, s) <= ScanDistance(cur, u)
  <2>1. CASE priority[u] = p
    <3>1. ScanDistance(cur, u) \in D
      BY <1>6, <2>1
    <3> QED BY <3>1, <2>1, <1>4, <1>5
  <2>2. CASE priority[u] # p
    <3>1. p <= priority[u] /\ p \in Nat /\ priority[u] \in Nat
      BY <1>2, <1>1, <1>6
    <3>2. priority[s] = p
      BY <1>5
    <3> QED BY <3>1, <3>2, <2>2 DEF Outranks
  <2> QED BY <2>1, <2>2
<1> QED
  <2>1. s \in Slots /\ st[s] = "Runnable"
    BY <1>5
  <2> HIDE DEF R, P, B, D
  <2> DEFINE n == NextRunnable(st, cur)
  <2>2. /\ n \in Slots /\ st[n] = "Runnable"
        /\ \A u \in Slots : st[u] = "Runnable" => Outranks(n, u) \/ priority[n] = priority[u]
    BY <2>1, <1>6 DEF NextRunnable
  <2> HIDE DEF n
  <2>3. \A u \in Slots : st[u] = "Runnable" => ~Outranks(u, n)
    BY <2>2 DEF Outranks, PriorityType
  <2> QED BY <2>2, <2>3 DEF n

(* free_slot finds an empty slot whenever there is one. *)
LEMMA FreeSlotFound ==
  ASSUME FreeSlots # {}
  PROVE  FreeSlot \in Slots /\ state[FreeSlot] = "None"
<1>1. FreeSlots \in SUBSET Nat
  BY SlotFacts DEF FreeSlots
<1>2. \E s \in FreeSlots : \A u \in FreeSlots : s <= u
  BY <1>1, SmallestOf
<1>3. FreeSlot \in FreeSlots
  BY <1>2 DEF FreeSlot
<1> QED BY <1>3 DEF FreeSlots

(* best_sender finds a queued sender whenever there is one. *)
LEMMA BestSenderFound ==
  ASSUME PriorityType, NEW u \in Slots, QueuedFor(u) # {}
  PROVE  BestSender(u) \in QueuedFor(u)
<1> DEFINE Q == QueuedFor(u)
           P == {priority[s] : s \in Q}
<1>0. Q \subseteq Slots /\ Q # {}
  BY DEF QueuedFor
<1> HIDE DEF Q
<1>1. P \in SUBSET Nat /\ P # {}
  BY <1>0 DEF PriorityType
<1>2. PICK p \in P : \A q \in P : p <= q
  BY <1>1, SmallestOf
<1> DEFINE B == {s \in Q : priority[s] = p}
<1>3. B \in SUBSET Nat /\ B # {}
  BY <1>2, <1>0, SlotFacts
<1>4. PICK s \in B : \A v \in B : s <= v
  <2> HIDE DEF B
  <2> QED BY <1>3, SmallestOf
<1>5. ASSUME NEW v \in Q
      PROVE  Outranks(s, v) \/ (priority[s] = priority[v] /\ s <= v)
  <2>1. CASE priority[v] = p
    BY <2>1, <1>4
  <2>2. CASE priority[v] # p
    <3>1. p <= priority[v] /\ p \in Nat /\ priority[v] \in Nat
      BY <1>2, <1>1
    <3> QED BY <3>1, <2>2, <1>4 DEF Outranks
  <2> QED BY <2>1, <2>2
<1>6. s \in Q
  BY <1>4
<1> HIDE DEF P, B
<1> QED BY <1>5, <1>6 DEF BestSender, Q

(* on_irq finds the route of a routed line. *)
LEMMA RouteFound ==
  ASSUME routes \in Seq(Routes), NEW i, Routed(i) # {}
  PROVE  RouteOf(i) \in Routes
<1>1. Routed(i) \in SUBSET Nat
  BY DEF Routed
<1>2. \E k \in Routed(i) : \A j \in Routed(i) : k <= j
  BY <1>1, SmallestOf
<1>3. PICK k \in Routed(i) : RouteOf(i) = routes[k]
  BY <1>2 DEF RouteOf
<1>4. k \in DOMAIN routes
  BY <1>3 DEF Routed
<1> HIDE DEF Routes
<1> QED BY <1>3, <1>4

(* post called by the boot thread, one section after another *)
PostStep == BootPost \/ BootPostLook \/ BootPostWake \/ BootPostAsk

-----------------------------------------------------------------------------
(* TypeInv is inductive for every choice of the constants. *)
StateType(st) == st \in [Slots -> States] /\ st[KernelThread] = "Runnable"

(* Type correctness gives every task a numeric priority to compare. *)
LEMMA TypeFacts ==
  ASSUME TypeOK
  PROVE  PriorityType
<1>1. Priorities \cup {IDLE} \subseteq Nat
  BY SchedulerAssumption
<1> QED BY <1>1 DEF TypeOK, PriorityType

(* What switch_to_next does, whatever table it is called with *)
LEMMA SwitchEffect ==
  ASSUME PriorityType, current \in Slots, space \in [Slots -> BOOLEAN],
         NEW st, StateType(st), SwitchToNext(st)
  PROVE  /\ StateType(state') /\ space' \in [Slots -> BOOLEAN]
         /\ current' \in Slots /\ state'[current'] = "Runnable"
         /\ \A s \in Slots : st[s] # "Zombie" =>
              state'[s] = st[s] /\ space'[s] = space[s]
         /\ \A s \in Slots : st[s] = "Zombie" => state'[s] \in {"Zombie", "Dead"}
<1>1. state' = [s \in Slots |-> IF s \in Reapable(st, current) THEN "Dead" ELSE st[s]]
  BY DEF SwitchToNext, Reaped
<1>2. \A s \in Reapable(st, current) : st[s] = "Zombie"
  BY DEF Reapable
<1>3. StateType(state')
  BY <1>1, <1>2, SlotFacts DEF StateType, States
<1>4. current' = NextRunnable(state', current)
  BY DEF SwitchToNext
<1>5. current' \in Slots /\ state'[current'] = "Runnable"
  BY <1>3, <1>4, NextRunnableFound, SlotFacts DEF StateType
<1>6. space' = [s \in Slots |-> space[s] /\ s \notin Reapable(st, current)]
  BY DEF SwitchToNext, SpaceAfterReap
<1>7. space' \in [Slots -> BOOLEAN]
  BY <1>6, Zenon
<1>8. ASSUME NEW s \in Slots, st[s] # "Zombie"
      PROVE  state'[s] = st[s] /\ space'[s] = space[s]
  <2>1. s \notin Reapable(st, current)
    BY <1>2, <1>8
  <2>2. state'[s] = st[s]
    BY <1>1, <2>1
  <2>3. space'[s] = space[s]
    <3>1. space'[s] = (space[s] /\ s \notin Reapable(st, current))
      BY <1>6, Zenon
    <3>2. CASE space[s] = TRUE
      BY <3>1, <3>2, <2>1, Zenon
    <3>3. CASE space[s] = FALSE
      BY <3>1, <3>3, Zenon
    <3> QED BY <3>2, <3>3
  <2> QED BY <2>2, <2>3
<1>9. ASSUME NEW s \in Slots, st[s] = "Zombie"
      PROVE  state'[s] \in {"Zombie", "Dead"}
  BY <1>1, <1>9
<1> QED BY <1>3, <1>5, <1>7, <1>8, <1>9

(* unblock_deferred turns blocked tasks runnable and touches nothing else. *)
LEMMA WokenEffect ==
  ASSUME NEW st, StateType(st), NEW S
  PROVE  /\ StateType(Woken(st, S))
         /\ \A s \in Slots : Woken(st, S)[s] =
              IF s \in S /\ st[s] = "Blocked" THEN "Runnable" ELSE st[s]
BY SlotFacts DEF StateType, Woken, States

(* mark_current_blocked changes the state of the marked task only. *)
LEMMA MarkedEffect ==
  ASSUME NEW st, StateType(st), NEW t \in Slots, t # KernelThread
  PROVE  /\ StateType(Marked(st, t))
         /\ \A s \in Slots : Marked(st, t)[s] = IF s = t THEN "Blocked" ELSE st[s]
BY SlotFacts DEF StateType, Marked, States

(* post wakes its task or leaves the table alone. *)
LEMMA PostEffect ==
  ASSUME StateType(state), NEW u \in Slots, NEW bits
  PROVE  /\ StateType(StateAfterPost(u, bits))
         /\ \A s \in Slots : state[s] # "Blocked" => StateAfterPost(u, bits)[s] = state[s]
BY WokenEffect DEF StateAfterPost

(* The parts of TypeInv that switch_to_next can disturb, and the rest *)
SchedTyped ==
  /\ StateType(state) /\ space \in [Slots -> BOOLEAN] /\ ~space[KernelThread]
  /\ current \in Slots /\ CurrentMayRun
RestTyped ==
  /\ priority \in [Slots -> Priorities \cup {IDLE}]
  /\ image \in [Slots -> BOOLEAN] /\ needResched \in BOOLEAN
  /\ pc \in [Slots -> Points] /\ pc[KernelThread] \in {"run", "image"} \cup Posting
  /\ pc[KernelThread] = "image" => spawned \in Slots
  /\ owed \in [Slots -> SUBSET Bits]
  /\ spawned \in Slots \cup {NoTask} /\ spawns \in Nat /\ faults \in Nat
NotifyTyped ==
  /\ routes \in Seq(Routes)
  /\ posted \in [Slots -> SUBSET Bits] /\ wanted \in [Slots -> SUBSET Bits]
IpcTyped ==
  /\ pending \in [Slots -> Pendings] /\ outcome \in [Slots -> Outcomes]
  /\ leaseCount \in [Slots -> 0 .. MaxLeases]
SuperTyped ==
  /\ supervisor \in Slots \cup {NoTask} /\ faultWaiters \in [Slots -> BOOLEAN]
  /\ cursor \in 0 .. 2 * MAX_TASKS

AllTyped == SchedTyped /\ RestTyped /\ NotifyTyped /\ IpcTyped /\ SuperTyped

(* The type invariant, split into the parts the components change. *)
LEMMA TypeInvParts == (TypeInv <=> AllTyped) /\ (TypeInv' <=> AllTyped')
BY DEF AllTyped, TypeInv, TypeOK, BootThreadStays, SchedTyped, RestTyped, NotifyTyped,
       IpcTyped, SuperTyped, StateType

(* Giving the CPU away, or keeping it, leaves a well-formed task table. *)
LEMMA SwitchTyped ==
  ASSUME SchedTyped, PriorityType, NEW st, StateType(st), SwitchToNext(st)
  PROVE  SchedTyped'
<1>1. /\ StateType(state') /\ space' \in [Slots -> BOOLEAN]
      /\ current' \in Slots /\ state'[current'] = "Runnable"
      /\ \A s \in Slots : st[s] # "Zombie" => space'[s] = space[s]
  BY SwitchEffect DEF SchedTyped
<1>2. ~space'[KernelThread]
  BY <1>1, SlotFacts DEF SchedTyped, StateType
<1> QED BY <1>1, <1>2 DEF SchedTyped, StateType, CurrentMayRun

(* Keeping the CPU leaves a well-formed task table. *)
LEMMA StayTyped ==
  ASSUME SchedTyped, NEW st, StateType(st), StayOn(st), st[current] = "Runnable"
  PROVE  SchedTyped'
BY DEF SchedTyped, StateType, CurrentMayRun, StayOn

(* unblock, which does one or the other, leaves a well-formed task table. *)
LEMMA WakeTyped ==
  ASSUME SchedTyped, PriorityType, NEW st, StateType(st), st[current] = "Runnable",
         NEW t, NEW w, WakeAndYield(st, t, w)
  PROVE  SchedTyped'
<1>1. StateType(Woken(st, {w})) /\ Woken(st, {w})[current] = "Runnable"
  BY WokenEffect DEF SchedTyped
<1>2. CASE SwitchToNext(Woken(st, {w}))
  BY <1>1, <1>2, SwitchTyped
<1>3. CASE StayOn(Woken(st, {w}))
  BY <1>1, <1>3, StayTyped
<1> QED BY <1>2, <1>3 DEF WakeAndYield

(* The task on the CPU at EL0 is a slot other than the boot thread's. *)
LEMMA InUserFacts ==
  ASSUME SchedTyped, NEW t, InUser(t)
  PROVE  t \in Slots \ {KernelThread} /\ current = t /\ state[t] = "Runnable" /\ pc[t] = "run"
BY DEF SchedTyped, CurrentMayRun, InUser, Running

(* Moving the resumption point of a task other than the boot thread *)
LEMMA GoToTyped ==
  ASSUME RestTyped, NEW t \in Slots \ {KernelThread}, NEW p \in Points, GoTo(t, p),
         UNCHANGED <<priority, image, needResched, owed, spawned, spawns, faults>>
  PROVE  RestTyped'
BY SlotFacts DEF RestTyped, GoTo

(* Every entry the IPC code writes is a Pending or an Outcome. *)
LEMMA PendingTypes ==
  /\ NoPending \in Pendings /\ RecvWait \in Pendings
  /\ \A u \in Slots : SendWait(u) \in Pendings /\ ReplyWait(u) \in Pendings
  /\ Zero \in Outcomes
  /\ \A u \in Slots : {Message(u), Answer(u), Dead(u)} \subseteq Outcomes
BY DEF Pendings, NoPending, RecvWait, SendWait, ReplyWait, Outcomes, Zero, Message, Answer, Dead

(* deliver_outcome keeps the IPC table well formed. *)
LEMMA DeliverTyped ==
  ASSUME IpcTyped, NEW s \in Slots, NEW out \in Outcomes, DeliverOutcome(s, out)
  PROVE  IpcTyped'
BY PendingTypes, IpcAssumption DEF IpcTyped, DeliverOutcome

(* abandon keeps the IPC table well formed. *)
LEMMA AbandonTyped ==
  ASSUME IpcTyped, NEW gone \in Slots, Abandon(gone)
  PROVE  IpcTyped'
<1> DEFINE W == WaitingOn(gone)
<1>1. W \subseteq Slots
  BY DEF WaitingOn
<1> HIDE DEF W
<1>2. /\ outcome' = [s \in Slots |-> IF s \in W THEN Dead(gone) ELSE outcome[s]]
      /\ pending' = [s \in Slots |-> IF s \in W \cup {gone} THEN NoPending ELSE pending[s]]
      /\ leaseCount' = [s \in Slots |-> IF s \in W \cup {gone} THEN 0 ELSE leaseCount[s]]
  BY DEF Abandon, W
<1> QED BY <1>2, PendingTypes, IpcAssumption DEF IpcTyped

(* A step that leaves a component alone keeps that component well formed. *)
LEMMA RestKept ==
  ASSUME RestTyped, UNCHANGED <<priority, image, needResched, pc, owed, spawned, spawns, faults>>
  PROVE  RestTyped'
BY DEF RestTyped

(* The same for the notification tables *)
LEMMA NotifyKept == ASSUME NotifyTyped, UNCHANGED notifyVars PROVE NotifyTyped'
BY DEF NotifyTyped, notifyVars

(* The same for the IPC table *)
LEMMA IpcKept == ASSUME IpcTyped, UNCHANGED ipcVars PROVE IpcTyped'
BY DEF IpcTyped, ipcVars

(* The same for the supervisor's tables *)
LEMMA SuperKept == ASSUME SuperTyped, UNCHANGED superVars PROVE SuperTyped'
BY DEF SuperTyped, superVars

(* One turn of the loop in recv *)
LEMMA RecvTurnTyped ==
  ASSUME SchedTyped, RestTyped, NotifyTyped, IpcTyped, PriorityType,
         NEW t \in Slots \ {KernelThread}, state[t] = "Runnable", current = t,
         NEW mask \in SUBSET Bits, NEW own \in Pendings, RecvTurn(t, mask, own),
         UNCHANGED bootVars
  PROVE  SchedTyped' /\ RestTyped' /\ NotifyTyped' /\ IpcTyped'
<1>0. UNCHANGED <<priority, image, needResched, routes, outcome, leaseCount>>
  BY DEF RecvTurn
<1>1. CASE CollectNotification(t, mask, own)
  <2>1. SchedTyped'
    BY <1>1, StayTyped DEF SchedTyped, CollectNotification
  <2>2. RestTyped'
    BY <1>0, <1>1, GoToTyped DEF CollectNotification, bootVars, Points
  <2>3. NotifyTyped'
    BY <1>0, <1>1 DEF NotifyTyped, CollectNotification
  <2>4. IpcTyped'
    BY <1>0, <1>1, PendingTypes DEF IpcTyped, CollectNotification
  <2> QED BY <2>1, <2>2, <2>3, <2>4
<1>2. CASE CollectMessage(t, mask, own)
  <2>1. SchedTyped'
    BY <1>2, StayTyped DEF SchedTyped, CollectMessage
  <2>2. RestTyped'
    BY <1>0, <1>2, GoToTyped DEF CollectMessage, bootVars, Points
  <2>3. NotifyTyped'
    BY <1>0, <1>2 DEF NotifyTyped, CollectMessage
  <2>4. IpcTyped'
    BY <1>0, <1>2, PendingTypes DEF IpcTyped, CollectMessage
  <2> QED BY <2>1, <2>2, <2>3, <2>4
<1>3. CASE ParkInRecv(t, mask)
  <2>0. StateType(Marked(state, t))
    BY MarkedEffect DEF SchedTyped
  <2>1. SchedTyped'
    BY <1>3, <2>0, SwitchTyped DEF ParkInRecv
  <2>2. RestTyped'
    BY <1>0, <1>3, GoToTyped DEF ParkInRecv, bootVars, Points
  <2>3. NotifyTyped'
    BY <1>0, <1>3 DEF NotifyTyped, ParkInRecv
  <2>4. IpcTyped'
    BY <1>0, <1>3, PendingTypes DEF IpcTyped, ParkInRecv
  <2> QED BY <2>1, <2>2, <2>3, <2>4
<1> QED BY <1>1, <1>2, <1>3 DEF RecvTurn

(* A well-formed kernel gives every task a numeric priority. *)
LEMMA AllTypedPriority == ASSUME AllTyped PROVE PriorityType
BY TypeInvParts, TypeFacts DEF TypeInv

(* send, recv and reply *)
LEMMA SyscallTyped ==
  ASSUME AllTyped, NEW t \in Slots, Syscall(t)
  PROVE  AllTyped'
<1>0. PriorityType /\ SuperTyped' /\ UNCHANGED bootVars
  BY AllTypedPriority, SuperKept DEF AllTyped, Syscall
<1>1. ASSUME NEW u \in Slots, NEW n \in 0 .. MaxLeases, SendToReceiver(t, u, n)
      PROVE  AllTyped'
  <2>1. t \in Slots \ {KernelThread}
    BY <1>1, InUserFacts DEF AllTyped, SendToReceiver
  <2>2. StateType(Woken(Marked(state, t), {u}))
    BY <2>1, MarkedEffect, WokenEffect DEF AllTyped, SchedTyped
  <2>3. SchedTyped'
    BY <1>0, <1>1, <2>2, SwitchTyped DEF AllTyped, SendToReceiver
  <2>4. PICK p \in {"sendWake", "sendPark"} : GoTo(t, p)
    BY <1>1 DEF SendToReceiver
  <2>5. RestTyped'
    BY <1>0, <1>1, <2>1, <2>4, GoToTyped DEF AllTyped, SendToReceiver, bootVars, Points
  <2>6. IpcTyped'
    BY <1>1, PendingTypes DEF AllTyped, IpcTyped, SendToReceiver
  <2> QED BY <1>0, <1>1, <2>3, <2>5, <2>6, NotifyKept DEF AllTyped, SendToReceiver
<1>2. ASSUME NEW u \in Slots, NEW n \in 0 .. MaxLeases, SendAndQueue(t, u, n)
      PROVE  AllTyped'
  <2>1. t \in Slots \ {KernelThread}
    BY <1>2, InUserFacts DEF AllTyped, SendAndQueue
  <2>2. StateType(Marked(state, t))
    BY <2>1, MarkedEffect DEF AllTyped, SchedTyped
  <2>3. SchedTyped'
    BY <1>0, <1>2, <2>2, SwitchTyped DEF AllTyped, SendAndQueue
  <2>5. RestTyped'
    BY <1>0, <1>2, <2>1, GoToTyped DEF AllTyped, SendAndQueue, bootVars, Points
  <2>6. IpcTyped'
    BY <1>2, PendingTypes DEF AllTyped, IpcTyped, SendAndQueue
  <2> QED BY <1>0, <1>2, <2>3, <2>5, <2>6, NotifyKept DEF AllTyped, SendAndQueue
<1>3. ASSUME NEW mask \in SUBSET Bits, Recv(t, mask)
      PROVE  AllTyped'
  <2>1. t \in Slots \ {KernelThread} /\ state[t] = "Runnable" /\ current = t
    BY <1>3, InUserFacts DEF AllTyped, Recv
  <2>2. pending[t] \in Pendings
    BY DEF AllTyped, IpcTyped
  <2> QED BY <1>0, <1>3, <2>1, <2>2, RecvTurnTyped DEF AllTyped, Recv
<1>4. ASSUME NEW s \in Slots, Reply(t, s)
      PROVE  AllTyped'
  <2>1. state[current] = "Runnable"
    BY <1>4, InUserFacts DEF AllTyped, Reply
  <2>2. SchedTyped'
    BY <1>0, <1>4, <2>1, WakeTyped DEF AllTyped, SchedTyped, Reply
  <2>3. IpcTyped'
    BY <1>4, DeliverTyped, PendingTypes DEF AllTyped, Reply
  <2>4. RestTyped'
    BY <1>0, <1>4, RestKept DEF AllTyped, Reply, bootVars
  <2> QED BY <1>0, <1>4, <2>2, <2>3, <2>4, NotifyKept DEF AllTyped, Reply
<1> QED BY <1>1, <1>2, <1>3, <1>4 DEF Syscall

(* What a task does when it is resumed inside the kernel *)
LEMMA ResumeTyped ==
  ASSUME AllTyped, NEW t \in Slots, Resume(t)
  PROVE  AllTyped'
<1>0. PriorityType
  BY AllTypedPriority
<1>1. /\ t \in Slots \ {KernelThread} /\ current = t /\ state[t] = "Runnable"
      /\ UNCHANGED bootVars
  BY DEF AllTyped, SchedTyped, RestTyped, CurrentMayRun, Resume, Start, SendWoke,
         SendReturn, RecvReturn, RecvAgain, FaultWoke, BlockReturn, Posting
<1>2. CASE Start(t) /\ UNCHANGED <<notifyVars, ipcVars, superVars, bootVars>>
  <2>1. SchedTyped'
    BY <1>1, <1>2, StayTyped DEF AllTyped, SchedTyped, Start, StayOn
  <2>2. RestTyped'
    BY <1>1, <1>2, GoToTyped DEF AllTyped, Start, bootVars, Points
  <2> QED BY <1>2, <2>1, <2>2, NotifyKept, IpcKept, SuperKept DEF AllTyped
<1>3. CASE SendWoke(t) /\ UNCHANGED <<superVars, bootVars>>
  <2>1. SchedTyped'
    BY <1>0, <1>1, <1>3, SwitchTyped, StayTyped DEF AllTyped, SchedTyped, SendWoke
  <2>2. PICK p \in {"sendPark", "run"} : GoTo(t, p)
    BY <1>3 DEF SendWoke, TakeOutcome
  <2>3. RestTyped'
    BY <1>1, <1>3, <2>2, GoToTyped DEF AllTyped, SendWoke, bootVars, Points
  <2>4. IpcTyped'
    BY <1>3, PendingTypes DEF AllTyped, IpcTyped, SendWoke, TakeOutcome
  <2> QED BY <1>3, <2>1, <2>3, <2>4, NotifyKept, SuperKept DEF AllTyped, SendWoke
<1>4. CASE SendReturn(t) /\ UNCHANGED <<superVars, bootVars>>
  <2>1. SchedTyped'
    BY <1>1, <1>4, StayTyped DEF AllTyped, SchedTyped, SendReturn, StayOn
  <2>2. RestTyped'
    BY <1>1, <1>4, GoToTyped DEF AllTyped, SendReturn, TakeOutcome, bootVars, Points
  <2>3. IpcTyped'
    BY <1>4, PendingTypes DEF AllTyped, IpcTyped, SendReturn, TakeOutcome
  <2> QED BY <1>4, <2>1, <2>2, <2>3, NotifyKept, SuperKept DEF AllTyped, SendReturn
<1>5. CASE RecvReturn(t) /\ UNCHANGED <<superVars, bootVars>>
  <2>1. SchedTyped'
    BY <1>1, <1>5, StayTyped DEF AllTyped, SchedTyped, RecvReturn, StayOn
  <2>2. RestTyped'
    BY <1>1, <1>5, GoToTyped DEF AllTyped, RecvReturn, TakeOutcome, bootVars, Points
  <2>3. IpcTyped'
    BY <1>5, PendingTypes DEF AllTyped, IpcTyped, RecvReturn, TakeOutcome
  <2>4. NotifyTyped'
    BY <1>5 DEF AllTyped, NotifyTyped, RecvReturn
  <2> QED BY <1>5, <2>1, <2>2, <2>3, <2>4, SuperKept DEF AllTyped
<1>6. CASE RecvAgain(t) /\ UNCHANGED <<superVars, bootVars>>
  <2>1. wanted[t] \in SUBSET Bits
    BY DEF AllTyped, NotifyTyped
  <2> QED BY <1>0, <1>1, <1>6, <2>1, RecvTurnTyped, PendingTypes, SuperKept DEF AllTyped, RecvAgain
<1>7. CASE FaultWoke(t) /\ UNCHANGED bootVars
  <2>1. StateType(Marked(state, t))
    BY <1>1, MarkedEffect DEF AllTyped, SchedTyped
  <2>2. SchedTyped'
    BY <1>0, <1>1, <1>7, <2>1, SwitchTyped, StayTyped
       DEF AllTyped, SchedTyped, FaultWoke, ParkForFault
  <2>3. PICK p \in {"faultPark", "run"} : GoTo(t, p)
    BY <1>7 DEF FaultWoke, ParkForFault
  <2>4. RestTyped'
    BY <1>1, <1>7, <2>3, GoToTyped DEF AllTyped, FaultWoke, bootVars, Points
  <2>5. SuperTyped'
    BY <1>7 DEF AllTyped, SuperTyped, FaultWoke, ParkForFault
  <2> QED BY <1>7, <2>2, <2>4, <2>5, NotifyKept, IpcKept DEF AllTyped, FaultWoke
<1>8. CASE BlockReturn(t) /\ UNCHANGED <<notifyVars, ipcVars, superVars, bootVars>>
  <2>1. SchedTyped'
    BY <1>1, <1>8, StayTyped DEF AllTyped, SchedTyped, BlockReturn, StayOn
  <2>2. RestTyped'
    BY <1>1, <1>8, GoToTyped DEF AllTyped, BlockReturn, bootVars, Points
  <2> QED BY <1>8, <2>1, <2>2, NotifyKept, IpcKept, SuperKept DEF AllTyped
<1> QED BY <1>2, <1>3, <1>4, <1>5, <1>6, <1>7, <1>8 DEF Resume

(* exit and fault *)
LEMMA EndTyped ==
  ASSUME AllTyped, NEW t \in Slots, Exit(t) \/ Fault(t)
  PROVE  AllTyped'
<1>0. PriorityType
  BY AllTypedPriority
<1>1. t \in Slots \ {KernelThread}
  BY InUserFacts DEF AllTyped, Exit, ExitCurrent, Fault, FaultCurrent
<1>2. \A x \in {"Zombie", "Faulted"} : StateType([state EXCEPT ![t] = x])
  BY <1>1, SlotFacts DEF AllTyped, SchedTyped, StateType, States
<1>3. IpcTyped'
  BY AbandonTyped DEF AllTyped, Exit, ExitCurrent, Fault, FaultCurrent
<1>4. NotifyTyped' /\ SuperTyped'
  BY NotifyKept, SuperKept DEF AllTyped, Exit, ExitCurrent, Fault, FaultCurrent
<1>5. CASE Exit(t)
  <2>1. StateType(StateAfterAbandon([state EXCEPT ![t] = "Zombie"], t))
    BY <1>2, WokenEffect DEF StateAfterAbandon
  <2>2. SchedTyped'
    BY <1>0, <1>5, <2>1, SwitchTyped DEF AllTyped, Exit, ExitCurrent
  <2>3. RestTyped'
    BY <1>1, <1>5, GoToTyped DEF AllTyped, Exit, ExitCurrent, bootVars, Points
  <2> QED BY <1>3, <1>4, <2>2, <2>3 DEF AllTyped
<1>6. CASE Fault(t)
  <2> DEFINE released == StateAfterAbandon([state EXCEPT ![t] = "Faulted"], t)
             told     == Woken(released, {s \in Slots : faultWaiters[s]})
  <2>1. StateType(told)
    BY <1>2, WokenEffect DEF StateAfterAbandon
  <2>2. SwitchToNext(told)
    BY <1>6 DEF Fault, FaultCurrent
  <2>3. SchedTyped'
    <3> HIDE DEF told
    <3> QED BY <1>0, <2>1, <2>2, SwitchTyped DEF AllTyped
  <2>4. faults' \in Nat /\ GoTo(t, "gone") /\ UNCHANGED <<owed, spawned, spawns, priority, image,
                                                          needResched>>
    BY <1>6 DEF Fault, FaultCurrent, AllTyped, RestTyped
  <2>5. RestTyped'
    BY <1>1, <2>4, SlotFacts DEF AllTyped, RestTyped, GoTo, Points
  <2> QED BY <1>3, <1>4, <2>3, <2>5 DEF AllTyped
<1> QED BY <1>5, <1>6

(* fault_wait and restart *)
LEMMA SuperviseTyped ==
  ASSUME AllTyped, NEW t \in Slots, Supervise(t)
  PROVE  AllTyped'
<1>0. PriorityType /\ UNCHANGED bootVars
  BY AllTypedPriority DEF Supervise
<1>1. t \in Slots \ {KernelThread} /\ current = t /\ state[t] = "Runnable" /\ pc[t] = "run"
  BY InUserFacts DEF AllTyped, Supervise, FaultWait, Restart
<1>2. CASE FaultWait(t)
  <2>1. StateType(Marked(state, t))
    BY <1>1, MarkedEffect DEF AllTyped, SchedTyped
  <2>2. SchedTyped'
    BY <1>0, <1>2, <2>1, SwitchTyped DEF AllTyped, FaultWait, ParkForFault
  <2>3. RestTyped'
    BY <1>0, <1>1, <1>2, GoToTyped DEF AllTyped, FaultWait, ParkForFault, bootVars, Points
  <2>4. SuperTyped'
    BY <1>2 DEF AllTyped, SuperTyped, FaultWait, ParkForFault
  <2> QED BY <1>2, <2>2, <2>3, <2>4, NotifyKept, IpcKept DEF AllTyped, FaultWait
<1>3. ASSUME NEW s \in Slots, Restart(t, s)
      PROVE  AllTyped'
  <2> DEFINE st == StateAfterAbandon(state, s)
  <2>1. StateType(st) /\ st[current] = "Runnable"
    BY <1>1, WokenEffect DEF AllTyped, SchedTyped, StateAfterAbandon
  <2> HIDE DEF st
  <2>2. /\ state' = IF st[s] = "Faulted" /\ image[s] THEN [st EXCEPT ![s] = "Runnable"] ELSE st
        /\ space' = IF st[s] = "Faulted" /\ image[s] THEN [space EXCEPT ![s] = TRUE] ELSE space
        /\ pc' = IF st[s] = "Faulted" /\ image[s] THEN [pc EXCEPT ![s] = "start"] ELSE pc
        /\ UNCHANGED <<priority, image, current, needResched, notifyVars, superVars>>
    BY <1>3 DEF Restart, st
  <2>3. ASSUME st[s] = "Faulted" /\ image[s]
        PROVE  SchedTyped' /\ RestTyped'
    <3>1. s # KernelThread
      BY <2>1, <2>3 DEF StateType
    <3>2. StateType(state') /\ state'[current'] = "Runnable" /\ current' \in Slots
      BY <2>1, <2>2, <2>3, <3>1, SlotFacts DEF StateType, States, AllTyped, SchedTyped
    <3>3. space' \in [Slots -> BOOLEAN] /\ ~space'[KernelThread]
      BY <2>2, <2>3, <3>1, SlotFacts DEF AllTyped, SchedTyped
    <3>4. SchedTyped'
      BY <3>2, <3>3 DEF SchedTyped, CurrentMayRun, StateType
    <3>5. RestTyped'
      BY <1>0, <2>2, <2>3, <3>1, SlotFacts DEF AllTyped, RestTyped, Points, bootVars
    <3> QED BY <3>4, <3>5
  <2>4. ASSUME ~(st[s] = "Faulted" /\ image[s])
        PROVE  SchedTyped' /\ RestTyped'
    <3>1. SchedTyped'
      BY <2>1, <2>2, <2>4, StayTyped DEF AllTyped, StayOn
    <3>2. RestTyped'
      BY <1>0, <2>2, <2>4, RestKept DEF AllTyped, bootVars
    <3> QED BY <3>1, <3>2
  <2>5. IpcTyped'
    BY <1>3, AbandonTyped DEF AllTyped, Restart
  <2> QED BY <2>2, <2>3, <2>4, <2>5, NotifyKept, SuperKept DEF AllTyped
<1> QED BY <1>2, <1>3 DEF Supervise

(* yield, and what kernel tasks do *)
LEMMA KernelTaskTyped ==
  ASSUME AllTyped, NEW t \in Slots, Yield(t) \/ KernelTask(t)
  PROVE  AllTyped'
<1>0. PriorityType /\ UNCHANGED bootVars
  BY AllTypedPriority DEF Yield, KernelTask
<1>1. CASE Yield(t)
  <2>1. SchedTyped'
    BY <1>0, <1>1, SwitchTyped DEF AllTyped, SchedTyped, Yield, YieldNow
  <2>2. RestTyped'
    BY <1>0, <1>1, RestKept DEF AllTyped, Yield, YieldNow, bootVars
  <2> QED BY <1>1, <2>1, <2>2, NotifyKept, IpcKept, SuperKept DEF AllTyped, Yield
<1>2. CASE BlockCurrent(t) /\ UNCHANGED <<notifyVars, ipcVars, superVars, bootVars>>
  <2>1. t # KernelThread /\ StateType(Marked(state, t))
    BY <1>2, MarkedEffect DEF AllTyped, SchedTyped, BlockCurrent
  <2>2. SchedTyped'
    BY <1>0, <1>2, <2>1, SwitchTyped DEF AllTyped, BlockCurrent
  <2>3. RestTyped'
    BY <1>0, <1>2, <2>1, GoToTyped DEF AllTyped, BlockCurrent, bootVars, Points
  <2> QED BY <1>2, <2>2, <2>3, NotifyKept, IpcKept, SuperKept DEF AllTyped
<1>3. ASSUME NEW s \in Slots, Unblock(t, s),
             UNCHANGED <<notifyVars, ipcVars, superVars, bootVars>>
      PROVE  AllTyped'
  <2>1. StateType(state) /\ state[current] = "Runnable"
    BY <1>3 DEF AllTyped, SchedTyped, CurrentMayRun, Unblock, InKernelThread, Running
  <2>2. SchedTyped'
    BY <1>0, <1>3, <2>1, WakeTyped DEF AllTyped, Unblock
  <2>3. RestTyped'
    BY <1>0, <1>3, RestKept DEF AllTyped, Unblock, bootVars
  <2> QED BY <1>3, <2>2, <2>3, NotifyKept, IpcKept, SuperKept DEF AllTyped
<1>4. CASE TaskFinished(t)
  <2>1. /\ t # KernelThread /\ current = t /\ cursor' = 0 /\ GoTo(t, "finish")
        /\ state' = [state EXCEPT ![t] = "Zombie"]
        /\ UNCHANGED <<priority, space, image, current, needResched, notifyVars, ipcVars,
                       supervisor, faultWaiters>>
    BY <1>4 DEF TaskFinished, InKernelThread, Running
  <2>2. RestTyped'
    BY <1>0, <2>1, GoToTyped DEF AllTyped, bootVars, Points
  <2>3. pc'[t] = "finish"
    BY <2>1 DEF GoTo, AllTyped, RestTyped
  <2>4. SchedTyped'
    BY <2>1, <2>3, SlotFacts DEF AllTyped, SchedTyped, StateType, States, CurrentMayRun
  <2>5. SuperTyped'
    BY <2>1, SlotFacts DEF AllTyped, SuperTyped
  <2> QED BY <2>1, <2>2, <2>4, <2>5, NotifyKept, IpcKept DEF AllTyped
<1>5. CASE FinishLook(t)
  <2>1. UNCHANGED <<schedVars, notifyVars, supervisor, faultWaiters>>
    BY <1>5 DEF FinishLook
  <2>2. SchedTyped' /\ RestTyped' /\ NotifyTyped'
    BY <1>0, <2>1, NotifyKept
       DEF AllTyped, SchedTyped, RestTyped, StateType, CurrentMayRun, schedVars, bootVars
  <2>3. SuperTyped'
    <3>1. cursor \in 0 .. 2 * MAX_TASKS /\ cursor < 2 * MAX_TASKS /\ cursor % 2 = 0
      BY <1>5 DEF FinishLook, AllTyped, SuperTyped
    <3>2. cursor' \in {cursor + 1, cursor + 2}
      BY <1>5 DEF FinishLook
    <3>3. cursor' \in 0 .. 2 * MAX_TASKS
      BY <3>1, <3>2, SlotFacts
    <3> QED BY <2>1, <3>3 DEF AllTyped, SuperTyped
  <2>4. IpcTyped'
    <3>1. CASE cursor \div 2 \in WaitingOn(t) /\ DeliverOutcome(cursor \div 2, Dead(t))
      BY <3>1, DeliverTyped, PendingTypes DEF AllTyped, WaitingOn
    <3>2. CASE UNCHANGED ipcVars
      BY <3>2, IpcKept DEF AllTyped
    <3> QED BY <1>5, <3>1, <3>2 DEF FinishLook
  <2> QED BY <2>2, <2>3, <2>4 DEF AllTyped
<1>6. CASE FinishWake(t)
  <2>1. /\ state' = Woken(state, {cursor \div 2}) /\ cursor % 2 = 1 /\ cursor' = cursor + 1
        /\ UNCHANGED <<priority, space, image, pc, current, needResched, notifyVars, ipcVars,
                       supervisor, faultWaiters>>
    BY <1>6 DEF FinishWake
  <2>2. SchedTyped'
    BY <2>1, WokenEffect DEF AllTyped, SchedTyped, CurrentMayRun, StateType
  <2>3. RestTyped'
    BY <1>0, <2>1, RestKept DEF AllTyped, bootVars
  <2>4. SuperTyped'
    BY <2>1, SlotFacts DEF AllTyped, SuperTyped
  <2> QED BY <2>1, <2>2, <2>3, <2>4, NotifyKept, IpcKept DEF AllTyped
<1>7. CASE FinishLeave(t)
  <2>1. t # KernelThread
    BY <1>7 DEF FinishLeave, Finishing, AllTyped, RestTyped, Posting
  <2>2. SchedTyped'
    BY <1>0, <1>7, SwitchTyped DEF AllTyped, SchedTyped, FinishLeave
  <2>3. RestTyped'
    BY <1>0, <1>7, <2>1, GoToTyped DEF AllTyped, FinishLeave, bootVars, Points
  <2>4. IpcTyped'
    BY <1>7, PendingTypes, IpcAssumption DEF AllTyped, IpcTyped, FinishLeave
  <2> QED BY <1>7, <2>2, <2>3, <2>4, NotifyKept, SuperKept DEF AllTyped, FinishLeave
<1> QED BY <1>1, <1>2, <1>3, <1>4, <1>5, <1>6, <1>7 DEF KernelTask

(* What the boot thread does *)
LEMMA BootTyped ==
  ASSUME AllTyped,
         \/ \E p \in Priorities, k \in Kinds : Spawn(p, k)
         \/ SpawnDone \/ CleanUp \/ BootRoute \/ Appoint \/ PostStep
  PROVE  AllTyped'
<1>1. ASSUME NEW p \in Priorities, NEW k \in Kinds, Spawn(p, k)
      PROVE  AllTyped'
  <2>1. FreeSlots # {} /\ InKernelThread(KernelThread)
    BY <1>1 DEF Spawn, SpawnIn
  <2>2. FreeSlot \in Slots \ {KernelThread} /\ FreeSlot # current
    BY <2>1, FreeSlotFound DEF AllTyped, SchedTyped, StateType, InKernelThread, Running
  <2> DEFINE f == FreeSlot
  <2>3. /\ state' = [state EXCEPT ![f] = "Runnable"]
        /\ priority' = [priority EXCEPT ![f] = p]
        /\ space' = [space EXCEPT ![f] = (k = "user")]
        /\ image' = [image EXCEPT ![f] = FALSE]
        /\ pc' = [pc EXCEPT ![f] = "start",
                            ![KernelThread] = IF k = "user" THEN "image" ELSE "run"]
        /\ UNCHANGED <<current, needResched, owed, faults, notifyVars, ipcVars, superVars>>
        /\ spawns' = spawns + 1
        /\ spawned' = IF k = "user" THEN f ELSE NoTask
    BY <1>1 DEF Spawn, SpawnIn
  <2> HIDE DEF f
  <2>4. f \in Slots \ {KernelThread} /\ f # current /\ current = KernelThread
    BY <2>1, <2>2 DEF f, InKernelThread, Running
  <2>5. SchedTyped'
    BY <2>3, <2>4, SlotFacts DEF AllTyped, SchedTyped, StateType, States, CurrentMayRun
  <2>6. RestTyped'
    BY <2>3, <2>4, SlotFacts DEF AllTyped, RestTyped, Points
  <2> QED BY <2>3, <2>5, <2>6, NotifyKept, IpcKept, SuperKept DEF AllTyped
<1>2. CASE SpawnDone
  <2>1. /\ image' = [image EXCEPT ![spawned] = TRUE]
        /\ pc' = [pc EXCEPT ![KernelThread] = "run"]
        /\ UNCHANGED <<state, priority, space, current, needResched,
                       notifyVars, ipcVars, superVars, owed, spawns, faults>>
        /\ spawned' = NoTask /\ current = KernelThread
    BY <1>2 DEF SpawnDone, RecordImage, GoTo
  <2>2. SchedTyped'
    BY <2>1 DEF AllTyped, SchedTyped, StateType, CurrentMayRun
  <2>3. RestTyped'
    BY <2>1, SlotFacts DEF AllTyped, RestTyped, Points
  <2> QED BY <2>1, <2>2, <2>3, NotifyKept, IpcKept, SuperKept DEF AllTyped
<1>3. CASE CleanUp
  <2>1. UNCHANGED <<notifyVars, ipcVars, superVars, bootVars>>
    BY <1>3 DEF CleanUp
  <2>2. CASE ReapZombies
    <3>1. /\ state' = [s \in Slots |-> IF s \in Reapable(state, current) THEN "Dead" ELSE state[s]]
          /\ space' = [s \in Slots |-> space[s] /\ s \notin Reapable(state, current)]
          /\ UNCHANGED <<priority, image, pc, current, needResched>>
      BY <2>2 DEF ReapZombies, Reaped, SpaceAfterReap
    <3>2. \A s \in Reapable(state, current) : state[s] = "Zombie"
      BY DEF Reapable
    <3>3. space' \in [Slots -> BOOLEAN] /\ ~space'[KernelThread]
      <4>1. space' \in [Slots -> BOOLEAN]
        BY <3>1, Zenon
      <4>2. ~space[KernelThread] /\ KernelThread \in Slots
        BY SlotFacts DEF AllTyped, SchedTyped
      <4>3. ~space'[KernelThread]
        BY <3>1, <4>2, Zenon
      <4> QED BY <4>1, <4>3
    <3>4. StateType(state') /\ current' = current /\ current \in Slots
          /\ state'[current] = "Runnable"
      BY <2>2, <3>1, <3>2, SlotFacts
         DEF AllTyped, SchedTyped, StateType, States, CurrentMayRun,
             ReapZombies, InKernelThread, Running
    <3>5. SchedTyped'
      BY <3>3, <3>4 DEF SchedTyped, StateType, CurrentMayRun
    <3>6. RestTyped'
      BY <2>1, <3>1, RestKept DEF AllTyped, bootVars
    <3> QED BY <2>1, <3>5, <3>6, NotifyKept, IpcKept, SuperKept DEF AllTyped
  <2>3. CASE ReleaseDead
    <3> DEFINE dead == {s \in Slots \ {current} : state[s] = "Dead"}
    <3>1. /\ state' = [s \in Slots |-> IF s \in dead THEN "None" ELSE state[s]]
          /\ image' = [s \in Slots |-> image[s] /\ s \notin dead]
          /\ priority' = [s \in Slots |-> IF s \in dead THEN IDLE ELSE priority[s]]
          /\ pc' = [s \in Slots |-> IF s \in dead THEN "gone" ELSE pc[s]]
          /\ UNCHANGED <<space, current, needResched>>
      BY <2>3 DEF ReleaseDead
    <3>2. current \notin dead /\ KernelThread \notin dead
      BY DEF AllTyped, SchedTyped, StateType
    <3> HIDE DEF dead
    <3>3. SchedTyped'
      BY <3>1, <3>2, SlotFacts DEF AllTyped, SchedTyped, StateType, States, CurrentMayRun
    <3>4. image' \in [Slots -> BOOLEAN]
      BY <3>1, Zenon
    <3>5. RestTyped'
      BY <2>1, <3>1, <3>2, <3>4, SlotFacts DEF AllTyped, RestTyped, Points, bootVars
    <3> QED BY <2>1, <3>3, <3>5, NotifyKept, IpcKept, SuperKept DEF AllTyped
  <2>4. ASSUME NEW s \in Slots, Kill(s)
        PROVE  AllTyped'
    <3>1. SchedTyped'
      BY <2>4, SlotFacts DEF AllTyped, SchedTyped, StateType, States, CurrentMayRun, Kill
    <3>2. RestTyped'
      BY <2>1, <2>4, RestKept DEF AllTyped, Kill, bootVars
    <3> QED BY <2>1, <3>1, <3>2, NotifyKept, IpcKept, SuperKept DEF AllTyped
  <2> QED BY <1>3, <2>2, <2>3, <2>4 DEF CleanUp
<1>4. CASE BootPost
  <2>1. PICK s \in Slots, b \in Bits :
          PostBits(s, {b}) /\ owed' = [owed EXCEPT ![s] = @ \cup {b}]
    BY <1>4 DEF BootPost
  <2>2. UNCHANGED <<ipcVars, superVars, spawned, spawns, faults>>
    BY <1>4 DEF BootPost
  <2>3. SchedTyped'
    BY <2>1 DEF AllTyped, SchedTyped, StateType, CurrentMayRun, PostBits, InKernelThread,
                Running, GoTo
  <2>4. RestTyped'
    BY <2>1, <2>2, SlotFacts DEF AllTyped, RestTyped, PostBits, GoTo, Points, Posting
  <2>5. NotifyTyped'
    BY <2>1 DEF AllTyped, NotifyTyped, PostBits, PostedTo
  <2> QED BY <2>2, <2>3, <2>4, <2>5, IpcKept, SuperKept DEF AllTyped
<1>7. CASE BootPostWake
  <2>1. PICK s \in Slots :
          /\ PostWake(s) /\ owed' = [owed EXCEPT ![s] = {}]
          /\ UNCHANGED <<ipcVars, superVars, spawned, spawns, faults>>
    BY <1>7 DEF BootPostWake
  <2>2. StateType(state') /\ state'[current] = "Runnable"
    BY <2>1, WokenEffect DEF AllTyped, SchedTyped, StateType, PostWake
  <2>3. SchedTyped'
    BY <2>1, <2>2 DEF AllTyped, SchedTyped, StateType, CurrentMayRun, PostWake
  <2>4. RestTyped'
    BY <2>1, SlotFacts DEF AllTyped, RestTyped, PostWake, GoTo, Points, Posting
  <2> QED BY <2>1, <2>3, <2>4, NotifyKept, IpcKept, SuperKept DEF AllTyped, PostWake
<1>8. CASE BootPostLook
  <2>1. PICK s \in Slots :
          /\ PostLook(s, owed[s])
          /\ owed' = IF WakesOn(s, owed[s]) THEN owed ELSE [owed EXCEPT ![s] = {}]
          /\ UNCHANGED <<ipcVars, superVars, spawned, spawns, faults>>
    BY <1>8 DEF BootPostLook
  <2>2. SchedTyped'
    BY <2>1 DEF AllTyped, SchedTyped, StateType, CurrentMayRun, PostLook, GoTo, RestTyped
  <2>3. PICK p \in {"waking", "run"} : GoTo(KernelThread, p)
    BY <2>1 DEF PostLook
  <2>4. owed' \in [Slots -> SUBSET Bits]
    BY <2>1 DEF AllTyped, RestTyped
  <2>5. RestTyped'
    BY <2>1, <2>3, <2>4, SlotFacts DEF AllTyped, RestTyped, PostLook, GoTo, Points, Posting
  <2> QED BY <2>1, <2>2, <2>5, NotifyKept, IpcKept, SuperKept DEF AllTyped, PostLook
<1>9. CASE BootPostAsk
  <2>1. PostAsk /\ UNCHANGED <<ipcVars, superVars, bootVars>>
    BY <1>9 DEF BootPostAsk
  <2>2. SchedTyped'
    BY <2>1 DEF AllTyped, SchedTyped, StateType, CurrentMayRun, PostAsk
  <2>3. RestTyped'
    BY <2>1, SlotFacts DEF AllTyped, RestTyped, PostAsk, GoTo, Points, bootVars
  <2>4. NotifyTyped'
    BY <2>1, NotifyKept DEF AllTyped, PostAsk, notifyVars
  <2> QED BY <2>1, <2>2, <2>3, <2>4, IpcKept, SuperKept DEF AllTyped
<1>5. CASE BootRoute
  <2>1. PICK i \in IntIds, s \in Slots, b \in Bits :
          Route(i, s, {b}) /\ UNCHANGED <<ipcVars, superVars, bootVars>>
    BY <1>5 DEF BootRoute
  <2>2. [intid |-> i, task |-> s, bits |-> {b}] \in Routes
    BY DEF Routes
  <2>3. NotifyTyped'
    BY <2>1, <2>2 DEF AllTyped, NotifyTyped, Route
  <2>4. SchedTyped' /\ RestTyped'
    BY <2>1 DEF AllTyped, SchedTyped, RestTyped, StateType, CurrentMayRun, Route,
                schedVars, bootVars
  <2> QED BY <2>1, <2>3, <2>4, IpcKept, SuperKept DEF AllTyped
<1>6. CASE Appoint
  <2>1. PICK s \in Slots : SetSupervisor(s)
    BY <1>6 DEF Appoint
  <2>2. SuperTyped'
    BY <2>1 DEF AllTyped, SuperTyped, SetSupervisor
  <2>3. SchedTyped' /\ RestTyped'
    BY <1>6, <2>1 DEF AllTyped, SchedTyped, RestTyped, StateType, CurrentMayRun, Appoint,
                      SetSupervisor, schedVars, bootVars
  <2> QED BY <2>1, <2>2, <2>3, NotifyKept, IpcKept DEF AllTyped, SetSupervisor
<1> QED BY <1>1, <1>2, <1>3, <1>4, <1>5, <1>6, <1>7, <1>8, <1>9 DEF PostStep

(* An interrupt: post, perhaps switch *)
LEMMA InterruptTyped ==
  ASSUME AllTyped, NEW i \in IntIds, Interrupt(i)
  PROVE  AllTyped'
<1>0. PriorityType /\ UNCHANGED <<ipcVars, superVars, bootVars>>
  BY AllTypedPriority DEF Interrupt
<1> DEFINE routed == Routed(i) # {}
           r  == RouteOf(i)
           st == IF routed THEN StateAfterPost(r.task, r.bits) ELSE state
<1>1. /\ posted' = IF routed THEN PostedTo(r.task, r.bits) ELSE posted
      /\ SwitchToNext(st) \/ StayOn(st)
      /\ needResched' = FALSE
      /\ UNCHANGED <<priority, image, pc, routes, wanted>>
  BY DEF Interrupt, Irq
<1>2. routed => r.task \in Slots /\ r.bits \in SUBSET Bits
  BY RouteFound DEF AllTyped, NotifyTyped, Routes
<1>3. StateType(st) /\ \A s \in Slots : state[s] # "Blocked" => st[s] = state[s]
  <2>1. CASE routed
    BY <1>2, <2>1, PostEffect DEF AllTyped, SchedTyped
  <2>2. CASE ~routed
    BY <2>2 DEF AllTyped, SchedTyped
  <2> QED BY <2>1, <2>2
<1>4. NotifyTyped'
  <2>1. CASE routed
    BY <1>1, <1>2, <2>1 DEF AllTyped, NotifyTyped, PostedTo
  <2>2. CASE ~routed
    BY <1>1, <2>2 DEF AllTyped, NotifyTyped
  <2> QED BY <2>1, <2>2
<1> HIDE DEF st, r, routed
<1>5. SchedTyped'
  <2>1. CASE SwitchToNext(st)
    BY <1>0, <1>3, <2>1, SwitchTyped DEF AllTyped
  <2>2. CASE StayOn(st)
    BY <1>1, <1>3, <2>2 DEF AllTyped, SchedTyped, StateType, CurrentMayRun, StayOn
  <2> QED BY <1>1, <2>1, <2>2
<1>6. RestTyped'
  BY <1>0, <1>1 DEF AllTyped, RestTyped, bootVars
<1> QED BY <1>0, <1>4, <1>5, <1>6, IpcKept, SuperKept DEF AllTyped

-----------------------------------------------------------------------------
(***************************************************************************)
(* Types, the boot thread and the CPU, for every choice of the constants    *)
(***************************************************************************)
LEMMA TypeInvInit == Init => TypeInv
<1> SUFFICES ASSUME Init PROVE TypeInv
  OBVIOUS
<1>1. SchedTyped /\ RestTyped
  BY SlotFacts DEF Init, SchedInit, SchedTyped, RestTyped, StateType, States, Points, CurrentMayRun
<1>2. NotifyTyped /\ IpcTyped /\ SuperTyped
  BY SlotFacts, PendingTypes, IpcAssumption
     DEF Init, NotifyInit, IpcInit, SuperInit, NotifyTyped, IpcTyped, SuperTyped
<1> QED BY <1>1, <1>2, TypeInvParts DEF AllTyped

(* Every step of the kernel keeps it. *)
LEMMA TypeInvStep == TypeInv /\ [Next]_vars => TypeInv'
<1> SUFFICES ASSUME AllTyped, [Next]_vars PROVE AllTyped'
  BY TypeInvParts
<1>1. CASE Next
  BY <1>1, SyscallTyped, ResumeTyped, EndTyped, SuperviseTyped, KernelTaskTyped,
     BootTyped, InterruptTyped DEF Next, PostStep
<1>2. CASE UNCHANGED vars
  BY <1>2, NotifyKept, IpcKept, SuperKept
     DEF vars, AllTyped, SchedTyped, RestTyped, StateType, CurrentMayRun, schedVars, bootVars
<1> QED BY <1>1, <1>2

(* So it holds in every reachable state. *)
LEMMA TypeInvAlways == Spec => []TypeInv
BY TypeInvInit, TypeInvStep, PTL DEF Spec

(***************************************************************************)
(* Every variable keeps its type: the task found by next_runnable, the slot *)
(* found by free_slot, the sender found by best_sender and the route found  *)
(* by on_irq exist whenever the code relies on them.                        *)
(***************************************************************************)
THEOREM TypeCorrect == Spec => []TypeOK
BY TypeInvAlways, PTL DEF TypeInv

(***************************************************************************)
(* switch_to_next always finds a task, and the CPU is only ever on a        *)
(* runnable task or on a kernel task that is still finishing.               *)
(***************************************************************************)
THEOREM CpuOnlyGivenToRunnable == Spec => []CurrentMayRun
BY TypeInvAlways, PTL DEF TypeInv

(* The constructors of Pending and Outcome, read back *)
LEMMA PendingShapes ==
  /\ NoPending.kind = "None" /\ RecvWait.kind = "RecvWait"
  /\ \A u : SendWait(u).kind = "SendWait" /\ SendWait(u).target = u
  /\ \A u : ReplyWait(u).kind = "ReplyWait" /\ ReplyWait(u).target = u
  /\ \A p \in Pendings : p.kind = "SendWait" => p = SendWait(p.target)
  /\ \A p \in Pendings : p.kind = "ReplyWait" => p = ReplyWait(p.target)
  /\ Zero.kind = "zero"
  /\ \A u : Message(u).kind = "message" /\ Message(u).from = u
  /\ \A u : Answer(u).kind = "reply" /\ Dead(u).kind = "dead"
BY DEF NoPending, RecvWait, SendWait, ReplyWait, Pendings, Zero, Message, Answer, Dead

-----------------------------------------------------------------------------
(***************************************************************************)
(* What every kernel keeps, whatever it spawns, restarts and posts.         *)
(***************************************************************************)
Ended == {"None", "Zombie", "Dead", "Faulted"}

(* A step that is not in the middle of one of s's own calls *)
Steady(s) ==
  /\ pc'[s] = pc[s] /\ wanted'[s] = wanted[s]
  /\ faultWaiters'[s] => faultWaiters[s]
  /\ space'[s] = space[s] \/ (state[s] = "Zombie" /\ ~space'[s])
  /\ state'[s] \in Ended => state[s] \in Ended
  /\ pending'[s] \in {pending[s], NoPending} \/ pending[s] # NoPending
  /\ leaseCount'[s] \in {leaseCount[s], 0}
  /\ state'[s] = "Blocked" =>
       /\ state[s] = "Blocked"
       /\ posted[s] \cap wanted[s] \subseteq owed[s] => posted'[s] \cap wanted[s] \subseteq owed'[s]

(* Such a step keeps s settled. *)
LEMMA SteadySettled ==
  ASSUME NEW s, SettledTask(s), Steady(s)
  PROVE  SettledTask(s)'
<1>1. Unarmed(s)' /\ CodeOf(s)'
  BY DEF SettledTask, Unarmed, CodeOf, Steady, Ended, SendCall
<1>2. NoEntry(s)'
  BY DEF SettledTask, CodeOf, NoEntry, Steady
<1>3. Answered(s)'
  BY DEF SettledTask, Answered, Steady
<1> QED BY <1>1, <1>2, <1>3 DEF SettledTask

(* The scheduler's entry for s, after the handler that left the table st *)
LEMMA EntryAfter ==
  ASSUME AllTyped, NEW st, StateType(st), SwitchToNext(st) \/ StayOn(st), NEW s \in Slots
  PROVE  /\ space'[s] = space[s] \/ (st[s] = "Zombie" /\ ~space'[s])
         /\ st[s] # "Zombie" => state'[s] = st[s] /\ space'[s] = space[s]
         /\ st[s] = "Zombie" => state'[s] \in {"Zombie", "Dead"}
<1>1. CASE SwitchToNext(st)
  <2>1. /\ st[s] # "Zombie" => state'[s] = st[s] /\ space'[s] = space[s]
        /\ st[s] = "Zombie" => state'[s] \in {"Zombie", "Dead"}
    BY <1>1, AllTypedPriority, SwitchEffect DEF AllTyped, SchedTyped
  <2>2. space'[s] = (space[s] /\ s \notin Reapable(st, current))
    BY <1>1, Zenon DEF SwitchToNext, SpaceAfterReap
  <2>3. space[s] \in BOOLEAN
    BY DEF AllTyped, SchedTyped
  <2>4. space'[s] = space[s] \/ ~space'[s]
    BY <2>2, <2>3, Zenon
  <2> QED BY <2>1, <2>4
<1>2. CASE StayOn(st)
  <2>1. st[s] \in States
    BY DEF StateType
  <2> QED BY <1>2, <2>1 DEF StayOn
<1> QED BY <1>1, <1>2

(* A task whose IPC entries a step leaves alone, or clears *)
Spared(s) ==
  /\ pc'[s] = pc[s] /\ wanted'[s] = wanted[s]
  /\ faultWaiters'[s] => faultWaiters[s]
  /\ pending'[s] \in {pending[s], NoPending} \/ pending[s] # NoPending
  /\ leaseCount'[s] \in {leaseCount[s], 0}
  /\ posted'[s] = posted[s] /\ owed'[s] = owed[s]

(* It is steady if the handler only woke it or left it alone. *)
LEMMA SparedSteady ==
  ASSUME AllTyped, NEW st, StateType(st), SwitchToNext(st) \/ StayOn(st), NEW s \in Slots,
         Spared(s), st[s] = state[s] \/ (state[s] = "Blocked" /\ st[s] = "Runnable")
  PROVE  Steady(s)
BY EntryAfter DEF Spared, Steady, Ended

(* unblock: the table it hands over has its task woken. *)
LEMMA WakesIn ==
  ASSUME AllTyped, NEW t, NEW w, WakeAndYield(state, t, w)
  PROVE  \E st : /\ StateType(st) /\ (SwitchToNext(st) \/ StayOn(st))
                 /\ \A s \in Slots : st[s] = state[s] \/ (state[s] = "Blocked" /\ st[s] = "Runnable")
<1>1. StateType(state)
  BY DEF AllTyped, SchedTyped
<1> QED BY <1>1, WokenEffect DEF WakeAndYield

(* The task making a call from EL0, before it *)
LEMMA CallerSettled ==
  ASSUME AllTyped, Settled, NEW t \in Slots, InUser(t)
  PROVE  /\ t # KernelThread /\ current = t /\ state[t] = "Runnable" /\ pc[t] = "run" /\ space[t]
         /\ wanted[t] = {} /\ ~faultWaiters[t]
<1>1. t # KernelThread /\ current = t /\ state[t] = "Runnable" /\ pc[t] = "run"
  BY InUserFacts DEF AllTyped
<1> QED BY <1>1 DEF Settled, SettledTask, Unarmed, InUser

(* The functions the IPC steps update *)
LEMMA Tables ==
  ASSUME AllTyped
  PROVE  /\ pc \in [Slots -> Points] /\ space \in [Slots -> BOOLEAN] /\ StateType(state)
         /\ pending \in [Slots -> Pendings] /\ leaseCount \in [Slots -> 0 .. MaxLeases]
         /\ posted \in [Slots -> SUBSET Bits] /\ wanted \in [Slots -> SUBSET Bits]
         /\ faultWaiters \in [Slots -> BOOLEAN] /\ owed \in [Slots -> SUBSET Bits]
BY DEF AllTyped, SchedTyped, RestTyped, NotifyTyped, IpcTyped, SuperTyped

(* One turn of the loop in recv *)
LEMMA RecvTurnSettled ==
  ASSUME AllTyped, Settled, NEW t \in Slots, t # KernelThread, state[t] = "Runnable", space[t],
         ~faultWaiters[t], NEW mask \in SUBSET Bits, NEW own, RecvTurn(t, mask, own),
         UNCHANGED <<superVars, bootVars>>
  PROVE  Settled'
<1> SUFFICES ASSUME NEW s \in Slots PROVE SettledTask(s)'
  BY DEF Settled
<1>1. UNCHANGED <<leaseCount, faultWaiters, owed>>
  BY DEF RecvTurn, superVars, bootVars
<1>2. CASE CollectNotification(t, mask, own) \/ CollectMessage(t, mask, own)
  <2>1. /\ UNCHANGED <<state, space>> /\ pc'[t] = "run" /\ wanted'[t] = {}
        /\ \A v \in Slots \ {t} : pc'[v] = pc[v] /\ wanted'[v] = wanted[v] /\ posted'[v] = posted[v]
    BY <1>2, Tables DEF CollectNotification, CollectMessage, StayOn, GoTo
  <2>2. \A v \in Slots \ {t} : pending'[v] = pending[v] \/ pending[v] # NoPending
    <3>1. CASE CollectNotification(t, mask, own)
      BY <3>1, Tables DEF CollectNotification
    <3>2. CASE CollectMessage(t, mask, own)
      <4>1. pending[BestSender(t)] = SendWait(t)
        BY <3>2, BestSenderFound, AllTypedPriority DEF CollectMessage, QueuedFor
      <4>2. pending[BestSender(t)] # NoPending
        BY <4>1, PendingShapes
      <4> QED BY <3>2, <4>2, Tables DEF CollectMessage
    <3> QED BY <1>2, <3>1, <3>2
  <2>3. CASE s = t
    BY <1>1, <2>1, <2>3 DEF SettledTask, Unarmed, CodeOf, NoEntry, Answered, SendCall
  <2>4. CASE s # t
    <3>1. Steady(s)
      BY <1>1, <2>1, <2>2, <2>4 DEF Steady
    <3> QED BY <3>1, SteadySettled DEF Settled
  <2> QED BY <2>3, <2>4
<1>3. CASE ParkInRecv(t, mask)
  <2>1. /\ pc'[t] = "recvPark" /\ wanted'[t] = mask /\ posted[t] \cap mask = {} /\ UNCHANGED posted
        /\ \A v \in Slots \ {t} : Spared(v)
    BY <1>1, <1>3, Tables DEF ParkInRecv, GoTo, Spared
  <2>2. /\ StateType(Marked(state, t)) /\ SwitchToNext(Marked(state, t))
        /\ \A v \in Slots : Marked(state, t)[v] = IF v = t THEN "Blocked" ELSE state[v]
    BY <1>3, Tables, MarkedEffect DEF ParkInRecv
  <2> HIDE DEF Marked
  <2>3. CASE s = t
    <3>1. state'[t] = "Blocked" /\ space'[t] = space[t]
      BY <2>2, EntryAfter
    <3> QED BY <1>1, <2>1, <2>3, <3>1
            DEF SettledTask, Unarmed, CodeOf, NoEntry, Answered, SendCall
  <2>4. CASE s # t
    BY <2>1, <2>2, <2>4, SparedSteady, SteadySettled DEF Settled
  <2> QED BY <2>3, <2>4
<1> QED BY <1>2, <1>3 DEF RecvTurn

(* A step of the task on the CPU that leaves the calls of all others alone: *)
(* the table it hands over differs from the old one where somebody is woken,*)
(* and for the task itself only what it says.                               *)
LEMMA OnlyMoves ==
  ASSUME AllTyped, Settled, NEW t \in Slots, NEW st, StateType(st), SwitchToNext(st) \/ StayOn(st),
         \A v \in Slots \ {t} : /\ Spared(v)
                                /\ st[v] = state[v] \/ (state[v] = "Blocked" /\ st[v] = "Runnable"),
         SettledTask(t)'
  PROVE  Settled'
BY SparedSteady, SteadySettled DEF Settled

(* send leaves its caller blocked in send, and everybody else spared. *)
LEMMA SendSettled ==
  ASSUME AllTyped, Settled, NEW t \in Slots, NEW u \in Slots, NEW n \in 0 .. MaxLeases,
         SendToReceiver(t, u, n) \/ SendAndQueue(t, u, n), UNCHANGED <<superVars, bootVars>>
  PROVE  Settled'
<1> DEFINE marked == Marked(state, t)
           st == IF SendToReceiver(t, u, n) THEN Woken(marked, {u}) ELSE marked
<1>1. /\ t # KernelThread /\ current = t /\ state[t] = "Runnable" /\ pc[t] = "run" /\ space[t]
      /\ wanted[t] = {} /\ ~faultWaiters[t] /\ u # t
  BY CallerSettled DEF SendToReceiver, SendAndQueue
<1>2. /\ UNCHANGED <<wanted, posted, faultWaiters, owed>>
      /\ SwitchToNext(st)
      /\ pc'[t] \in SendCall
      /\ \A v \in Slots \ {t} :
           /\ pc'[v] = pc[v] /\ pending'[v] \in {pending[v], NoPending} /\ leaseCount'[v] = leaseCount[v]
  BY Tables DEF SendToReceiver, SendAndQueue, GoTo, notifyVars, superVars, bootVars, SendCall
<1>3. /\ StateType(marked)
      /\ \A v \in Slots : marked[v] = IF v = t THEN "Blocked" ELSE state[v]
  BY <1>1, Tables, MarkedEffect
<1>4. /\ StateType(st) /\ st[t] = "Blocked"
      /\ \A v \in Slots \ {t} : st[v] = state[v] \/ (state[v] = "Blocked" /\ st[v] = "Runnable")
  <2> HIDE DEF marked
  <2>1. StateType(Woken(marked, {u}))
    BY <1>3, WokenEffect
  <2>2. \A v \in Slots : Woken(marked, {u})[v] =
          IF v \in {u} /\ marked[v] = "Blocked" THEN "Runnable" ELSE marked[v]
    BY <1>3, WokenEffect
  <2> QED BY <1>1, <1>3, <2>1, <2>2
<1> HIDE DEF st
<1>5. state'[t] = "Blocked" /\ space'[t] = space[t]
  BY <1>2, <1>4, EntryAfter
<1>6. SettledTask(t)'
  BY <1>1, <1>2, <1>5 DEF SettledTask, Unarmed, CodeOf, NoEntry, Answered, SendCall
<1>7. \A v \in Slots \ {t} : Spared(v)
  BY <1>2 DEF Spared
<1> QED BY <1>2, <1>4, <1>6, <1>7, OnlyMoves

(* deliver_outcome and the wake that follows it *)
LEMMA ReplySettled ==
  ASSUME AllTyped, Settled, NEW t \in Slots, NEW w \in Slots, Reply(t, w),
         UNCHANGED <<superVars, bootVars>>
  PROVE  Settled'
<1>1. PICK st : /\ StateType(st) /\ (SwitchToNext(st) \/ StayOn(st))
                /\ \A s \in Slots : st[s] = state[s] \/ (state[s] = "Blocked" /\ st[s] = "Runnable")
  BY WakesIn DEF Reply
<1>2. \A v \in Slots : Spared(v)
  BY Tables DEF Reply, DeliverOutcome, Spared, notifyVars, superVars, bootVars
<1> QED BY <1>1, <1>2, SparedSteady, SteadySettled DEF Settled

(* Every system call keeps all tasks settled. *)
LEMMA SyscallSettled ==
  ASSUME AllTyped, Settled, NEW t \in Slots, Syscall(t)
  PROVE  Settled'
<1>1. UNCHANGED <<superVars, bootVars>>
  BY DEF Syscall
<1>2. ASSUME NEW u \in Slots, NEW n \in 0 .. MaxLeases, SendToReceiver(t, u, n) \/ SendAndQueue(t, u, n)
      PROVE  Settled'
  BY <1>1, <1>2, SendSettled
<1>3. ASSUME NEW mask \in SUBSET Bits, Recv(t, mask) PROVE Settled'
  BY <1>1, <1>3, CallerSettled, RecvTurnSettled DEF Recv
<1>4. ASSUME NEW s \in Slots, Reply(t, s) PROVE Settled'
  BY <1>1, <1>4, ReplySettled
<1> QED BY <1>2, <1>3, <1>4 DEF Syscall

(* A task resumed on its own stack finishes its call or goes on with it. *)
LEMMA ResumeSettled ==
  ASSUME AllTyped, Settled, NEW t \in Slots, Resume(t)
  PROVE  Settled'
<1>0. current = t /\ SettledTask(t) /\ UNCHANGED bootVars
  BY DEF Settled, Resume, Start, SendWoke, SendReturn, RecvReturn, RecvAgain, FaultWoke, BlockReturn
<1>1. StateType(state) /\ (UNCHANGED <<state, space, current>> => StayOn(state))
  BY Tables DEF StayOn
<1>2. t # KernelThread /\ (pc[t] # "finish" => state[t] = "Runnable")
  BY DEF AllTyped, SchedTyped, RestTyped, CurrentMayRun, Resume, Start, SendWoke, SendReturn,
         RecvReturn, RecvAgain,
         FaultWoke, BlockReturn, Posting
<1>3. CASE Start(t) \/ BlockReturn(t)
  <2>1. /\ UNCHANGED <<state, space, current, posted, wanted, pending, leaseCount, faultWaiters,
                       owed>>
        /\ pc'[t] = "run" /\ \A v \in Slots \ {t} : pc'[v] = pc[v]
        /\ pc[t] \in {"start", "blockPark"}
    BY <1>0, <1>3, Tables
       DEF Resume, Start, BlockReturn, SendWoke, SendReturn, RecvReturn, RecvAgain, FaultWoke,
           GoTo, notifyVars, ipcVars, superVars, bootVars
  <2>2. SettledTask(t)'
    BY <1>0, <1>2, <2>1 DEF SettledTask, Unarmed, CodeOf, NoEntry, Answered, SendCall
  <2>3. \A v \in Slots \ {t} : Spared(v)
    BY <2>1 DEF Spared
  <2> QED BY <1>1, <2>1, <2>2, <2>3, OnlyMoves
<1>4. CASE SendWoke(t) \/ SendReturn(t)
  <2>1. /\ UNCHANGED <<posted, wanted, pending, leaseCount, faultWaiters, owed>>
        /\ SwitchToNext(state) \/ StayOn(state)
        /\ pc[t] \in SendCall /\ pc'[t] \in {"run", "sendPark"}
        /\ \A v \in Slots \ {t} : pc'[v] = pc[v]
    BY <1>0, <1>4, Tables
       DEF Resume, Start, BlockReturn, SendWoke, SendReturn, RecvReturn, RecvAgain, FaultWoke,
           TakeOutcome, StayOn, SendCall, GoTo, notifyVars, ipcVars, superVars, bootVars
  <2>2. state'[t] = "Runnable" /\ space'[t] = space[t]
    BY <1>1, <1>2, <2>1, EntryAfter DEF SendCall
  <2>3. SettledTask(t)'
    BY <1>0, <2>1, <2>2 DEF SettledTask, Unarmed, CodeOf, NoEntry, Answered, SendCall
  <2>4. \A v \in Slots \ {t} : Spared(v)
    BY <2>1 DEF Spared
  <2> QED BY <1>1, <2>1, <2>3, <2>4, OnlyMoves
<1>5. CASE RecvReturn(t)
  <2>1. /\ UNCHANGED <<state, space, current, posted, pending, leaseCount, faultWaiters, owed>>
        /\ pc[t] = "recvPark" /\ pc'[t] = "run" /\ wanted'[t] = {}
        /\ \A v \in Slots \ {t} : pc'[v] = pc[v] /\ wanted'[v] = wanted[v]
    BY <1>0, <1>5, Tables
       DEF Resume, Start, BlockReturn, SendWoke, SendReturn, RecvReturn, RecvAgain, FaultWoke,
           TakeOutcome, GoTo, superVars, bootVars
  <2>2. SettledTask(t)'
    BY <1>0, <1>2, <2>1 DEF SettledTask, Unarmed, CodeOf, NoEntry, Answered, SendCall
  <2>3. \A v \in Slots \ {t} : Spared(v)
    BY <2>1 DEF Spared
  <2> QED BY <1>1, <2>1, <2>2, <2>3, OnlyMoves
<1>6. CASE RecvAgain(t)
  <2>1. space[t] /\ ~faultWaiters[t] /\ wanted[t] \in SUBSET Bits /\ pc[t] = "recvPark"
    BY <1>0, <1>6, Tables DEF RecvAgain, SettledTask, Unarmed, CodeOf
  <2>2. UNCHANGED superVars
    BY <1>6, <2>1 DEF Resume, Start, SendWoke, SendReturn, RecvReturn, FaultWoke, BlockReturn
  <2> QED BY <1>0, <1>2, <1>6, <2>1, <2>2, RecvTurnSettled DEF RecvAgain
<1>7. CASE FaultWoke(t)
  <2> DEFINE st == IF FaultedTasks = {} THEN Marked(state, t) ELSE state
  <2>1. /\ UNCHANGED <<posted, wanted, pending, leaseCount, owed>> /\ pc[t] = "faultPark"
        /\ SwitchToNext(st) \/ StayOn(st)
        /\ (pc'[t] = "faultPark") \/ (pc'[t] = "run" /\ ~faultWaiters'[t])
        /\ \A v \in Slots \ {t} : pc'[v] = pc[v] /\ faultWaiters'[v] = faultWaiters[v]
    BY <1>0, <1>7, Tables DEF FaultWoke, ParkForFault, GoTo, notifyVars, ipcVars, bootVars
  <2>2. /\ StateType(st) /\ st[t] \in {"Runnable", "Blocked"}
        /\ \A v \in Slots \ {t} : st[v] = state[v]
    BY <1>2, <2>1, Tables, MarkedEffect
  <2> HIDE DEF st
  <2>3. state'[t] \in {"Runnable", "Blocked"} /\ space'[t] = space[t]
    BY <2>1, <2>2, EntryAfter
  <2>4. SettledTask(t)'
    BY <1>0, <2>1, <2>3 DEF SettledTask, Unarmed, CodeOf, NoEntry, Answered, SendCall
  <2>5. \A v \in Slots \ {t} : Spared(v)
    BY <2>1 DEF Spared
  <2> QED BY <2>1, <2>2, <2>4, <2>5, OnlyMoves
<1> QED BY <1>3, <1>4, <1>5, <1>6, <1>7 DEF Resume

(* A task that stops is disarmed, and abandon clears its entry and leases. *)
LEMMA DepartureSettled ==
  ASSUME AllTyped, Settled, NEW t \in Slots, InUser(t), NEW st,
         StateType(st),
         \A v \in Slots \ {t} : st[v] = state[v] \/ (state[v] = "Blocked" /\ st[v] = "Runnable"),
         Abandon(t), SwitchToNext(st), GoTo(t, "gone"),
         UNCHANGED <<notifyVars, superVars, owed>>
  PROVE  Settled'
<1>1. wanted[t] = {} /\ ~faultWaiters[t]
  BY CallerSettled
<1>2. /\ UNCHANGED <<posted, wanted, faultWaiters, owed>>
      /\ pc'[t] = "gone" /\ pending'[t] = NoPending /\ leaseCount'[t] = 0
      /\ \A v \in Slots \ {t} : pc'[v] = pc[v] /\ pending'[v] \in {pending[v], NoPending}
                                /\ leaseCount'[v] \in {leaseCount[v], 0}
  BY Tables DEF Abandon, GoTo, notifyVars, superVars
<1>3. SettledTask(t)'
  BY <1>1, <1>2 DEF SettledTask, Unarmed, CodeOf, NoEntry, Answered, SendCall
<1>4. \A v \in Slots \ {t} : Spared(v)
  BY <1>2 DEF Spared
<1> QED BY <1>3, <1>4, OnlyMoves

(* Exits and faults keep all tasks settled. *)
LEMMA EndSettled ==
  ASSUME AllTyped, Settled, NEW t \in Slots, Exit(t) \/ Fault(t)
  PROVE  Settled'
<1>1. InUser(t) /\ t # KernelThread
  BY CallerSettled DEF Exit, Fault, ExitCurrent, FaultCurrent
<1>2. CASE Exit(t)
  <2> DEFINE marked == [state EXCEPT ![t] = "Zombie"]
             st == StateAfterAbandon(marked, t)
  <2>1. StateType(marked) /\ \A v \in Slots \ {t} : marked[v] = state[v]
    BY <1>1, Tables DEF StateType, States
  <2>2. /\ StateType(st)
        /\ \A v \in Slots \ {t} : st[v] = state[v] \/ (state[v] = "Blocked" /\ st[v] = "Runnable")
    <3> HIDE DEF marked
    <3>1. /\ StateType(Woken(marked, WaitingOn(t)))
          /\ \A v \in Slots : Woken(marked, WaitingOn(t))[v] =
               IF v \in WaitingOn(t) /\ marked[v] = "Blocked" THEN "Runnable" ELSE marked[v]
      BY <2>1, WokenEffect
    <3>2. st = Woken(marked, WaitingOn(t))
      BY DEF StateAfterAbandon
    <3> HIDE DEF st
    <3> QED BY <2>1, <3>1, <3>2
  <2> HIDE DEF st
  <2>3. /\ Abandon(t) /\ SwitchToNext(st) /\ GoTo(t, "gone")
        /\ UNCHANGED <<notifyVars, superVars, owed>>
    BY <1>2 DEF Exit, ExitCurrent, bootVars, st
  <2> QED BY <1>1, <2>2, <2>3, DepartureSettled
<1>3. CASE Fault(t)
  <2> DEFINE marked == [state EXCEPT ![t] = "Faulted"]
             told == Woken(StateAfterAbandon(marked, t), {s \in Slots : faultWaiters[s]})
  <2>1. StateType(marked) /\ \A v \in Slots \ {t} : marked[v] = state[v]
    BY <1>1, Tables DEF StateType, States
  <2>2. /\ StateType(told)
        /\ \A v \in Slots \ {t} : told[v] = state[v] \/ (state[v] = "Blocked" /\ told[v] = "Runnable")
    <3> HIDE DEF marked
    <3>1. /\ StateType(StateAfterAbandon(marked, t))
          /\ \A v \in Slots : StateAfterAbandon(marked, t)[v] =
               IF v \in WaitingOn(t) /\ marked[v] = "Blocked" THEN "Runnable" ELSE marked[v]
      BY <2>1, WokenEffect DEF StateAfterAbandon
    <3> DEFINE S == {s \in Slots : faultWaiters[s]}
    <3> HIDE DEF S
    <3>2. /\ StateType(Woken(StateAfterAbandon(marked, t), S))
          /\ \A v \in Slots : Woken(StateAfterAbandon(marked, t), S)[v] =
               IF v \in S /\ StateAfterAbandon(marked, t)[v] = "Blocked"
               THEN "Runnable" ELSE StateAfterAbandon(marked, t)[v]
      BY <3>1, WokenEffect
    <3>3. told = Woken(StateAfterAbandon(marked, t), S)
      BY DEF S
    <3> HIDE DEF told
    <3> QED BY <2>1, <3>1, <3>2, <3>3
  <2>3. /\ Abandon(t) /\ SwitchToNext(told) /\ GoTo(t, "gone")
        /\ UNCHANGED <<notifyVars, superVars, owed>>
    BY <1>3 DEF Fault, FaultCurrent
  <2> HIDE DEF told
  <2> QED BY <1>1, <2>2, <2>3, DepartureSettled
<1> QED BY <1>2, <1>3

(* The supervisor's wait, and a restart, live or not, of any task *)
LEMMA SuperviseSettled ==
  ASSUME AllTyped, Settled, NEW t \in Slots, Supervise(t)
  PROVE  Settled'
<1>0. UNCHANGED bootVars
  BY DEF Supervise
<1>1. CASE FaultWait(t)
  <2>1. t # KernelThread /\ state[t] = "Runnable" /\ space[t] /\ wanted[t] = {}
    BY <1>1, CallerSettled DEF FaultWait
  <2>2. /\ UNCHANGED <<posted, wanted, pending, leaseCount, owed>>
        /\ SwitchToNext(Marked(state, t)) /\ pc'[t] = "faultPark"
        /\ \A v \in Slots \ {t} : pc'[v] = pc[v] /\ faultWaiters'[v] = faultWaiters[v]
    BY <1>0, <1>1, Tables DEF FaultWait, ParkForFault, GoTo, notifyVars, ipcVars, bootVars
  <2>3. /\ StateType(Marked(state, t))
        /\ \A v \in Slots : Marked(state, t)[v] = IF v = t THEN "Blocked" ELSE state[v]
    BY <2>1, Tables, MarkedEffect
  <2> HIDE DEF Marked
  <2>4. state'[t] = "Blocked" /\ space'[t] = space[t]
    BY <2>2, <2>3, EntryAfter
  <2>5. SettledTask(t)'
    BY <2>1, <2>2, <2>4 DEF SettledTask, Unarmed, CodeOf, NoEntry, Answered, SendCall
  <2>6. \A v \in Slots \ {t} : Spared(v)
    BY <2>2 DEF Spared
  <2> QED BY <2>2, <2>3, <2>5, <2>6, OnlyMoves
<1>2. ASSUME NEW s \in Slots, Restart(t, s) PROVE Settled'
  <2> DEFINE st == StateAfterAbandon(state, s)
             back == st[s] = "Faulted" /\ image[s]
  <2>1. /\ StateType(st)
        /\ \A v \in Slots : st[v] = state[v] \/ (state[v] = "Blocked" /\ st[v] = "Runnable")
    BY Tables, WokenEffect DEF StateAfterAbandon
  <2> HIDE DEF st
  <2>2. /\ UNCHANGED <<posted, wanted, faultWaiters, owed, current>>
        /\ state' = IF back THEN [st EXCEPT ![s] = "Runnable"] ELSE st
        /\ space' = IF back THEN [space EXCEPT ![s] = TRUE] ELSE space
        /\ pc' = IF back THEN [pc EXCEPT ![s] = "start"] ELSE pc
    BY <1>0, <1>2 DEF Restart, notifyVars, superVars, bootVars, st
  <2>3. /\ pending'[s] = NoPending /\ leaseCount'[s] = 0
        /\ \A v \in Slots : pending'[v] \in {pending[v], NoPending} /\ leaseCount'[v] \in {leaseCount[v], 0}
    BY <1>2, Tables DEF Restart, Abandon
  <2>4. ASSUME NEW v \in Slots, ~(v = s /\ back) PROVE SettledTask(v)'
    <3>1. pc'[v] = pc[v] /\ space'[v] = space[v] /\ state'[v] = st[v]
      BY <2>1, <2>2, <2>4, Tables DEF StateType
    <3>2. Steady(v)
      BY <2>1, <2>2, <2>3, <3>1 DEF Steady, Ended
    <3> QED BY <3>2, SteadySettled DEF Settled
  <2>5. CASE back
    <3>1. state[s] = "Faulted"
      BY <2>1, <2>5 DEF back
    <3>2. wanted[s] = {} /\ ~faultWaiters[s]
      BY <3>1 DEF Settled, SettledTask, Unarmed, CodeOf
    <3>3. state'[s] = "Runnable" /\ pc'[s] = "start"
      BY <2>1, <2>2, <2>5, Tables DEF StateType
    <3>4. SettledTask(s)'
      BY <2>2, <2>3, <3>2, <3>3 DEF SettledTask, Unarmed, CodeOf, NoEntry, Answered, SendCall
    <3> QED BY <2>4, <3>4 DEF Settled
  <2> QED BY <2>4, <2>5 DEF Settled
<1> QED BY <1>1, <1>2 DEF Supervise

(* A step that moves nobody's call and nobody's entry *)
LEMMA TableSettled ==
  ASSUME AllTyped, Settled, NEW st, StateType(st), SwitchToNext(st) \/ StayOn(st),
         \A v \in Slots : Spared(v) /\ (st[v] = state[v] \/ (state[v] = "Blocked" /\ st[v] = "Runnable"))
  PROVE  Settled'
BY SparedSteady, SteadySettled DEF Settled

(* A yield keeps all tasks settled. *)
LEMMA YieldSettled ==
  ASSUME AllTyped, Settled, NEW t, Yield(t)
  PROVE  Settled'
<1>1. \A v \in Slots : Spared(v)
  BY DEF Yield, YieldNow, Spared, notifyVars, ipcVars, superVars, bootVars
<1> QED BY <1>1, Tables, TableSettled DEF Yield, YieldNow

(* Kernel tasks blocking, waking each other and ending *)
LEMMA KernelTaskSettled ==
  ASSUME AllTyped, Settled, NEW t \in Slots, KernelTask(t)
  PROVE  Settled'
<1>0. UNCHANGED <<bootVars, notifyVars, faultWaiters>>
  BY DEF KernelTask, TaskFinished, FinishLook, FinishWake, FinishLeave, superVars
<1>1. CASE BlockCurrent(t) /\ UNCHANGED <<ipcVars, superVars>>
  <2>1. t # KernelThread /\ pc[t] = "run" /\ ~space[t]
    BY <1>1 DEF BlockCurrent, InKernelThread, Running
  <2>2. /\ SwitchToNext(Marked(state, t)) /\ pc'[t] = "blockPark"
        /\ UNCHANGED <<posted, wanted, pending, leaseCount, faultWaiters, owed>>
        /\ \A v \in Slots \ {t} : pc'[v] = pc[v]
    BY <1>0, <1>1, Tables DEF BlockCurrent, GoTo, notifyVars, ipcVars, bootVars
  <2>3. /\ StateType(Marked(state, t))
        /\ \A v \in Slots : Marked(state, t)[v] = IF v = t THEN "Blocked" ELSE state[v]
    BY <2>1, Tables, MarkedEffect
  <2> HIDE DEF Marked
  <2>4. state'[t] = "Blocked" /\ space'[t] = space[t]
    BY <2>2, <2>3, EntryAfter
  <2>5. SettledTask(t)'
    BY <2>1, <2>2, <2>4 DEF Settled, SettledTask, Unarmed, CodeOf, NoEntry, Answered, SendCall
  <2>6. \A v \in Slots \ {t} : Spared(v)
    BY <2>2 DEF Spared
  <2> QED BY <2>2, <2>3, <2>5, <2>6, OnlyMoves
<1>2. ASSUME NEW s \in Slots, Unblock(t, s), UNCHANGED <<ipcVars, superVars>> PROVE Settled'
  <2>1. PICK st : /\ StateType(st) /\ (SwitchToNext(st) \/ StayOn(st))
                  /\ \A v \in Slots : st[v] = state[v] \/ (state[v] = "Blocked" /\ st[v] = "Runnable")
    BY <1>2, WakesIn DEF Unblock
  <2>2. \A v \in Slots : Spared(v)
    BY <1>0, <1>2 DEF Unblock, Spared, notifyVars, ipcVars, superVars, bootVars
  <2> QED BY <2>1, <2>2, TableSettled
<1>3. CASE TaskFinished(t)
  <2>1. /\ t # KernelThread /\ ~space[t] /\ pc[t] = "run"
        /\ state' = [state EXCEPT ![t] = "Zombie"] /\ UNCHANGED <<space, current>>
        /\ UNCHANGED <<posted, wanted, pending, leaseCount, faultWaiters, owed>>
        /\ pc'[t] = "finish" /\ \A v \in Slots \ {t} : pc'[v] = pc[v]
    BY <1>0, <1>3, Tables DEF TaskFinished, InKernelThread, Running, GoTo, notifyVars, ipcVars,
                              bootVars
  <2>2. StateType(state') /\ StayOn(state')
    BY <2>1, Tables DEF StateType, States, StayOn
  <2>3. SettledTask(t)'
    BY <2>1 DEF Settled, SettledTask, Unarmed, CodeOf, NoEntry, Answered, SendCall
  <2>4. \A v \in Slots \ {t} : Spared(v) /\ state'[v] = state[v]
    BY <2>1, Tables DEF Spared, StateType
  <2> QED BY <2>2, <2>3, <2>4, OnlyMoves
<1>4. CASE FinishLook(t)
  <2>1. UNCHANGED schedVars /\ StayOn(state)
    BY <1>4 DEF FinishLook, schedVars, StayOn
  <2>2. \A v \in Slots : /\ pending'[v] \in {pending[v], NoPending}
                         /\ leaseCount'[v] \in {leaseCount[v], 0}
    BY <1>4, Tables DEF FinishLook, DeliverOutcome, ipcVars
  <2>3. \A v \in Slots : Spared(v)
    BY <1>0, <2>1, <2>2 DEF Spared, schedVars, notifyVars, bootVars
  <2> QED BY <2>1, <2>3, Tables, TableSettled
<1>5. CASE FinishWake(t)
  <2>1. /\ state' = Woken(state, {cursor \div 2}) /\ UNCHANGED <<space, current, pc, ipcVars>>
    BY <1>5 DEF FinishWake
  <2>2. /\ StateType(state') /\ StayOn(state')
        /\ \A v \in Slots : state'[v] = state[v] \/ (state[v] = "Blocked" /\ state'[v] = "Runnable")
    BY <2>1, Tables, WokenEffect DEF StayOn
  <2>3. \A v \in Slots : Spared(v)
    BY <1>0, <2>1 DEF Spared, notifyVars, ipcVars, bootVars
  <2> QED BY <2>2, <2>3, TableSettled
<1>6. CASE FinishLeave(t)
  <2>1. /\ SwitchToNext(state) /\ pc[t] = "finish" /\ pc'[t] = "gone"
        /\ pending'[t] = NoPending /\ leaseCount'[t] = 0
        /\ UNCHANGED <<posted, wanted, faultWaiters, owed>>
        /\ \A v \in Slots \ {t} :
             pc'[v] = pc[v] /\ pending'[v] = pending[v] /\ leaseCount'[v] = leaseCount[v]
    BY <1>0, <1>6, Tables DEF FinishLeave, Finishing, GoTo, notifyVars, bootVars
  <2>2. SettledTask(t)'
    BY <2>1 DEF Settled, SettledTask, Unarmed, CodeOf, NoEntry, Answered, SendCall
  <2>3. \A v \in Slots \ {t} : Spared(v)
    BY <2>1 DEF Spared
  <2> QED BY <2>1, <2>2, <2>3, Tables, OnlyMoves
<1> QED BY <1>1, <1>2, <1>3, <1>4, <1>5, <1>6 DEF KernelTask

(* The boot thread is never in a call, whatever it is doing in the kernel. *)
LEMMA BootThreadSettled ==
  ASSUME AllTyped, Settled, state'[KernelThread] = "Runnable",
  space'[KernelThread] = space[KernelThread],
         pc'[KernelThread] \in {"run", "image"} \cup Posting,
         UNCHANGED <<wanted, faultWaiters, pending, leaseCount>>
  PROVE  SettledTask(KernelThread)'
<1>1. pc[KernelThread] \in {"run", "image"} \cup Posting /\ ~space[KernelThread]
  BY DEF AllTyped, RestTyped, SchedTyped
<1> QED BY <1>1, SlotFacts DEF Settled, SettledTask, Unarmed, CodeOf, NoEntry, Answered,
                               SendCall, Posting

(* The sections of post: whoever the bits are meant for is either owed them *)
(* or awake.                                                                *)
LEMMA PostSettled ==
  ASSUME AllTyped, Settled, PostStep
  PROVE  Settled'
<1>1. /\ UNCHANGED <<space, current, wanted, faultWaiters, pending, leaseCount>>
      /\ pc' = [pc EXCEPT ![KernelThread] = pc'[KernelThread]]
      /\ pc'[KernelThread] \in {"run", "image"} \cup Posting
  BY Tables, SlotFacts
     DEF PostStep, BootPost, BootPostLook, BootPostWake, BootPostAsk, PostBits, PostLook, PostWake,
         PostAsk, GoTo, Posting, notifyVars, ipcVars, superVars, bootVars
<1>2. ASSUME NEW s \in Slots
      PROVE  /\ state'[s] = state[s] \/ (state[s] = "Blocked" /\ state'[s] = "Runnable")
             /\ state'[s] = "Blocked" /\ posted[s] \cap wanted[s] \subseteq owed[s] =>
                  posted'[s] \cap wanted[s] \subseteq owed'[s]
  <2>1. CASE BootPost
    BY <2>1, Tables DEF BootPost, PostBits, PostedTo
  <2>2. CASE BootPostLook
    <3>1. PICK u \in Slots : /\ PostLook(u, owed[u])
                             /\ owed' = IF WakesOn(u, owed[u]) THEN owed ELSE [owed EXCEPT ![u] = {}]
      BY <2>2 DEF BootPostLook
    <3>2. UNCHANGED <<state, posted>>
      BY <3>1 DEF PostLook, notifyVars
    <3>3. owed'[s] = owed[s] \/ (s = u /\ owed'[s] = {} /\ wanted[s] \cap owed[s] = {})
      BY <3>1, Tables DEF WakesOn
    <3> QED BY <3>2, <3>3
  <2>3. CASE BootPostWake
    <3>1. PICK u \in Slots : PostWake(u) /\ owed' = [owed EXCEPT ![u] = {}]
      BY <2>3 DEF BootPostWake
    <3>2. /\ UNCHANGED posted
          /\ state'[s] = IF s \in {u} /\ state[s] = "Blocked" THEN "Runnable" ELSE state[s]
      BY <3>1, Tables, WokenEffect DEF PostWake, notifyVars
    <3>3. s # u => owed'[s] = owed[s]
      BY <3>1, Tables
    <3> QED BY <3>2, <3>3
  <2>4. CASE BootPostAsk
    BY <2>4 DEF BootPostAsk, PostAsk, notifyVars, bootVars
  <2> QED BY <2>1, <2>2, <2>3, <2>4 DEF PostStep
<1>3. SettledTask(KernelThread)'
  BY <1>1, <1>2, Tables, SlotFacts, BootThreadSettled DEF StateType
<1>4. ASSUME NEW s \in Slots \ {KernelThread} PROVE SettledTask(s)'
  <2>1. pc'[s] = pc[s]
    BY <1>1, Tables
  <2>2. Steady(s)
    BY <1>1, <1>2, <2>1 DEF Steady, Ended
  <2> QED BY <2>2, SteadySettled DEF Settled
<1> QED BY <1>3, <1>4 DEF Settled

(* A new task starts in an empty slot, whose last owner left nothing. *)
LEMMA SpawnSettled ==
  ASSUME AllTyped, Settled, NEW p, NEW k, Spawn(p, k)
  PROVE  Settled'
<1>1. PICK f \in Slots : f = FreeSlot /\ state[f] = "None" /\ f # KernelThread
  BY FreeSlotFound, Tables DEF Spawn, SpawnIn, StateType
<1>2. /\ state' = [state EXCEPT ![f] = "Runnable"] /\ space' = [space EXCEPT ![f] = (k = "user")]
      /\ pc' = [pc EXCEPT ![f] = "start", ![KernelThread] = IF k = "user" THEN "image" ELSE "run"]
      /\ UNCHANGED <<wanted, posted, faultWaiters, pending, leaseCount, owed>>
  BY <1>1 DEF Spawn, SpawnIn, notifyVars, ipcVars, superVars
<1>3. pc[f] \in {"gone", "finish"}
  BY <1>1 DEF Settled, SettledTask, CodeOf
<1>4. /\ pending[f] = NoPending /\ leaseCount[f] = 0 /\ wanted[f] = {} /\ ~faultWaiters[f]
  BY <1>1, <1>3 DEF Settled, SettledTask, Unarmed, CodeOf, NoEntry
<1>5. /\ state'[f] = "Runnable" /\ pc'[f] = "start" /\ state'[KernelThread] = "Runnable"
      /\ space'[KernelThread] = space[KernelThread] /\ pc'[KernelThread] \in {"run", "image"}
      /\ \A v \in Slots \ {f, KernelThread} :
           state'[v] = state[v] /\ space'[v] = space[v] /\ pc'[v] = pc[v]
  BY <1>1, <1>2, Tables, SlotFacts DEF StateType
<1>6. SettledTask(f)'
  BY <1>2, <1>4, <1>5 DEF SettledTask, Unarmed, CodeOf, NoEntry, Answered, SendCall
<1>7. SettledTask(KernelThread)'
  BY <1>2, <1>5, BootThreadSettled
<1>8. ASSUME NEW v \in Slots \ {f, KernelThread} PROVE SettledTask(v)'
  BY <1>2, <1>5, SteadySettled DEF Steady, Settled
<1> QED BY <1>6, <1>7, <1>8 DEF Settled

(* Reaping, releasing and killing touch only tasks past their last call. *)
LEMMA CleanUpSettled ==
  ASSUME AllTyped, Settled, CleanUp
  PROVE  Settled'
<1>0. UNCHANGED <<wanted, posted, faultWaiters, pending, leaseCount, owed>>
  BY DEF CleanUp, notifyVars, ipcVars, superVars, bootVars
<1> SUFFICES ASSUME NEW s \in Slots PROVE SettledTask(s)'
  BY DEF Settled
<1>1. CASE ReapZombies
  <2>1. /\ state'[s] = IF s \in Reapable(state, current) THEN "Dead" ELSE state[s]
        /\ pc' = pc
        /\ s \in Reapable(state, current) => state[s] = "Zombie"
    BY <1>1 DEF ReapZombies, Reaped, Reapable
  <2>2. space'[s] = (space[s] /\ s \notin Reapable(state, current))
    BY <1>1, Zenon DEF ReapZombies, SpaceAfterReap
  <2>3. space[s] \in BOOLEAN
    BY Tables
  <2>4. s \notin Reapable(state, current) => space'[s] = space[s]
    <3>1. CASE space[s] = TRUE
      BY <2>2, <3>1, Zenon
    <3>2. CASE space[s] = FALSE
      BY <2>2, <3>2, Zenon
    <3> QED BY <2>3, <3>1, <3>2
  <2>5. s \in Reapable(state, current) => ~space'[s]
    BY <2>2, Zenon
  <2>6. Steady(s)
    BY <1>0, <2>1, <2>4, <2>5 DEF Steady, Ended
  <2> QED BY <2>6, SteadySettled DEF Settled
<1>2. CASE ReleaseDead
  <2> DEFINE dead == {v \in Slots \ {current} : state[v] = "Dead"}
  <2>1. /\ state'[s] = IF s \in dead THEN "None" ELSE state[s]
        /\ pc'[s] = IF s \in dead THEN "gone" ELSE pc[s]
        /\ space' = space
    BY <1>2 DEF ReleaseDead
  <2>2. CASE s \in dead
    <3>1. state[s] = "Dead"
      BY <2>2
    <3>2. pc[s] \in {"gone", "finish"}
      BY <3>1 DEF Settled, SettledTask, CodeOf
    <3>3. wanted[s] = {} /\ ~faultWaiters[s] /\ pending[s] = NoPending /\ leaseCount[s] = 0
      BY <3>2 DEF Settled, SettledTask, Unarmed, CodeOf, NoEntry
    <3> QED BY <1>0, <2>1, <2>2, <3>3 DEF SettledTask, Unarmed, CodeOf, NoEntry, Answered, SendCall
  <2>3. CASE s \notin dead
    BY <1>0, <2>1, <2>3, SteadySettled DEF Steady, Settled
  <2> QED BY <2>2, <2>3
<1>3. ASSUME NEW u \in Slots, Kill(u) PROVE SettledTask(s)'
  <2>1. /\ state'[s] = state[s] \/ (state[s] = "Faulted" /\ state'[s] = "Zombie")
        /\ UNCHANGED <<pc, space>>
    BY <1>3, Tables DEF Kill, StateType
  <2>2. Steady(s)
    BY <1>0, <2>1 DEF Steady, Ended
  <2> QED BY <2>2, SteadySettled DEF Settled
<1> QED BY <1>1, <1>2, <1>3 DEF CleanUp

(* The boot thread's other steps change no task's call. *)
LEMMA BootSettled ==
  ASSUME AllTyped, Settled, SpawnDone \/ BootRoute \/ Appoint
  PROVE  Settled'
<1>1. /\ UNCHANGED <<state, space, wanted, posted, faultWaiters, pending, leaseCount, owed>>
      /\ pc'[KernelThread] \in {"run", "image"} \cup Posting
      /\ \A v \in Slots \ {KernelThread} : pc'[v] = pc[v]
  BY Tables, SlotFacts
     DEF SpawnDone, RecordImage, GoTo, BootRoute, Route, Appoint, SetSupervisor, InKernelThread,
         Running,
         schedVars, notifyVars, ipcVars, superVars, bootVars
<1>2. SettledTask(KernelThread)'
  BY <1>1, Tables, BootThreadSettled DEF StateType
<1>3. ASSUME NEW v \in Slots \ {KernelThread} PROVE SettledTask(v)'
  BY <1>1, <1>3, SteadySettled DEF Steady, Settled
<1> QED BY <1>2, <1>3 DEF Settled

(* An interrupt posts and wakes in one masked section. *)
LEMMA InterruptSettled ==
  ASSUME AllTyped, Settled, NEW i \in IntIds, Interrupt(i)
  PROVE  Settled'
<1> DEFINE routed == Routed(i) # {}
           r == RouteOf(i)
           st == IF routed THEN StateAfterPost(r.task, r.bits) ELSE state
<1>1. /\ SwitchToNext(st) \/ StayOn(st)
      /\ posted' = IF routed THEN PostedTo(r.task, r.bits) ELSE posted
      /\ UNCHANGED <<pc, wanted, pending, leaseCount, faultWaiters, owed>>
  BY DEF Interrupt, Irq, ipcVars, superVars, bootVars
<1>2. routed => r.task \in Slots
  BY RouteFound DEF AllTyped, NotifyTyped, Routes
<1>3. /\ StateType(st)
      /\ \A v \in Slots : /\ st[v] = state[v] \/ (state[v] = "Blocked" /\ st[v] = "Runnable")
                          /\ st[v] = "Blocked" => posted'[v] \cap wanted[v] = posted[v] \cap wanted[v]
  <2> HIDE DEF r
  <2>1. CASE ~routed
    BY <1>1, <2>1, Tables
  <2>2. CASE routed
    <3>1. /\ StateType(Woken(state, {r.task}))
          /\ \A v \in Slots : Woken(state, {r.task})[v] =
               IF v \in {r.task} /\ state[v] = "Blocked" THEN "Runnable" ELSE state[v]
      BY Tables, WokenEffect
    <3>2. /\ StateType(st)
          /\ \A v \in Slots : st[v] = IF WakesOn(r.task, r.bits) /\ v = r.task /\ state[v] = "Blocked"
                                      THEN "Runnable" ELSE state[v]
      BY <2>2, <3>1, Tables DEF StateAfterPost
    <3>3. \A v \in Slots : v # r.task => posted'[v] = posted[v]
      BY <1>1, <1>2, <2>2, Tables DEF PostedTo
    <3>4. posted'[r.task] = posted[r.task] \cup r.bits
      BY <1>1, <1>2, <2>2, Tables DEF PostedTo
    <3>5. ~WakesOn(r.task, r.bits) =>
            posted'[r.task] \cap wanted[r.task] = posted[r.task] \cap wanted[r.task]
      BY <3>4 DEF WakesOn
    <3> HIDE DEF st
    <3> QED BY <3>2, <3>3, <3>5
  <2> QED BY <2>1, <2>2
<1> HIDE DEF st
<1>4. ASSUME NEW v \in Slots PROVE Steady(v)
  <2>1. /\ space'[v] = space[v] \/ (st[v] = "Zombie" /\ ~space'[v])
        /\ st[v] # "Zombie" => state'[v] = st[v]
        /\ st[v] = "Zombie" => state'[v] \in {"Zombie", "Dead"}
    BY <1>1, <1>3, EntryAfter
  <2> QED BY <1>1, <1>3, <2>1 DEF Steady, Ended
<1> QED BY <1>4, SteadySettled DEF Settled

-----------------------------------------------------------------------------
(* Nobody has made a call yet. *)
LEMMA SettledInit == Init => Settled
BY SlotFacts
   DEF Init, SchedInit, NotifyInit, IpcInit, SuperInit, Settled, SettledTask, Unarmed, CodeOf,
       NoEntry, Answered, SendCall

(* Every step of every kernel keeps all tasks settled. *)
LEMMA SettledStep == TypeInv /\ Settled /\ [Next]_vars => Settled'
<1> SUFFICES ASSUME AllTyped, Settled, [Next]_vars PROVE Settled'
  BY TypeInvParts
<1>1. ASSUME NEW t \in Slots,
             Syscall(t) \/ Resume(t) \/ Exit(t) \/ Fault(t) \/ Supervise(t) \/ Yield(t) \/ KernelTask(t)
      PROVE  Settled'
  BY <1>1, SyscallSettled, ResumeSettled, EndSettled, SuperviseSettled, YieldSettled,
      KernelTaskSettled
<1>2. ASSUME NEW p \in Priorities, NEW k \in Kinds, Spawn(p, k) PROVE Settled'
  BY <1>2, SpawnSettled
<1>3. CASE SpawnDone \/ CleanUp \/ BootRoute \/ Appoint \/ PostStep
  BY <1>3, BootSettled, CleanUpSettled, PostSettled
<1>4. ASSUME NEW i \in IntIds, Interrupt(i) PROVE Settled'
  BY <1>4, InterruptSettled
<1>5. CASE UNCHANGED vars
  BY <1>5 DEF vars, schedVars, notifyVars, ipcVars, superVars, bootVars, Settled, SettledTask,
              Unarmed, CodeOf, NoEntry, Answered
<1> QED BY <1>1, <1>2, <1>3, <1>4, <1>5 DEF Next, PostStep

(* So all tasks are settled in every reachable state of every kernel. *)
LEMMA SettledAlways == Spec => []Settled
BY SettledInit, SettledStep, TypeInvAlways, PTL DEF Spec

(***************************************************************************)
(* In every kernel, whoever posts and however the sections of the boot      *)
(* thread's post interleave with interrupts, other posts and the task's own *)
(* calls, nobody sleeps in recv on a bit already posted, except for the     *)
(* post that is still to look or about to wake.                             *)
(***************************************************************************)
THEOREM NoNotificationMissed == Spec => []NoMissedNotification
<1>1. Settled => NoMissedNotification
  BY DEF Settled, SettledTask, Answered, NoMissedNotification
<1> QED BY <1>1, SettledAlways, PTL

(***************************************************************************)
(* In every kernel a task that has not run yet inherits no entry, lease,    *)
(* fault wait or mask, even where a late wake of post ended a call of the   *)
(* slot's last owner early.                                                 *)
(***************************************************************************)
THEOREM FreshInstancesClean == Spec => []FreshInstanceIsClean
<1>1. Settled => FreshInstanceIsClean
  BY DEF Settled, SettledTask, Unarmed, NoEntry, FreshInstanceIsClean
<1> QED BY <1>1, SettledAlways, PTL

-----------------------------------------------------------------------------
(***************************************************************************)
(* The kernels IInv is an invariant of: spawned tasks all run at EL0, only  *)
(* stopped tasks are restarted, and a task does not send while the boot     *)
(* thread posts to it, so the late wake of post cannot end a send.          *)
(***************************************************************************)
UserKernel ==
  /\ Kinds \subseteq {"user"} /\ RestartsOnlyStopped
  /\ BootPosts => PostsOnlyToReceivers

TaskInv == \A t \in Slots : TaskConsistent(t)

(* The task table as the handler left it, st, after any reaping *)
SwitchedFrom(st) ==
  /\ \A s \in Slots : st[s] # "Zombie" => state'[s] = st[s] /\ space'[s] = space[s]
  /\ \A s \in Slots : st[s] = "Zombie" => state'[s] \in {"Zombie", "Dead"}

(* switch_to_next, or returning, starts from the table the handler left. *)
LEMMA HandedOver ==
  ASSUME AllTyped, NEW st, StateType(st), SwitchToNext(st) \/ StayOn(st)
  PROVE  SwitchedFrom(st)
<1>1. CASE SwitchToNext(st)
  BY <1>1, AllTypedPriority, SwitchEffect DEF SwitchedFrom, AllTyped, SchedTyped
<1>2. CASE StayOn(st)
  BY <1>2 DEF SwitchedFrom, StayOn
<1> QED BY <1>1, <1>2

(* The same for unblock, whose table has the woken task in it *)
LEMMA WokenOver ==
  ASSUME AllTyped, NEW st, StateType(st), NEW t, NEW w, WakeAndYield(st, t, w)
  PROVE  SwitchedFrom(Woken(st, {w}))
BY WokenEffect, HandedOver DEF WakeAndYield

(* Where a task is resumed tells what its state can be. *)
LEMMA PointOfState ==
  ASSUME AllTyped, TaskInv, NEW s \in Slots
  PROVE  /\ state[s] \in {"None", "Zombie", "Dead", "Faulted"} <=> pc[s] = "gone"
         /\ state[s] = "Blocked" => pc[s] \in SendCall \cup {"recvPark", "faultPark"}
         /\ pc[s] \notin {"finish", "blockPark"}
         /\ state[current] = "Runnable"
<1>1. ASSUME NEW t \in Slots
      PROVE  /\ state[t] \in {"None", "Zombie", "Dead", "Faulted"} <=> pc[t] = "gone"
             /\ state[t] = "Blocked" => pc[t] \in SendCall \cup {"recvPark", "faultPark"}
             /\ pc[t] \notin {"finish", "blockPark"}
  <2>1. TaskConsistent(t) /\ pc[t] \in Points
    BY DEF TaskInv, AllTyped, RestTyped
  <2> QED BY <2>1 DEF TaskConsistent, OutsideCalls, Stopped, InSend, InRecv, InFaultWait,
                      UserTasksOnly, SendCall, Points, Posting
<1>2. state[current] = "Runnable"
  BY <1>1 DEF AllTyped, SchedTyped, CurrentMayRun
<1> QED BY <1>1, <1>2

(* Steps that only move the CPU *)
LEMMA QuietConsistent ==
  ASSUME AllTyped, TaskInv, SwitchedFrom(state),
         UNCHANGED <<pc, ipcVars, faultWaiters, posted, wanted, spawned, owed>>
  PROVE  TaskInv'
<1> SUFFICES ASSUME NEW s \in Slots PROVE TaskConsistent(s)'
  BY DEF TaskInv
<1>1. TaskConsistent(s)
  BY DEF TaskInv
<1>2. UNCHANGED <<pc, pending, outcome, leaseCount, faultWaiters, posted, wanted, spawned, owed>>
  BY DEF ipcVars
<1>3. \A u \in Slots : state[u] # "Zombie" => state'[u] = state[u] /\ space'[u] = space[u]
  BY DEF SwitchedFrom
<1>4. \A u \in Slots : state[u] = "Zombie" => state'[u] \in {"Zombie", "Dead"}
  BY DEF SwitchedFrom
<1>5. OutsideCalls(s)' /\ Stopped(s)' /\ UserTasksOnly(s)'
  BY <1>1, <1>2, <1>3, <1>4 DEF TaskConsistent, OutsideCalls, Stopped, UserTasksOnly, NoTraces
<1>6. InSend(s)'
  BY <1>1, <1>2, <1>3 DEF TaskConsistent, InSend
<1>7. InRecv(s)'
  BY <1>1, <1>2, <1>3 DEF TaskConsistent, InRecv, QueuedFor
<1>8. InFaultWait(s)'
  BY <1>1, <1>2, <1>3, <1>4 DEF TaskConsistent, InFaultWait, FaultedTasks
<1> QED BY <1>5, <1>6, <1>7, <1>8 DEF TaskConsistent

(* The task making a system call has nothing pending. *)
LEMMA CallerFacts ==
  ASSUME AllTyped, TaskInv, NEW t \in Slots, InUser(t)
  PROVE  /\ t # KernelThread /\ current = t /\ pc[t] = "run" /\ state[t] = "Runnable"
         /\ space[t] /\ NoTraces(t)
<1>1. t # KernelThread /\ current = t /\ pc[t] = "run" /\ state[t] = "Runnable"
  BY InUserFacts DEF AllTyped
<1>2. TaskConsistent(t)
  BY DEF TaskInv
<1> QED BY <1>1, <1>2 DEF TaskConsistent, OutsideCalls, InUser

(* Only tasks asleep in the matching call have a pending entry. *)
LEMMA PendingFacts ==
  ASSUME AllTyped, TaskInv, NEW s \in Slots
  PROVE  /\ pending[s].kind = "RecvWait" =>
              /\ pc[s] = "recvPark" /\ pending[s] = RecvWait /\ outcome[s] = Zero
              /\ state[s] \in {"Runnable", "Blocked"} /\ space[s] /\ QueuedFor(s) = {}
              /\ ~faultWaiters[s] /\ leaseCount[s] = 0
         /\ pending[s].kind \in SendKinds =>
              /\ pc[s] \in SendCall /\ state[s] = "Blocked" /\ outcome[s] = Zero /\ space[s]
              /\ ~faultWaiters[s] /\ wanted[s] = {}
<1>1. TaskConsistent(s) /\ pc[s] \in Points
  BY DEF TaskInv, AllTyped, RestTyped
<1> QED BY <1>1 DEF TaskConsistent, OutsideCalls, Stopped, InSend, InRecv, InFaultWait,
                    UserTasksOnly, SendCall, SendKinds, Points, NoTraces, NoPending, RecvWait,
                    Posting

(* The scheduler's entry for s is as it was, but for reaping. *)
Undisturbed(s) ==
  /\ state[s] # "Zombie" => state'[s] = state[s] /\ space'[s] = space[s]
  /\ state[s] = "Zombie" => state'[s] \in {"Zombie", "Dead"}

(* Nothing a step writes belongs to s. *)
Untouched(s) ==
  /\ Undisturbed(s)
  /\ pc'[s] = pc[s] /\ pending'[s] = pending[s] /\ outcome'[s] = outcome[s]
  /\ leaseCount'[s] = leaseCount[s] /\ faultWaiters'[s] = faultWaiters[s]
  /\ wanted'[s] = wanted[s] /\ posted'[s] = posted[s] /\ owed'[s] = owed[s]
  /\ s = KernelThread => spawned' = spawned

(* A task a step does not touch stays consistent if what it waits on does. *)
LEMMA OtherConsistent ==
  ASSUME AllTyped, TaskInv, NEW s \in Slots, Untouched(s),
         pending[s].kind \in SendKinds => state'[pending[s].target] \in {"Runnable", "Blocked"},
         pending[s] = RecvWait => \A v \in Slots : pending'[v] # SendWait(s),
         outcome[s].kind = "message" => pending'[outcome[s].from] = pending[outcome[s].from],
         pc[s] = "faultPark" /\ state[s] = "Blocked" /\ FaultedTasks = {} => FaultedTasks' = {}
  PROVE  TaskConsistent(s)'
<1>1. TaskConsistent(s)
  BY DEF TaskInv
<1>2. OutsideCalls(s)' /\ Stopped(s)' /\ UserTasksOnly(s)'
  BY <1>1 DEF TaskConsistent, OutsideCalls, Stopped, UserTasksOnly, NoTraces,
              Untouched, Undisturbed
<1>3. InSend(s)'
  BY <1>1 DEF TaskConsistent, InSend, Untouched, Undisturbed
<1>4. InRecv(s)'
  BY <1>1, PendingShapes DEF TaskConsistent, InRecv, QueuedFor, Untouched, Undisturbed
<1>5. InFaultWait(s)'
  BY <1>1 DEF TaskConsistent, InFaultWait, Untouched, Undisturbed
<1> QED BY <1>2, <1>3, <1>4, <1>5 DEF TaskConsistent

(* Steps that fault nobody leave FaultedTasks empty if it was. *)
LEMMA NobodyFaults ==
  ASSUME \A v \in Slots : state'[v] # "Faulted" \/ state[v] = "Faulted", FaultedTasks = {}
  PROVE  FaultedTasks' = {}
BY DEF FaultedTasks

(* What InSend and InRecv say of the other tasks they mention *)
LEMMA PeerFacts ==
  ASSUME AllTyped, TaskInv, NEW s \in Slots
  PROVE  /\ pending[s].kind \in SendKinds =>
              /\ pending[s].target \in Slots \ {s}
              /\ state[pending[s].target] \in {"Runnable", "Blocked"}
         /\ outcome[s].kind = "message" =>
              /\ pc[s] = "recvPark" /\ outcome[s].from \in Slots
              /\ pending[outcome[s].from] = ReplyWait(s)
<1>1. TaskConsistent(s) /\ pc[s] \in Points
  BY DEF TaskInv, AllTyped, RestTyped
<1> QED BY <1>1, PendingShapes
        DEF TaskConsistent, OutsideCalls, Stopped, InSend, InRecv, InFaultWait,
            UserTasksOnly, SendCall, SendKinds, Points, NoTraces, Posting

(* send to a waiting receiver *)
LEMMA SendToReceiverConsistent ==
  ASSUME AllTyped, TaskInv, NEW t \in Slots, NEW u \in Slots, NEW n \in 0 .. MaxLeases,
         SendToReceiver(t, u, n), UNCHANGED <<superVars, bootVars>>
  PROVE  TaskInv'
<1> SUFFICES ASSUME NEW s \in Slots PROVE TaskConsistent(s)'
  BY DEF TaskInv
<1>2. /\ t # KernelThread /\ pc[t] = "run" /\ state[t] = "Runnable" /\ space[t] /\ NoTraces(t)
  BY CallerFacts DEF SendToReceiver
<1>3. /\ u # t /\ pc[u] = "recvPark" /\ pending[u] = RecvWait
      /\ state[u] \in {"Runnable", "Blocked"} /\ space[u] /\ ~faultWaiters[u]
      /\ leaseCount[u] = 0
  BY PendingFacts DEF SendToReceiver
<1>4. /\ pending \in [Slots -> Pendings] /\ outcome \in [Slots -> Outcomes]
      /\ leaseCount \in [Slots -> 0 .. MaxLeases] /\ pc \in [Slots -> Points]
  BY DEF AllTyped, IpcTyped, RestTyped
<1>5. /\ pending'[t] = ReplyWait(u) /\ pending'[u] = NoPending
      /\ \A v \in Slots \ {t, u} : pending'[v] = pending[v]
      /\ outcome'[u] = Message(t) /\ \A v \in Slots \ {u} : outcome'[v] = outcome[v]
      /\ \A v \in Slots \ {t} : leaseCount'[v] = leaseCount[v]
      /\ UNCHANGED <<posted, wanted, faultWaiters, spawned, owed>>
  BY <1>3, <1>4 DEF SendToReceiver, notifyVars, superVars, bootVars
<1>6. pc'[t] \in SendCall /\ \A v \in Slots \ {t} : pc'[v] = pc[v]
  BY <1>4 DEF SendToReceiver, GoTo, SendCall
<1>7. /\ state'[t] = "Blocked" /\ space'[t] = space[t]
      /\ state'[u] = "Runnable" /\ space'[u] = space[u]
      /\ \A v \in Slots \ {t, u} : Undisturbed(v)
  <2> DEFINE mk == Marked(state, t)
             st == Woken(mk, {u})
  <2>1. StateType(mk) /\ \A v \in Slots : mk[v] = IF v = t THEN "Blocked" ELSE state[v]
    BY <1>2, MarkedEffect DEF AllTyped, SchedTyped
  <2> HIDE DEF mk
  <2>2. /\ StateType(st)
        /\ \A v \in Slots : st[v] = IF v = u /\ mk[u] = "Blocked" THEN "Runnable" ELSE mk[v]
    BY <2>1, WokenEffect
  <2>3. SwitchToNext(st)
    BY DEF SendToReceiver, mk
  <2> HIDE DEF st
  <2>4. SwitchedFrom(st)
    BY <2>2, <2>3, HandedOver
  <2>5. st[t] = "Blocked" /\ st[u] = "Runnable" /\ \A v \in Slots \ {t, u} : st[v] = state[v]
    BY <2>1, <2>2, <1>3
  <2> QED BY <2>4, <2>5, <1>3 DEF SwitchedFrom, Undisturbed
<1>8. CASE s = t
  <2>0. pending'[t].kind = "ReplyWait" /\ pending'[t].target = u
    BY <1>5, PendingShapes
  <2>1. InSend(s)'
    BY <2>0, <1>2, <1>3, <1>5, <1>6, <1>7, <1>8 DEF InSend, NoTraces, SendKinds
  <2> QED BY <2>1, <1>6, <1>8 DEF TaskConsistent, OutsideCalls, Stopped, InRecv,
                                   InFaultWait, UserTasksOnly, SendCall, Posting
<1>9. CASE s = u
  <2>0. outcome'[u].kind = "message" /\ outcome'[u].from = t
    BY <1>5, PendingShapes
  <2>1. InRecv(s)'
    BY <2>0, <1>3, <1>5, <1>6, <1>7, <1>9 DEF InRecv
  <2> QED BY <2>1, <1>3, <1>6, <1>9 DEF TaskConsistent, OutsideCalls, Stopped, InSend,
                                   InFaultWait, UserTasksOnly, SendCall, Posting
<1>10. CASE s \notin {t, u}
  <2>1. Untouched(s)
    BY <1>5, <1>6, <1>7, <1>10 DEF Untouched
  <2>2. pending[s].kind \in SendKinds => state'[pending[s].target] \in {"Runnable", "Blocked"}
    BY <1>7, PeerFacts DEF Undisturbed
  <2>3. \A v \in Slots : pending[s] = RecvWait => pending'[v] # SendWait(s)
    BY <1>5, PendingFacts, PendingShapes DEF QueuedFor
  <2>4. outcome[s].kind = "message" => pending'[outcome[s].from] = pending[outcome[s].from]
    BY <1>2, <1>3, <1>5, PeerFacts, PendingShapes DEF NoTraces
  <2>5. FaultedTasks = {} => FaultedTasks' = {}
    BY <1>7, NobodyFaults DEF Undisturbed
  <2> QED BY <2>1, <2>2, <2>3, <2>4, <2>5, OtherConsistent
<1> QED BY <1>8, <1>9, <1>10

(* The task table after a task parks itself *)
LEMMA ParkedTable ==
  ASSUME AllTyped, NEW t \in Slots, t # KernelThread, state[t] = "Runnable",
         SwitchToNext(Marked(state, t))
  PROVE  /\ state'[t] = "Blocked" /\ space'[t] = space[t]
         /\ \A v \in Slots \ {t} : Undisturbed(v)
<1>1. StateType(Marked(state, t))
      /\ \A v \in Slots : Marked(state, t)[v] = IF v = t THEN "Blocked" ELSE state[v]
  BY MarkedEffect DEF AllTyped, SchedTyped
<1>2. SwitchedFrom(Marked(state, t))
  BY <1>1, HandedOver
<1> QED BY <1>1, <1>2 DEF SwitchedFrom, Undisturbed

(* A step that touches only t, and only as listed, keeps the others consistent. *)
LEMMA OthersConsistent ==
  ASSUME AllTyped, TaskInv, NEW t \in Slots, NEW s \in Slots, s # t,
         \A v \in Slots \ {t} : Untouched(v),
         \/ state'[t] \in {"Runnable", "Blocked"}
         \/ \A v \in Slots : pending[v].kind \in SendKinds => pending[v].target # t,
         \A v \in Slots : pending[v] = RecvWait => pending'[t] # SendWait(v),
         pending[t].kind \notin SendKinds,
         state'[t] # "Faulted"
  PROVE  TaskConsistent(s)'
<1>1. pending[s].kind \in SendKinds => state'[pending[s].target] \in {"Runnable", "Blocked"}
  BY PeerFacts DEF Untouched, Undisturbed
<1>2. \A v \in Slots : pending[s] = RecvWait => pending'[v] # SendWait(s)
  BY PendingFacts, PendingShapes DEF QueuedFor, Untouched
<1>3. outcome[s].kind = "message" => pending'[outcome[s].from] = pending[outcome[s].from]
  BY PeerFacts, PendingShapes DEF SendKinds, Untouched
<1>4. FaultedTasks = {} => FaultedTasks' = {}
  BY NobodyFaults DEF Untouched, Undisturbed
<1> QED BY <1>1, <1>2, <1>3, <1>4, OtherConsistent

(* send with nobody listening *)
LEMMA SendAndQueueConsistent ==
  ASSUME AllTyped, TaskInv, NEW t \in Slots, NEW u \in Slots, NEW n \in 0 .. MaxLeases,
         SendAndQueue(t, u, n), UNCHANGED <<superVars, bootVars>>
  PROVE  TaskInv'
<1> SUFFICES ASSUME NEW s \in Slots PROVE TaskConsistent(s)'
  BY DEF TaskInv
<1>1. /\ t # KernelThread /\ pc[t] = "run" /\ state[t] = "Runnable" /\ space[t] /\ NoTraces(t)
  BY CallerFacts DEF SendAndQueue
<1>2. u # t /\ state[u] \in {"Runnable", "Blocked"} /\ pending[u].kind # "RecvWait"
  BY DEF SendAndQueue, IsAlive
<1>3. /\ pending \in [Slots -> Pendings] /\ pc \in [Slots -> Points]
      /\ leaseCount \in [Slots -> 0 .. MaxLeases]
  BY DEF AllTyped, IpcTyped, RestTyped
<1>4. /\ pending'[t] = SendWait(u) /\ \A v \in Slots \ {t} : pending'[v] = pending[v]
      /\ \A v \in Slots \ {t} : leaseCount'[v] = leaseCount[v]
      /\ pc'[t] = "sendPark" /\ \A v \in Slots \ {t} : pc'[v] = pc[v]
      /\ UNCHANGED <<outcome, posted, wanted, faultWaiters, spawned, owed>>
  BY <1>3 DEF SendAndQueue, GoTo, notifyVars, superVars, bootVars
<1>5. /\ state'[t] = "Blocked" /\ space'[t] = space[t]
      /\ \A v \in Slots \ {t} : Undisturbed(v)
  BY <1>1, ParkedTable DEF SendAndQueue
<1>6. CASE s = t
  <2>1. pending'[t].kind = "SendWait" /\ pending'[t].target = u
    BY <1>4, PendingShapes
  <2>2. state'[u] = state[u]
    BY <1>2, <1>5 DEF Undisturbed
  <2>3. InSend(s)'
    BY <1>1, <1>2, <1>4, <1>5, <1>6, <2>1, <2>2 DEF InSend, NoTraces, SendKinds
  <2> QED BY <2>3, <1>4, <1>6 DEF TaskConsistent, OutsideCalls, Stopped, InRecv,
                                   InFaultWait, UserTasksOnly, SendCall, Posting
<1>7. CASE s # t
  <2>1. \A v \in Slots \ {t} : Untouched(v)
    BY <1>4, <1>5, <1>1 DEF Untouched
  <2>2. \A v \in Slots : pending[v] = RecvWait => pending'[t] # SendWait(v)
    BY <1>2, <1>4, PendingShapes
  <2>3. pending[t].kind \notin SendKinds
    BY <1>1, PendingShapes DEF NoTraces, SendKinds
  <2> QED BY <1>5, <1>7, <2>1, <2>2, <2>3, OthersConsistent
<1> QED BY <1>6, <1>7

(* One turn of the loop in recv *)
LEMMA RecvTurnConsistent ==
  ASSUME AllTyped, TaskInv, NEW t \in Slots, t # KernelThread, state[t] = "Runnable",
         space[t], outcome[t] = Zero, leaseCount[t] = 0, ~faultWaiters[t],
         pending[t] \in {NoPending, RecvWait},
         NEW mask \in SUBSET Bits, RecvTurn(t, mask, NoPending), UNCHANGED <<superVars, bootVars>>
  PROVE  TaskInv'
<1> SUFFICES ASSUME NEW s \in Slots PROVE TaskConsistent(s)'
  BY DEF TaskInv
<1>1. UNCHANGED <<outcome, leaseCount, faultWaiters, spawned, owed>>
  BY DEF RecvTurn, superVars, bootVars
<1>2. /\ pending \in [Slots -> Pendings] /\ pc \in [Slots -> Points]
      /\ posted \in [Slots -> SUBSET Bits] /\ wanted \in [Slots -> SUBSET Bits]
  BY DEF AllTyped, IpcTyped, RestTyped, NotifyTyped
<1>3. pending[t].kind \notin SendKinds
  BY PendingShapes DEF SendKinds
<1>4. CASE CollectNotification(t, mask, NoPending)
  <2>1. /\ pending'[t] = NoPending /\ \A v \in Slots \ {t} : pending'[v] = pending[v]
        /\ wanted'[t] = {} /\ \A v \in Slots \ {t} : wanted'[v] = wanted[v] /\ posted'[v] = posted[v]
        /\ pc'[t] = "run" /\ \A v \in Slots \ {t} : pc'[v] = pc[v]
        /\ UNCHANGED <<state, space>>
    BY <1>2, <1>4 DEF CollectNotification, GoTo, StayOn
  <2>2. CASE s = t
    <3>1. OutsideCalls(s)'
      BY <1>1, <2>1, <2>2 DEF OutsideCalls, NoTraces, Posting
    <3> QED BY <3>1, <2>1, <2>2 DEF TaskConsistent, Stopped, InSend, InRecv, InFaultWait,
                                    UserTasksOnly, SendCall
  <2>3. CASE s # t
    <3>1. \A v \in Slots \ {t} : Untouched(v)
      BY <1>1, <2>1 DEF Untouched, Undisturbed
    <3>2. \A v \in Slots : pending'[t] # SendWait(v)
      BY <2>1, PendingShapes
    <3> QED BY <1>3, <2>1, <2>3, <3>1, <3>2, OthersConsistent
  <2> QED BY <2>2, <2>3
<1>5. CASE CollectMessage(t, mask, NoPending)
  <2> DEFINE b == BestSender(t)
  <2>1. b \in Slots /\ pending[b] = SendWait(t)
    BY <1>5, BestSenderFound, AllTypedPriority DEF CollectMessage, QueuedFor
  <2>2. b # t /\ pending[b].kind \in SendKinds
    BY <2>1, <1>3, PendingShapes DEF SendKinds
  <2>3. /\ pending'[t] = NoPending /\ pending'[b] = ReplyWait(t)
        /\ \A v \in Slots \ {t, b} : pending'[v] = pending[v]
        /\ wanted'[t] = {} /\ \A v \in Slots \ {t} : wanted'[v] = wanted[v]
        /\ pc'[t] = "run" /\ \A v \in Slots \ {t} : pc'[v] = pc[v]
        /\ UNCHANGED <<state, space, posted>>
    BY <1>2, <1>5, <2>1, <2>2 DEF CollectMessage, GoTo, StayOn
  <2> HIDE DEF b
  <2>4. CASE s = t
    <3>1. OutsideCalls(s)'
      BY <1>1, <2>3, <2>4 DEF OutsideCalls, NoTraces, Posting
    <3> QED BY <3>1, <2>3, <2>4 DEF TaskConsistent, Stopped, InSend, InRecv, InFaultWait,
                                    UserTasksOnly, SendCall
  <2>5. CASE s = b
    <3>1. pending'[b].kind = "ReplyWait" /\ pending'[b].target = t
      BY <2>3, PendingShapes
    <3>2. /\ pc[b] \in SendCall /\ state[b] = "Blocked" /\ outcome[b] = Zero /\ space[b]
          /\ ~faultWaiters[b] /\ wanted[b] = {}
      BY <2>1, <2>2, PendingFacts
    <3>3. InSend(s)'
      BY <1>1, <2>1, <2>2, <2>3, <2>5, <3>1, <3>2 DEF InSend, SendKinds
    <3> QED BY <3>2, <3>3, <2>1, <2>2, <2>3, <2>5
            DEF TaskConsistent, OutsideCalls, Stopped, InRecv, InFaultWait, UserTasksOnly,
                SendCall, Posting
  <2>6. CASE s \notin {t, b}
    <3>1. Untouched(s)
      BY <1>1, <2>3, <2>6 DEF Untouched, Undisturbed
    <3>2. pending[s].kind \in SendKinds => state'[pending[s].target] \in {"Runnable", "Blocked"}
      BY <2>3, PeerFacts
    <3>3. \A v \in Slots : pending[s] = RecvWait => pending'[v] # SendWait(s)
      BY <2>3, PendingFacts, PendingShapes DEF QueuedFor
    <3>4. outcome[s].kind = "message" => pending'[outcome[s].from] = pending[outcome[s].from]
      BY <1>3, <2>1, <2>3, PeerFacts, PendingShapes DEF SendKinds
    <3>5. FaultedTasks = {} => FaultedTasks' = {}
      BY <2>3, NobodyFaults
    <3> QED BY <3>1, <3>2, <3>3, <3>4, <3>5, OtherConsistent
  <2> QED BY <2>4, <2>5, <2>6
<1>6. CASE ParkInRecv(t, mask)
  <2>1. /\ pending'[t] = RecvWait /\ \A v \in Slots \ {t} : pending'[v] = pending[v]
        /\ wanted'[t] = mask /\ \A v \in Slots \ {t} : wanted'[v] = wanted[v]
        /\ pc'[t] = "recvPark" /\ \A v \in Slots \ {t} : pc'[v] = pc[v]
        /\ UNCHANGED posted /\ posted[t] \cap mask = {} /\ QueuedFor(t) = {}
    BY <1>2, <1>6 DEF ParkInRecv, GoTo
  <2>2. /\ state'[t] = "Blocked" /\ space'[t] = space[t]
        /\ \A v \in Slots \ {t} : Undisturbed(v)
    BY <1>6, ParkedTable DEF ParkInRecv
  <2>3. CASE s = t
    <3>1. \A v \in Slots : pending'[v] # SendWait(t)
      BY <2>1, PendingShapes DEF QueuedFor
    <3>2. InRecv(s)'
      BY <1>1, <2>1, <2>2, <2>3, <3>1 DEF InRecv, QueuedFor
    <3> QED BY <3>2, <2>1, <2>3 DEF TaskConsistent, OutsideCalls, Stopped, InSend, InFaultWait,
                                    UserTasksOnly, SendCall, Posting
  <2>4. CASE s # t
    <3>1. \A v \in Slots \ {t} : Untouched(v)
      BY <1>1, <2>1, <2>2 DEF Untouched
    <3>2. \A v \in Slots : pending'[t] # SendWait(v)
      BY <2>1, PendingShapes
    <3> QED BY <1>3, <2>2, <2>4, <3>1, <3>2, OthersConsistent
  <2> QED BY <2>3, <2>4
<1> QED BY <1>4, <1>5, <1>6 DEF RecvTurn

(* reply *)
LEMMA ReplyConsistent ==
  ASSUME AllTyped, TaskInv, NEW t \in Slots, NEW w \in Slots,
         Reply(t, w), UNCHANGED <<superVars, bootVars>>
  PROVE  TaskInv'
<1> SUFFICES ASSUME NEW s \in Slots PROVE TaskConsistent(s)'
  BY DEF TaskInv
<1>1. state[t] = "Runnable" /\ pc[t] = "run" /\ NoTraces(t)
  BY CallerFacts DEF Reply
<1>2. pending[w] = ReplyWait(t) /\ pending[w].kind \in SendKinds
  BY PendingShapes DEF Reply, SendKinds
<1>3. /\ pc[w] \in SendCall /\ state[w] = "Blocked" /\ space[w] /\ ~faultWaiters[w]
      /\ wanted[w] = {}
  BY <1>2, PendingFacts
<1>4. /\ pending \in [Slots -> Pendings] /\ outcome \in [Slots -> Outcomes]
      /\ leaseCount \in [Slots -> 0 .. MaxLeases]
  BY DEF AllTyped, IpcTyped
<1>5. /\ pending'[w] = NoPending /\ outcome'[w] = Answer(t) /\ leaseCount'[w] = 0
      /\ \A v \in Slots \ {w} : /\ pending'[v] = pending[v] /\ outcome'[v] = outcome[v]
                                /\ leaseCount'[v] = leaseCount[v]
      /\ UNCHANGED <<pc, posted, wanted, faultWaiters, spawned, owed>>
  BY <1>4 DEF Reply, DeliverOutcome, notifyVars, superVars, bootVars
<1>6. /\ state'[w] = "Runnable" /\ space'[w] = space[w]
      /\ \A v \in Slots \ {w} : Undisturbed(v)
  <2> DEFINE st == Woken(state, {w})
  <2>1. /\ StateType(state) /\ WakeAndYield(state, t, w)
        /\ \A v \in Slots : st[v] = IF v = w THEN "Runnable" ELSE state[v]
    BY <1>3, WokenEffect DEF AllTyped, SchedTyped, Reply
  <2>2. SwitchedFrom(st)
    BY <2>1, WokenOver
  <2> HIDE DEF st
  <2> QED BY <2>1, <2>2 DEF SwitchedFrom, Undisturbed
<1>7. CASE s = w
  <2>1. outcome'[w].kind = "reply"
    BY <1>5, PendingShapes
  <2>2. InSend(s)'
    BY <1>3, <1>5, <1>6, <1>7, <2>1 DEF InSend
  <2> QED BY <2>2, <1>3, <1>5, <1>7
          DEF TaskConsistent, OutsideCalls, Stopped, InRecv, InFaultWait, UserTasksOnly,
              SendCall, Posting
<1>8. CASE s # w
  <2>1. Untouched(s)
    BY <1>5, <1>6, <1>8 DEF Untouched
  <2>2. pending[s].kind \in SendKinds => state'[pending[s].target] \in {"Runnable", "Blocked"}
    BY <1>6, PeerFacts DEF Undisturbed
  <2>3. \A v \in Slots : pending[s] = RecvWait => pending'[v] # SendWait(s)
    BY <1>5, PendingFacts, PendingShapes DEF QueuedFor
  <2>4. outcome[s].kind = "message" => pending'[outcome[s].from] = pending[outcome[s].from]
    <3> SUFFICES ASSUME outcome[s].kind = "message", outcome[s].from = w PROVE FALSE
      BY <1>5, PeerFacts
    <3>1. pending[w] = ReplyWait(s)
      BY PeerFacts
    <3>2. s = t
      BY <3>1, <1>2 DEF ReplyWait
    <3> QED BY <3>2, <1>1, PendingShapes DEF NoTraces
  <2>5. FaultedTasks = {} => FaultedTasks' = {}
    BY <1>6, NobodyFaults DEF Undisturbed
  <2> QED BY <2>1, <2>2, <2>3, <2>4, <2>5, OtherConsistent
<1> QED BY <1>7, <1>8

(* The last lines of every call: back to EL0 with nothing left behind *)
LEMMA ReturnConsistent ==
  ASSUME AllTyped, TaskInv, NEW t \in Slots, t # KernelThread, state[t] = "Runnable", space[t],
         pending[t].kind \notin SendKinds,
         pc'[t] = "run", pending'[t] = NoPending, outcome'[t] = Zero, leaseCount'[t] = 0,
         ~faultWaiters'[t], wanted'[t] = {},
         \A v \in Slots \ {t} : Untouched(v), UNCHANGED <<state, space>>
  PROVE  TaskInv'
<1> SUFFICES ASSUME NEW s \in Slots PROVE TaskConsistent(s)'
  BY DEF TaskInv
<1>1. CASE s = t
  <2>1. OutsideCalls(s)'
    BY <1>1 DEF OutsideCalls, NoTraces, Posting
  <2> QED BY <1>1, <2>1 DEF TaskConsistent, Stopped, InSend, InRecv, InFaultWait,
                             UserTasksOnly, SendCall
<1>2. CASE s # t
  <2>1. \A v \in Slots : pending'[t] # SendWait(v)
    BY PendingShapes
  <2> QED BY <1>2, <2>1, OthersConsistent
<1> QED BY <1>1, <1>2

(* fault_wait parks its caller *)
LEMMA ParkForFaultConsistent ==
  ASSUME AllTyped, TaskInv, NEW t \in Slots, t # KernelThread, state[t] = "Runnable", space[t],
         pending[t] = NoPending, outcome[t] = Zero, leaseCount[t] = 0, wanted[t] = {},
         FaultedTasks = {}, ParkForFault(t),
         UNCHANGED <<notifyVars, ipcVars, bootVars>>
  PROVE  TaskInv'
<1> SUFFICES ASSUME NEW s \in Slots PROVE TaskConsistent(s)'
  BY DEF TaskInv
<1>1. faultWaiters \in [Slots -> BOOLEAN] /\ pc \in [Slots -> Points]
  BY DEF AllTyped, RestTyped, SuperTyped
<1>2. /\ faultWaiters'[t] /\ \A v \in Slots \ {t} : faultWaiters'[v] = faultWaiters[v]
      /\ pc'[t] = "faultPark" /\ \A v \in Slots \ {t} : pc'[v] = pc[v]
      /\ UNCHANGED <<pending, outcome, leaseCount, posted, wanted, spawned, owed>>
  BY <1>1 DEF ParkForFault, GoTo, notifyVars, ipcVars, bootVars
<1>3. /\ state'[t] = "Blocked" /\ space'[t] = space[t]
      /\ \A v \in Slots \ {t} : Undisturbed(v)
  BY ParkedTable DEF ParkForFault
<1>4. FaultedTasks' = {}
  BY <1>3, NobodyFaults DEF Undisturbed
<1>5. CASE s = t
  <2>1. InFaultWait(s)'
    BY <1>2, <1>3, <1>4, <1>5 DEF InFaultWait
  <2> QED BY <2>1, <1>2, <1>5 DEF TaskConsistent, OutsideCalls, Stopped, InSend, InRecv,
                                   UserTasksOnly, SendCall, Posting
<1>6. CASE s # t
  <2>1. \A v \in Slots \ {t} : Untouched(v)
    BY <1>2, <1>3 DEF Untouched
  <2>2. \A v \in Slots : pending'[t] # SendWait(v)
    BY <1>2, PendingShapes
  <2>3. pending[t].kind \notin SendKinds
    BY PendingShapes DEF SendKinds
  <2> QED BY <1>3, <1>6, <2>1, <2>2, <2>3, OthersConsistent
<1> QED BY <1>5, <1>6

(* What a task does when it is resumed inside the kernel *)
LEMMA ResumeConsistent ==
  ASSUME AllTyped, TaskInv, NEW t \in Slots, Resume(t)
  PROVE  TaskInv'
<1>0. TaskConsistent(t) /\ state[current] = "Runnable" /\ pc[t] # "blockPark"
  BY PointOfState DEF TaskInv
<1>1. /\ t # KernelThread /\ current = t /\ state[t] = "Runnable" /\ UNCHANGED bootVars
  BY <1>0 DEF AllTyped, RestTyped, Resume, Start, SendWoke, SendReturn, RecvReturn,
              RecvAgain, FaultWoke, BlockReturn, Posting
<1>2. /\ outcome \in [Slots -> Outcomes] /\ pc \in [Slots -> Points]
      /\ wanted \in [Slots -> SUBSET Bits] /\ faultWaiters \in [Slots -> BOOLEAN]
  BY DEF AllTyped, IpcTyped, RestTyped, NotifyTyped, SuperTyped
<1>3. NoPending.kind \notin SendKinds
  BY PendingShapes DEF SendKinds
<1>4. CASE Start(t) /\ UNCHANGED <<notifyVars, ipcVars, superVars, bootVars>>
  <2>1. space[t] /\ NoTraces(t)
    BY <1>0, <1>1, <1>4 DEF Start, TaskConsistent, OutsideCalls
  <2>2. /\ pc'[t] = "run" /\ \A v \in Slots \ {t} : pc'[v] = pc[v]
        /\ UNCHANGED <<state, space, pending, outcome, leaseCount, faultWaiters, posted, wanted, spawned, owed>>
    BY <1>2, <1>4 DEF Start, GoTo, notifyVars, ipcVars, superVars, bootVars
  <2>3. \A v \in Slots \ {t} : Untouched(v)
    BY <2>2 DEF Untouched, Undisturbed
  <2> QED BY <1>1, <1>3, <2>1, <2>2, <2>3, ReturnConsistent DEF NoTraces
<1>5. CASE (SendWoke(t) \/ SendReturn(t)) /\ UNCHANGED <<superVars, bootVars>>
  <2>1. pc[t] \in SendCall
    BY <1>5 DEF SendWoke, SendReturn, SendCall
  <2>2. /\ space[t] /\ ~faultWaiters[t] /\ wanted[t] = {}
        /\ pending[t] = NoPending /\ leaseCount[t] = 0
    BY <1>0, <1>1, <2>1 DEF TaskConsistent, InSend
  <2>3. /\ pc'[t] = "run" /\ \A v \in Slots \ {t} : pc'[v] = pc[v]
        /\ outcome'[t] = Zero /\ \A v \in Slots \ {t} : outcome'[v] = outcome[v]
        /\ UNCHANGED <<state, space, pending, leaseCount, faultWaiters, posted, wanted, spawned, owed>>
    BY <1>1, <1>2, <1>5 DEF SendWoke, SendReturn, TakeOutcome, StayOn, GoTo, notifyVars,
                            superVars, bootVars
  <2>4. \A v \in Slots \ {t} : Untouched(v)
    BY <2>3 DEF Untouched, Undisturbed
  <2> QED BY <1>1, <1>3, <2>2, <2>3, <2>4, ReturnConsistent
<1>6. CASE RecvReturn(t) /\ UNCHANGED <<superVars, bootVars>>
  <2>1. space[t] /\ ~faultWaiters[t] /\ pending[t] = NoPending /\ leaseCount[t] = 0
    BY <1>0, <1>6, PendingShapes DEF RecvReturn, TaskConsistent, InRecv
  <2>2. /\ pc'[t] = "run" /\ \A v \in Slots \ {t} : pc'[v] = pc[v]
        /\ outcome'[t] = Zero /\ \A v \in Slots \ {t} : outcome'[v] = outcome[v]
        /\ wanted'[t] = {} /\ \A v \in Slots \ {t} : wanted'[v] = wanted[v]
        /\ UNCHANGED <<state, space, pending, leaseCount, faultWaiters, posted, spawned, owed>>
    BY <1>2, <1>6 DEF RecvReturn, TakeOutcome, GoTo, superVars, bootVars
  <2>3. \A v \in Slots \ {t} : Untouched(v)
    BY <2>2 DEF Untouched, Undisturbed
  <2> QED BY <1>1, <1>3, <2>1, <2>2, <2>3, ReturnConsistent
<1>7. CASE RecvAgain(t) /\ UNCHANGED <<superVars, bootVars>>
  <2>1. /\ space[t] /\ ~faultWaiters[t] /\ pending[t] = RecvWait /\ leaseCount[t] = 0
        /\ outcome[t] = Zero
    BY <1>0, <1>7, PendingShapes DEF RecvAgain, TaskConsistent, InRecv
  <2> QED BY <1>1, <1>2, <1>7, <2>1, RecvTurnConsistent DEF RecvAgain
<1>8. CASE FaultWoke(t) /\ UNCHANGED bootVars
  <2>1. /\ space[t] /\ wanted[t] = {} /\ leaseCount[t] = 0
        /\ pending[t] = NoPending /\ outcome[t] = Zero
    BY <1>0, <1>8 DEF FaultWoke, TaskConsistent, InFaultWait
  <2>2. UNCHANGED <<notifyVars, ipcVars, bootVars>>
    BY <1>8 DEF FaultWoke
  <2>3. CASE FaultedTasks = {}
    BY <1>1, <1>8, <2>1, <2>2, <2>3, ParkForFaultConsistent DEF FaultWoke
  <2>4. CASE FaultedTasks # {}
    <3>1. /\ pc'[t] = "run" /\ \A v \in Slots \ {t} : pc'[v] = pc[v]
          /\ ~faultWaiters'[t] /\ \A v \in Slots \ {t} : faultWaiters'[v] = faultWaiters[v]
          /\ UNCHANGED <<state, space, pending, outcome, leaseCount, posted, wanted, spawned, owed>>
      BY <1>2, <1>8, <2>2, <2>4 DEF FaultWoke, GoTo, StayOn, notifyVars, ipcVars, bootVars
    <3>2. \A v \in Slots \ {t} : Untouched(v)
      BY <3>1 DEF Untouched, Undisturbed
    <3> QED BY <1>1, <1>3, <2>1, <3>1, <3>2, ReturnConsistent
  <2> QED BY <2>3, <2>4
<1> QED BY <1>0, <1>4, <1>5, <1>6, <1>7, <1>8 DEF Resume, BlockReturn

(***************************************************************************)
(* A task that leaves for good releases its senders.  W is WaitingOn(t);    *)
(* when it leaves by a fault, whoever waits for faults is awake afterwards. *)
(***************************************************************************)
LEMMA DepartureConsistent ==
  ASSUME AllTyped, TaskInv, NEW t \in Slots, InUser(t), Abandon(t), GoTo(t, "gone"),
         UNCHANGED <<notifyVars, superVars, spawned, owed>>,
         state'[t] \in {"Zombie", "Dead", "Faulted"},
         \A v \in WaitingOn(t) : state'[v] = "Runnable" /\ space'[v] = space[v],
         \A v \in Slots \ (WaitingOn(t) \cup {t}) :
           \/ Undisturbed(v)
           \/ /\ faultWaiters[v] /\ state[v] = "Blocked"
              /\ state'[v] = "Runnable" /\ space'[v] = space[v],
         \/ FaultedTasks = {} => FaultedTasks' = {}
         \/ \A v \in Slots \ (WaitingOn(t) \cup {t}) : faultWaiters[v] => state'[v] # "Blocked"
  PROVE  TaskInv'
<1> SUFFICES ASSUME NEW s \in Slots PROVE TaskConsistent(s)'
  BY DEF TaskInv
<1> DEFINE W == WaitingOn(t)
<1>1. t # KernelThread /\ pc[t] = "run" /\ state[t] = "Runnable" /\ space[t] /\ NoTraces(t)
  BY CallerFacts
<1>2. W \subseteq Slots /\ t \notin W /\ \A v \in W : pending[v] \in {SendWait(t), ReplyWait(t)}
  BY DEF WaitingOn
<1>3. \A v \in Slots \ {t} : pending[v].kind \in SendKinds /\ pending[v].target = t => v \in W
  BY PendingShapes DEF WaitingOn, SendKinds, AllTyped, IpcTyped
<1>4. \A v \in W : pending[v].kind \in SendKinds
  BY <1>2, PendingShapes DEF SendKinds
<1>5. /\ \A v \in W : pending'[v] = NoPending /\ outcome'[v] = Dead(t) /\ leaseCount'[v] = 0
      /\ pending'[t] = NoPending /\ outcome'[t] = outcome[t] /\ leaseCount'[t] = 0
      /\ \A v \in Slots \ (W \cup {t}) : /\ pending'[v] = pending[v] /\ outcome'[v] = outcome[v]
                                         /\ leaseCount'[v] = leaseCount[v]
      /\ \A v \in Slots : pending'[v] \in {NoPending, pending[v]}
  BY <1>2 DEF Abandon
<1>6. /\ pc'[t] = "gone" /\ \A v \in Slots \ {t} : pc'[v] = pc[v]
      /\ UNCHANGED <<posted, wanted, faultWaiters, spawned, owed>>
  BY DEF GoTo, AllTyped, RestTyped, notifyVars, superVars
<1> HIDE DEF W
<1>7. CASE s = t
  <2>1. Stopped(s)'
    BY <1>1, <1>5, <1>6, <1>7 DEF Stopped, NoTraces
  <2> QED BY <2>1, <1>6, <1>7 DEF TaskConsistent, OutsideCalls, InSend, InRecv, InFaultWait,
                                   UserTasksOnly, SendCall, Posting
<1>8. CASE s \in W
  <2>1. /\ pc[s] \in SendCall /\ space[s] /\ ~faultWaiters[s] /\ wanted[s] = {}
    BY <1>4, <1>8, PendingFacts
  <2>2. outcome'[s].kind = "dead" /\ s # t /\ state'[s] = "Runnable" /\ space'[s] = space[s]
    BY <1>2, <1>5, <1>8, PendingShapes DEF W
  <2>3. InSend(s)'
    BY <1>5, <1>6, <1>8, <2>1, <2>2 DEF InSend
  <2> QED BY <2>1, <2>2, <2>3, <1>6
          DEF TaskConsistent, OutsideCalls, Stopped, InRecv, InFaultWait, UserTasksOnly,
              SendCall, Posting
<1>9. CASE s \notin W \cup {t} /\ Undisturbed(s)
  <2>1. Untouched(s)
    BY <1>5, <1>6, <1>9 DEF Untouched
  <2>2. pending[s].kind \in SendKinds => state'[pending[s].target] \in {"Runnable", "Blocked"}
    <3> SUFFICES ASSUME pending[s].kind \in SendKinds
                 PROVE  state'[pending[s].target] \in {"Runnable", "Blocked"}
      OBVIOUS
    <3> DEFINE g == pending[s].target
    <3>1. g \in Slots \ {t} /\ state[g] \in {"Runnable", "Blocked"}
      BY <1>3, <1>9, PeerFacts
    <3> HIDE DEF g
    <3>2. state'[g] \in {"Runnable", "Blocked"}
      BY <3>1 DEF Undisturbed, W
    <3> QED BY <3>2 DEF g
  <2>3. \A v \in Slots : pending[s] = RecvWait => pending'[v] # SendWait(s)
    BY <1>5, PendingFacts, PendingShapes DEF QueuedFor
  <2>4. outcome[s].kind = "message" => pending'[outcome[s].from] = pending[outcome[s].from]
    <3> SUFFICES ASSUME outcome[s].kind = "message"
                 PROVE  pending'[outcome[s].from] = pending[outcome[s].from]
      OBVIOUS
    <3> DEFINE f == outcome[s].from
    <3>1. f \in Slots /\ pending[f] = ReplyWait(s)
      BY PeerFacts
    <3> HIDE DEF f
    <3>2. f # t
      BY <3>1, <1>1, PendingShapes DEF NoTraces
    <3>3. f \notin W
      BY <3>1, <1>2, <1>9 DEF SendWait, ReplyWait
    <3> QED BY <3>1, <3>2, <3>3, <1>5 DEF f
  <2>5. pc[s] = "faultPark" /\ state[s] = "Blocked" /\ FaultedTasks = {} => FaultedTasks' = {}
    <3> SUFFICES ASSUME pc[s] = "faultPark", state[s] = "Blocked"
                 PROVE  FaultedTasks = {} => FaultedTasks' = {}
      OBVIOUS
    <3>1. faultWaiters[s] /\ state'[s] = "Blocked"
      BY <1>9 DEF TaskInv, TaskConsistent, InFaultWait, Undisturbed
    <3> QED BY <3>1, <1>9 DEF W
  <2> QED BY <2>1, <2>2, <2>3, <2>4, <2>5, OtherConsistent
<1>10. CASE /\ s \notin W \cup {t} /\ faultWaiters[s] /\ state[s] = "Blocked"
            /\ state'[s] = "Runnable" /\ space'[s] = space[s]
  <2>1. TaskConsistent(s) /\ pc[s] \in Points
    BY DEF TaskInv, AllTyped, RestTyped
  <2>2. /\ pc[s] = "faultPark" /\ space[s] /\ wanted[s] = {} /\ leaseCount[s] = 0
        /\ pending[s] = NoPending /\ outcome[s] = Zero
    BY <1>10, <2>1 DEF TaskConsistent, OutsideCalls, Stopped, InSend, InRecv, InFaultWait,
                        UserTasksOnly, Points, SendCall, Posting
  <2>3. InFaultWait(s)'
    BY <1>5, <1>6, <1>10, <2>2 DEF InFaultWait
  <2> QED BY <2>2, <2>3, <1>6, <1>10 DEF TaskConsistent, OutsideCalls, Stopped, InSend, InRecv,
                                   UserTasksOnly, SendCall, Posting
<1> QED BY <1>7, <1>8, <1>9, <1>10 DEF W

(* exit and fault *)
LEMMA EndConsistent ==
  ASSUME AllTyped, TaskInv, NEW t \in Slots, Exit(t) \/ Fault(t)
  PROVE  TaskInv'
<1> DEFINE W == WaitingOn(t)
<1>0. t # KernelThread /\ state[t] = "Runnable"
  BY CallerFacts DEF Exit, ExitCurrent, Fault, FaultCurrent
<1>1. W \subseteq Slots /\ t \notin W /\ \A v \in W : state[v] = "Blocked"
  <2>1. \A v \in Slots : pending[v] \in {SendWait(t), ReplyWait(t)} => state[v] = "Blocked"
    BY PendingFacts, PendingShapes DEF SendKinds
  <2> QED BY <2>1 DEF WaitingOn
<1>2. CASE Exit(t)
  <2> DEFINE z  == [state EXCEPT ![t] = "Zombie"]
             st == Woken(z, W)
  <2>1. StateType(z) /\ z[t] = "Zombie" /\ \A v \in Slots \ {t} : z[v] = state[v]
    BY <1>0, SlotFacts DEF AllTyped, SchedTyped, StateType, States
  <2> HIDE DEF z, W
  <2>2. /\ StateType(st)
        /\ \A v \in Slots : st[v] = IF v \in W /\ z[v] = "Blocked" THEN "Runnable" ELSE z[v]
    BY <2>1, WokenEffect
  <2>3. SwitchToNext(st)
    BY <1>2 DEF Exit, ExitCurrent, StateAfterAbandon, z, W
  <2> HIDE DEF st
  <2>4. SwitchedFrom(st)
    BY <2>2, <2>3, HandedOver
  <2>5. /\ state'[t] \in {"Zombie", "Dead"}
        /\ \A v \in W : state'[v] = "Runnable" /\ space'[v] = space[v]
        /\ \A v \in Slots \ (W \cup {t}) : Undisturbed(v)
    BY <1>1, <2>1, <2>2, <2>4 DEF SwitchedFrom, Undisturbed
  <2>6. FaultedTasks = {} => FaultedTasks' = {}
    BY <1>1, <2>5, NobodyFaults DEF Undisturbed
  <2> QED BY <1>2, <2>5, <2>6, DepartureConsistent DEF Exit, ExitCurrent, W, bootVars
<1>3. CASE Fault(t)
  <2> DEFINE z  == [state EXCEPT ![t] = "Faulted"]
             rl == Woken(z, W)
             F  == {v \in Slots : faultWaiters[v]}
             st == Woken(rl, F)
  <2>1. StateType(z) /\ z[t] = "Faulted" /\ \A v \in Slots \ {t} : z[v] = state[v]
    BY <1>0, SlotFacts DEF AllTyped, SchedTyped, StateType, States
  <2> HIDE DEF z, W
  <2>2. /\ StateType(rl)
        /\ \A v \in Slots : rl[v] = IF v \in W /\ z[v] = "Blocked" THEN "Runnable" ELSE z[v]
    BY <2>1, WokenEffect
  <2> HIDE DEF rl, F
  <2>3. /\ StateType(st)
        /\ \A v \in Slots : st[v] = IF v \in F /\ rl[v] = "Blocked" THEN "Runnable" ELSE rl[v]
    BY <2>2, WokenEffect
  <2>4. SwitchToNext(st)
    BY <1>3 DEF Fault, FaultCurrent, StateAfterAbandon, z, W, rl, F
  <2> HIDE DEF st
  <2>5. SwitchedFrom(st)
    BY <2>3, <2>4, HandedOver
  <2>6. state'[t] = "Faulted" /\ \A v \in W : state'[v] = "Runnable" /\ space'[v] = space[v]
    BY <1>1, <2>1, <2>2, <2>3, <2>5 DEF SwitchedFrom
  <2>7. ASSUME NEW v \in Slots \ (W \cup {t})
        PROVE  /\ \/ Undisturbed(v)
                  \/ /\ faultWaiters[v] /\ state[v] = "Blocked"
                     /\ state'[v] = "Runnable" /\ space'[v] = space[v]
               /\ faultWaiters[v] => state'[v] # "Blocked"
    <3>1. v \in F <=> faultWaiters[v]
      BY DEF F
    <3>2. st[v] = IF v \in F /\ state[v] = "Blocked" THEN "Runnable" ELSE state[v]
      BY <2>1, <2>2, <2>3, <2>7
    <3> QED BY <3>1, <3>2, <2>5 DEF SwitchedFrom, Undisturbed
  <2> QED BY <1>3, <2>6, <2>7, DepartureConsistent DEF Fault, FaultCurrent, W
<1> QED BY <1>2, <1>3

(* A step that leaves every task as it was, but for who holds the CPU, for  *)
(* reaping, and for what happens to tasks that have stopped.                *)
LEMMA StoppedMoves ==
  ASSUME AllTyped, TaskInv,
         \A v \in Slots : pc[v] # "gone" => state'[v] = state[v] /\ space'[v] = space[v],
         \A v \in Slots : pc[v] = "gone" =>
           /\ state'[v] \in {"None", "Zombie", "Dead", "Faulted"}
           /\ state'[v] = "Faulted" => state[v] = "Faulted",
         UNCHANGED <<pc, pending, outcome, leaseCount, faultWaiters, posted, wanted, spawned, owed>>
  PROVE  TaskInv'
<1> SUFFICES ASSUME NEW s \in Slots PROVE TaskConsistent(s)'
  BY DEF TaskInv
<1>1. TaskConsistent(s)
  BY DEF TaskInv
<1>2. OutsideCalls(s)' /\ Stopped(s)' /\ UserTasksOnly(s)'
  BY <1>1 DEF TaskConsistent, OutsideCalls, Stopped, UserTasksOnly, NoTraces
<1>3. InSend(s)'
  <2> SUFFICES ASSUME pc[s] \in SendCall PROVE InSend(s)'
    BY DEF InSend
  <2>1. pending[s].kind \in SendKinds => state'[pending[s].target] \in {"Runnable", "Blocked"}
    BY PeerFacts, PointOfState
  <2> QED BY <1>1, <2>1 DEF TaskConsistent, InSend, SendCall
<1>4. InRecv(s)'
  BY <1>1 DEF TaskConsistent, InRecv, QueuedFor
<1>5. InFaultWait(s)'
  BY <1>1, PointOfState DEF TaskConsistent, InFaultWait, FaultedTasks
<1> QED BY <1>2, <1>3, <1>4, <1>5 DEF TaskConsistent

(* fault_wait and restart *)
LEMMA SuperviseConsistent ==
  ASSUME RestartsOnlyStopped, AllTyped, TaskInv, NEW t \in Slots, Supervise(t)
  PROVE  TaskInv'
<1>1. CASE FaultWait(t)
  BY <1>1, CallerFacts, ParkForFaultConsistent DEF FaultWait, Supervise, NoTraces
<1>2. ASSUME NEW g \in Slots, Restart(t, g)
      PROVE  TaskInv'
  <2>1. state[g] \notin {"Runnable", "Blocked"}
    BY <1>2 DEF Restart, IsAlive
  <2>2. pc[g] = "gone" /\ NoTraces(g)
    <3>1. pc[g] = "gone"
      BY <2>1, PointOfState DEF AllTyped, SchedTyped, StateType, States
    <3> QED BY <3>1 DEF TaskInv, TaskConsistent, Stopped
  <2>3. WaitingOn(g) = {}
    BY <2>1, PeerFacts, PendingShapes DEF WaitingOn, SendKinds
  <2>4. UNCHANGED <<pending, outcome, leaseCount>>
    <3>1. /\ outcome' = [v \in Slots |-> outcome[v]]
          /\ pending' = [v \in Slots |-> IF v = g THEN NoPending ELSE pending[v]]
          /\ leaseCount' = [v \in Slots |-> IF v = g THEN 0 ELSE leaseCount[v]]
      BY <1>2, <2>3 DEF Restart, Abandon
    <3> QED BY <3>1, <2>2 DEF NoTraces, AllTyped, IpcTyped
  <2>5. UNCHANGED <<posted, wanted, faultWaiters, spawned, owed>>
    BY <1>2 DEF Restart, Supervise, notifyVars, superVars, bootVars
  <2> DEFINE st == StateAfterAbandon(state, g)
  <2>6. StateType(st) /\ \A v \in Slots : st[v] = state[v]
    BY <2>3, WokenEffect DEF StateAfterAbandon, AllTyped, SchedTyped
  <2> HIDE DEF st
  <2>7. /\ state' = IF st[g] = "Faulted" /\ image[g] THEN [st EXCEPT ![g] = "Runnable"] ELSE st
        /\ space' = IF st[g] = "Faulted" /\ image[g] THEN [space EXCEPT ![g] = TRUE] ELSE space
        /\ pc' = IF st[g] = "Faulted" /\ image[g] THEN [pc EXCEPT ![g] = "start"] ELSE pc
    BY <1>2 DEF Restart, st
  <2>8. CASE st[g] = "Faulted" /\ image[g]
    <3> SUFFICES ASSUME NEW s \in Slots PROVE TaskConsistent(s)'
      BY DEF TaskInv
    <3>1. /\ state'[g] = "Runnable" /\ space'[g] = TRUE /\ pc'[g] = "start" /\ g # KernelThread
          /\ \A v \in Slots \ {g} : state'[v] = state[v] /\ space'[v] = space[v] /\ pc'[v] = pc[v]
      BY <2>6, <2>7, <2>8 DEF StateType, AllTyped, SchedTyped, RestTyped
    <3>2. CASE s = g
      <4>1. OutsideCalls(s)'
        BY <2>2, <2>4, <2>5, <3>1, <3>2 DEF OutsideCalls, NoTraces, Posting
      <4> QED BY <4>1, <3>1, <3>2 DEF TaskConsistent, Stopped, InSend, InRecv, InFaultWait,
                                      UserTasksOnly, SendCall
    <3>3. CASE s # g
      <4>1. \A v \in Slots \ {g} : Untouched(v)
        BY <2>4, <2>5, <3>1, <2>6 DEF Untouched, Undisturbed
      <4>2. pending[g].kind \notin SendKinds /\ \A v \in Slots : pending'[g] # SendWait(v)
        BY <2>2, <2>4, PendingShapes DEF NoTraces, SendKinds
      <4> QED BY <3>1, <3>3, <4>1, <4>2, OthersConsistent
    <3> QED BY <3>2, <3>3
  <2>9. CASE ~(st[g] = "Faulted" /\ image[g])
    BY <2>4, <2>5, <2>6, <2>7, <2>9, StoppedMoves, PointOfState
       DEF AllTyped, SchedTyped, StateType, States
  <2> QED BY <2>8, <2>9
<1> QED BY <1>1, <1>2 DEF Supervise

(* post and on_irq: u is told of bits, and perhaps somebody else runs *)
LEMMA PostConsistent ==
  ASSUME AllTyped, TaskInv, NEW u \in Slots, NEW bits \in SUBSET Bits,
         posted' = PostedTo(u, bits), SwitchedFrom(StateAfterPost(u, bits)),
         UNCHANGED <<pc, ipcVars, faultWaiters, wanted, spawned, owed>>
  PROVE  TaskInv'
<1> SUFFICES ASSUME NEW s \in Slots PROVE TaskConsistent(s)'
  BY DEF TaskInv
<1>1. /\ posted'[u] = posted[u] \cup bits /\ \A v \in Slots \ {u} : posted'[v] = posted[v]
      /\ UNCHANGED <<pc, pending, outcome, leaseCount, faultWaiters, wanted, spawned, owed>>
  BY DEF PostedTo, AllTyped, NotifyTyped, ipcVars
<1>2. /\ wanted[u] \cap bits # {} /\ state[u] = "Blocked" =>
           state'[u] = "Runnable" /\ space'[u] = space[u]
      /\ wanted[u] \cap bits = {} \/ state[u] # "Blocked" => Undisturbed(u)
      /\ \A v \in Slots \ {u} : Undisturbed(v)
  <2> DEFINE st == StateAfterPost(u, bits)
  <2>1. \A v \in Slots : st[v] = IF v = u /\ wanted[u] \cap bits # {} /\ state[u] = "Blocked"
                                 THEN "Runnable" ELSE state[v]
    BY WokenEffect DEF StateAfterPost, WakesOn, AllTyped, SchedTyped
  <2> HIDE DEF st
  <2>2. SwitchedFrom(st)
    BY DEF st
  <2> QED BY <2>1, <2>2 DEF SwitchedFrom, Undisturbed
<1>3. \A v \in Slots : state[v] \in {"Runnable", "Blocked"} => state'[v] \in {"Runnable", "Blocked"}
  BY <1>2 DEF Undisturbed
<1>4. FaultedTasks = {} => FaultedTasks' = {}
  BY <1>2, NobodyFaults DEF Undisturbed
<1>5. TaskConsistent(s) /\ pc[s] \in Points
  BY DEF TaskInv, AllTyped, RestTyped
<1>6. ASSUME Undisturbed(s), pc[s] # "recvPark" \/ s # u
      PROVE  TaskConsistent(s)'
  <2>1. OutsideCalls(s)' /\ Stopped(s)' /\ UserTasksOnly(s)'
    BY <1>1, <1>5, <1>6 DEF TaskConsistent, OutsideCalls, Stopped, UserTasksOnly, NoTraces,
                            Undisturbed
  <2>2. InSend(s)'
    BY <1>1, <1>3, <1>5, <1>6 DEF TaskConsistent, InSend, Undisturbed
  <2>3. InRecv(s)'
    BY <1>1, <1>5, <1>6 DEF TaskConsistent, InRecv, QueuedFor, Undisturbed
  <2>4. InFaultWait(s)'
    BY <1>1, <1>4, <1>5, <1>6 DEF TaskConsistent, InFaultWait, Undisturbed
  <2> QED BY <2>1, <2>2, <2>3, <2>4 DEF TaskConsistent
<1>7. CASE s = u /\ pc[u] = "recvPark"
  <2>1. InRecv(s)'
    BY <1>1, <1>2, <1>5, <1>7 DEF TaskConsistent, InRecv, QueuedFor, Undisturbed
  <2> QED BY <2>1, <1>1, <1>7 DEF TaskConsistent, OutsideCalls, Stopped, InSend, InFaultWait,
                                   UserTasksOnly, SendCall, Posting
<1>8. CASE s = u /\ pc[u] # "recvPark"
  <2>1. wanted[u] = {}
    BY <1>5, <1>8 DEF TaskConsistent, OutsideCalls, Stopped, InSend, InFaultWait, NoTraces,
                      UserTasksOnly, Points, SendCall, Posting
  <2> QED BY <1>2, <1>6, <1>8, <2>1
<1> QED BY <1>2, <1>6, <1>7, <1>8

(* The sections of the boot thread's post: it moves, and may wake whoever is *)
(* not sending.                                                             *)
LEMMA BootPostMoves ==
  ASSUME AllTyped, TaskInv,
         {pc[KernelThread], pc'[KernelThread]} \subseteq {"run"} \cup Posting,
         \A v \in Slots \ {KernelThread} : pc'[v] = pc[v],
         \A v \in Slots :
           \/ /\ state'[v] = state[v]
              /\ state[v] = "Blocked" /\ posted[v] \cap wanted[v] \subseteq owed[v] =>
                   posted'[v] \cap wanted[v] \subseteq owed'[v]
           \/ state[v] = "Blocked" /\ pc[v] \notin SendCall /\ state'[v] = "Runnable",
         UNCHANGED <<space, pending, outcome, leaseCount, faultWaiters, wanted, spawned>>
  PROVE  TaskInv'
<1> SUFFICES ASSUME NEW s \in Slots PROVE TaskConsistent(s)'
  BY DEF TaskInv
<1>1. TaskConsistent(s)
  BY DEF TaskInv
<1>2. FaultedTasks = {} => FaultedTasks' = {}
  BY NobodyFaults
<1>3. CASE s = KernelThread
  <2>1. state'[s] = state[s]
    BY <1>3, SlotFacts, Tables DEF StateType
  <2>2. OutsideCalls(s)'
    BY <1>1, <1>3, <2>1 DEF TaskConsistent, OutsideCalls, NoTraces, Posting
  <2> QED BY <2>2, <1>3 DEF TaskConsistent, Stopped, InSend, InRecv, InFaultWait,
                            UserTasksOnly, SendCall, Posting
<1>4. CASE s # KernelThread
  <2>1. /\ pc'[s] = pc[s]
        /\ state'[s] = state[s] \/ (state[s] = "Blocked" /\ pc[s] \notin SendCall)
    BY <1>4
  <2>2. OutsideCalls(s)' /\ Stopped(s)' /\ UserTasksOnly(s)'
    BY <1>1, <2>1 DEF TaskConsistent, OutsideCalls, Stopped, UserTasksOnly, NoTraces
  <2>3. InSend(s)'
    <3>1. pending[s].kind \in SendKinds => state'[pending[s].target] \in {"Runnable", "Blocked"}
      BY PeerFacts
    <3> QED BY <1>1, <2>1, <3>1 DEF TaskConsistent, InSend, SendCall
  <2>4. InRecv(s)'
    BY <1>1, <2>1 DEF TaskConsistent, InRecv, QueuedFor
  <2>5. InFaultWait(s)'
    BY <1>1, <1>2, <2>1 DEF TaskConsistent, InFaultWait
  <2> QED BY <2>2, <2>3, <2>4, <2>5 DEF TaskConsistent
<1> QED BY <1>3, <1>4

(* What the boot thread does *)
LEMMA BootConsistent ==
  ASSUME Kinds \subseteq {"user"}, AllTyped, TaskInv, PostsAreOwed,
         \/ \E p \in Priorities, k \in Kinds : Spawn(p, k)
         \/ SpawnDone \/ CleanUp \/ BootRoute \/ Appoint \/ PostStep
  PROVE  TaskInv'
<1>1. ASSUME NEW p \in Priorities, NEW k \in Kinds, Spawn(p, k)
      PROVE  TaskInv'
  <2> SUFFICES ASSUME NEW s \in Slots PROVE TaskConsistent(s)'
    BY DEF TaskInv
  <2> DEFINE f == FreeSlot
  <2>1. /\ f \in Slots /\ state[f] = "None" /\ pc[KernelThread] = "run" /\ k = "user"
    BY <1>1, FreeSlotFound DEF Spawn, SpawnIn, InKernelThread, Running
  <2>2. /\ state' = [state EXCEPT ![f] = "Runnable"]
        /\ space' = [space EXCEPT ![f] = (k = "user")]
        /\ pc' = [pc EXCEPT ![f] = "start",
                            ![KernelThread] = IF k = "user" THEN "image" ELSE "run"]
        /\ spawned' = IF k = "user" THEN f ELSE NoTask
        /\ UNCHANGED <<pending, outcome, leaseCount, posted, wanted, faultWaiters, owed>>
    BY <1>1 DEF Spawn, SpawnIn, notifyVars, ipcVars, superVars
  <2> HIDE DEF f
  <2>3. f # KernelThread /\ state[KernelThread] = "Runnable" /\ ~space[KernelThread]
    BY <2>1 DEF AllTyped, SchedTyped, StateType
  <2>4. pc[f] = "gone" /\ NoTraces(f) /\ NoTraces(KernelThread)
    <3>1. pc[f] = "gone"
      BY <2>1, PointOfState
    <3> QED BY <2>1, <3>1, SlotFacts DEF TaskInv, TaskConsistent, Stopped, OutsideCalls
  <2>5. /\ state'[f] = "Runnable" /\ space'[f] = TRUE /\ pc'[f] = "start"
        /\ pc'[KernelThread] = "image" /\ spawned' = f
        /\ \A v \in Slots \ {f} : state'[v] = state[v] /\ space'[v] = space[v]
        /\ \A v \in Slots \ {f, KernelThread} : pc'[v] = pc[v]
    BY <2>1, <2>2, <2>3, SlotFacts DEF AllTyped, SchedTyped, StateType, RestTyped
  <2>6. CASE s = f
    <3>1. OutsideCalls(s)'
      BY <2>2, <2>3, <2>4, <2>5, <2>6 DEF OutsideCalls, NoTraces, Posting
    <3> QED BY <3>1, <2>5, <2>6 DEF TaskConsistent, Stopped, InSend, InRecv, InFaultWait,
                                    UserTasksOnly, SendCall
  <2>7. CASE s = KernelThread
    <3>1. space'[s] = (s # KernelThread)
      <4>1. space'[s] = space[s] /\ space[s] = FALSE
        BY <2>3, <2>5, <2>7 DEF AllTyped, SchedTyped
      <4> QED BY <4>1, <2>7, Zenon
    <3>2. NoTraces(s)' /\ state'[s] = "Runnable"
      BY <2>2, <2>3, <2>4, <2>5, <2>7 DEF NoTraces
    <3>3. pc'[s] = "image" /\ spawned' \in Slots
      BY <2>1, <2>5, <2>7
    <3>4. OutsideCalls(s)'
      BY <3>1, <3>2, <3>3, <2>7 DEF OutsideCalls
    <3> QED BY <3>4, <2>5, <2>7 DEF TaskConsistent, Stopped, InSend, InRecv, InFaultWait,
                                    UserTasksOnly, SendCall
  <2>8. CASE s \notin {f, KernelThread}
    <3>1. Untouched(s)
      BY <2>2, <2>5, <2>8 DEF Untouched, Undisturbed
    <3>2. pending[s].kind \in SendKinds => state'[pending[s].target] \in {"Runnable", "Blocked"}
      BY <2>5, PeerFacts
    <3>3. \A v \in Slots : pending[s] = RecvWait => pending'[v] # SendWait(s)
      BY <2>2, PendingFacts, PendingShapes DEF QueuedFor
    <3>4. FaultedTasks = {} => FaultedTasks' = {}
      BY <2>5, NobodyFaults
    <3> QED BY <2>2, <3>1, <3>2, <3>3, <3>4, OtherConsistent
  <2> QED BY <2>6, <2>7, <2>8
<1>2. CASE SpawnDone
  <2> SUFFICES ASSUME NEW s \in Slots PROVE TaskConsistent(s)'
    BY DEF TaskInv
  <2>1. /\ pc'[KernelThread] = "run" /\ \A v \in Slots \ {KernelThread} : pc'[v] = pc[v]
        /\ UNCHANGED <<state, space, pending, outcome, leaseCount, posted, wanted,
                       faultWaiters, owed>>
    BY <1>2, SlotFacts DEF SpawnDone, RecordImage, GoTo, notifyVars, ipcVars, superVars,
                           AllTyped, RestTyped
  <2>2. CASE s = KernelThread
    <3>1. TaskConsistent(KernelThread) /\ pc[KernelThread] = "image"
      BY <1>2, SlotFacts DEF TaskInv, SpawnDone, RecordImage
    <3>2. OutsideCalls(s)'
      BY <2>1, <2>2, <3>1 DEF TaskConsistent, OutsideCalls, NoTraces
    <3> QED BY <3>2, <2>1, <2>2 DEF TaskConsistent, Stopped, InSend, InRecv, InFaultWait,
                                    UserTasksOnly, SendCall
  <2>3. CASE s # KernelThread
    <3>1. \A v \in Slots \ {KernelThread} : Untouched(v)
      BY <2>1 DEF Untouched, Undisturbed
    <3>2. TaskConsistent(KernelThread) /\ pc[KernelThread] = "image"
      BY <1>2, SlotFacts DEF TaskInv, SpawnDone, RecordImage
    <3>3. state'[KernelThread] = "Runnable" /\ pending[KernelThread] = NoPending
      BY <3>2, <2>1 DEF TaskConsistent, OutsideCalls, NoTraces
    <3>4. pending[KernelThread].kind \notin SendKinds /\
          \A v \in Slots : pending'[KernelThread] # SendWait(v)
      BY <3>3, <2>1, PendingShapes DEF SendKinds
    <3> QED BY <2>3, <3>1, <3>3, <3>4, SlotFacts, OthersConsistent
  <2> QED BY <2>2, <2>3
<1>3. CASE CleanUp
  <2>1. UNCHANGED <<pending, outcome, leaseCount, posted, wanted, faultWaiters, spawned, owed>>
    BY <1>3 DEF CleanUp, notifyVars, ipcVars, superVars, bootVars
  <2>2. CASE ReapZombies
    <3>1. \A v \in Slots : v \in Reapable(state, current) => state[v] = "Zombie"
      BY DEF Reapable
    <3>2. /\ \A v \in Slots : state'[v] = IF v \in Reapable(state, current) THEN "Dead" ELSE state[v]
          /\ UNCHANGED pc
      BY <2>2 DEF ReapZombies, Reaped
    <3>3. ASSUME NEW v \in Slots, v \notin Reapable(state, current)
          PROVE  space'[v] = space[v]
      <4>1. space'[v] = (space[v] /\ v \notin Reapable(state, current))
        BY <2>2, Zenon DEF ReapZombies, SpaceAfterReap
      <4>2. space[v] \in BOOLEAN
        BY DEF AllTyped, SchedTyped
      <4>3. CASE space[v] = TRUE
        BY <4>1, <4>3, <3>3, Zenon
      <4>4. CASE space[v] = FALSE
        BY <4>1, <4>4, Zenon
      <4> QED BY <4>2, <4>3, <4>4
    <3> QED BY <2>1, <3>1, <3>2, <3>3, PointOfState, StoppedMoves
  <2>3. CASE ReleaseDead
    <3> DEFINE dead == {v \in Slots \ {current} : state[v] = "Dead"}
    <3>1. /\ \A v \in Slots : state'[v] = IF v \in dead THEN "None" ELSE state[v]
          /\ pc' = [v \in Slots |-> IF v \in dead THEN "gone" ELSE pc[v]]
          /\ UNCHANGED space
      BY <2>3 DEF ReleaseDead
    <3>2. \A v \in dead : state[v] = "Dead" /\ pc[v] = "gone"
      BY PointOfState
    <3> HIDE DEF dead
    <3>3. UNCHANGED pc
      BY <3>1, <3>2 DEF AllTyped, RestTyped
    <3> QED BY <2>1, <3>1, <3>2, <3>3, PointOfState, StoppedMoves
  <2>4. ASSUME NEW x \in Slots, Kill(x)
        PROVE  TaskInv'
    <3>1. /\ state'[x] = "Zombie" /\ \A v \in Slots \ {x} : state'[v] = state[v]
          /\ UNCHANGED <<space, pc>>
      BY <2>4 DEF Kill, AllTyped, SchedTyped, StateType
    <3>2. pc[x] = "gone"
      BY <2>4, PointOfState DEF Kill
    <3> QED BY <2>1, <3>1, <3>2, PointOfState, StoppedMoves
  <2> QED BY <1>3, <2>2, <2>3, <2>4 DEF CleanUp
<1>4. CASE BootPost
  <2>1. PICK x \in Slots, b \in Bits :
          PostBits(x, {b}) /\ owed' = [owed EXCEPT ![x] = @ \cup {b}]
    BY <1>4 DEF BootPost
  <2>2. UNCHANGED <<ipcVars, superVars, spawned>>
    BY <1>4 DEF BootPost
  <2>3. /\ \A v \in Slots : posted'[v] = IF v = x THEN posted[x] \cup {b} ELSE posted[v]
        /\ \A v \in Slots : owed'[v] = IF v = x THEN owed[x] \cup {b} ELSE owed[v]
    BY <2>1 DEF PostBits, PostedTo, AllTyped, NotifyTyped, RestTyped
  <2>4. \A v \in Slots : posted[v] \cap wanted[v] \subseteq owed[v] =>
                           posted'[v] \cap wanted[v] \subseteq owed'[v]
    BY <2>3
  <2>5. /\ pc[KernelThread] = "run" /\ pc'[KernelThread] = "posting"
        /\ \A v \in Slots \ {KernelThread} : pc'[v] = pc[v]
        /\ UNCHANGED <<state, space, wanted>>
    BY <2>1, SlotFacts DEF PostBits, GoTo, InKernelThread, Running, AllTyped, RestTyped
  <2> QED BY <2>2, <2>4, <2>5, BootPostMoves DEF ipcVars, superVars, Posting
<1>7. CASE BootPostWake
  <2>1. PICK x \in Slots :
          /\ owed[x] # {} /\ PostWake(x) /\ owed' = [owed EXCEPT ![x] = {}]
          /\ UNCHANGED <<ipcVars, superVars, spawned>>
    BY <1>7 DEF BootPostWake
  <2>2. \A v \in Slots : owed'[v] = IF v = x THEN {} ELSE owed[v]
    BY <2>1 DEF AllTyped, RestTyped
  <2>3. /\ pc[KernelThread] = "waking" /\ pc'[KernelThread] = "asking"
        /\ \A v \in Slots \ {KernelThread} : pc'[v] = pc[v]
        /\ UNCHANGED <<space, posted, wanted>>
    BY <2>1, SlotFacts DEF PostWake, GoTo, notifyVars, AllTyped, RestTyped
  <2>4. \A v \in Slots :
          state'[v] = IF v = x /\ state[x] = "Blocked" THEN "Runnable" ELSE state[v]
    BY <2>1, WokenEffect DEF PostWake, AllTyped, SchedTyped
  <2>5. pc[x] \notin SendCall
    BY <2>1, <2>3 DEF PostsAreOwed
  <2>6. ASSUME NEW v \in Slots
        PROVE  \/ /\ state'[v] = state[v]
                  /\ state[v] = "Blocked" /\ posted[v] \cap wanted[v] \subseteq owed[v] =>
                       posted'[v] \cap wanted[v] \subseteq owed'[v]
               \/ state[v] = "Blocked" /\ pc[v] \notin SendCall /\ state'[v] = "Runnable"
    <3>1. CASE v # x
      BY <2>2, <2>3, <2>4, <3>1
    <3>2. CASE v = x
      BY <2>2, <2>3, <2>4, <2>5, <3>2
    <3> QED BY <3>1, <3>2
  <2> QED BY <2>1, <2>3, <2>6, BootPostMoves DEF ipcVars, superVars, Posting
<1>8. CASE BootPostLook
  <2>1. PICK x \in Slots :
          /\ PostLook(x, owed[x])
          /\ owed' = IF WakesOn(x, owed[x]) THEN owed ELSE [owed EXCEPT ![x] = {}]
          /\ UNCHANGED <<ipcVars, superVars, spawned>>
    BY <1>8 DEF BootPostLook
  <2>2. \A v \in Slots : owed'[v] = owed[v] \/ (owed'[v] = {} /\ wanted[v] \cap owed[v] = {})
    BY <2>1 DEF WakesOn, AllTyped, RestTyped
  <2>3. /\ pc[KernelThread] = "posting" /\ pc'[KernelThread] \in {"waking", "run"}
        /\ \A v \in Slots \ {KernelThread} : pc'[v] = pc[v]
        /\ UNCHANGED <<state, space, posted, wanted>>
    BY <2>1, SlotFacts DEF PostLook, GoTo, notifyVars, AllTyped, RestTyped
  <2>4. \A v \in Slots : posted[v] \cap wanted[v] \subseteq owed[v] =>
                           posted'[v] \cap wanted[v] \subseteq owed'[v]
    BY <2>2, <2>3
  <2> QED BY <2>1, <2>3, <2>4, BootPostMoves DEF ipcVars, superVars, Posting
<1>9. CASE BootPostAsk
  <2>1. /\ pc[KernelThread] = "asking" /\ pc'[KernelThread] = "run"
        /\ \A v \in Slots \ {KernelThread} : pc'[v] = pc[v]
        /\ UNCHANGED <<state, space, posted, wanted, pending, outcome, leaseCount,
                       faultWaiters, spawned, owed>>
    BY <1>9, SlotFacts DEF BootPostAsk, PostAsk, GoTo, notifyVars, ipcVars, superVars,
                           bootVars, AllTyped, RestTyped
  <2> QED BY <2>1, BootPostMoves DEF Posting
<1>5. CASE BootRoute
  <2>1. UNCHANGED <<state, space, pc, pending, outcome, leaseCount, faultWaiters,
                    posted, wanted, spawned, owed>>
    BY <1>5 DEF BootRoute, Route, schedVars, ipcVars, superVars, bootVars
  <2> QED BY <2>1, PointOfState, StoppedMoves
<1>6. CASE Appoint
  <2>1. UNCHANGED <<state, space, pc, pending, outcome, leaseCount, faultWaiters,
                    posted, wanted, spawned, owed>>
    BY <1>6 DEF Appoint, SetSupervisor, schedVars, ipcVars, notifyVars, bootVars
  <2> QED BY <2>1, PointOfState, StoppedMoves
<1> QED BY <1>1, <1>2, <1>3, <1>4, <1>5, <1>6, <1>7, <1>8, <1>9 DEF PostStep

(* An interrupt *)
LEMMA InterruptConsistent ==
  ASSUME AllTyped, TaskInv, NEW i \in IntIds, Interrupt(i)
  PROVE  TaskInv'
<1>1. UNCHANGED <<pc, ipcVars, faultWaiters, wanted, spawned, owed>>
  BY DEF Interrupt, Irq, superVars, bootVars
<1>2. CASE Routed(i) # {}
  <2> DEFINE r == RouteOf(i)
  <2>1. r.task \in Slots /\ r.bits \in SUBSET Bits
    BY <1>2, RouteFound DEF AllTyped, NotifyTyped, Routes
  <2>2. /\ posted' = PostedTo(r.task, r.bits)
        /\ SwitchToNext(StateAfterPost(r.task, r.bits)) \/ StayOn(StateAfterPost(r.task, r.bits))
    BY <1>2 DEF Interrupt, Irq
  <2> HIDE DEF r
  <2>3. StateType(StateAfterPost(r.task, r.bits))
    BY <2>1, PostEffect DEF AllTyped, SchedTyped
  <2> QED BY <1>1, <2>1, <2>2, <2>3, HandedOver, PostConsistent
<1>3. CASE Routed(i) = {}
  <2>1. UNCHANGED posted /\ (SwitchToNext(state) \/ StayOn(state))
    BY <1>3 DEF Interrupt, Irq
  <2> QED BY <1>1, <2>1, HandedOver, QuietConsistent DEF AllTyped, SchedTyped
<1> QED BY <1>2, <1>3

(* yield; the kernel tasks' own code is never reached *)
LEMMA KernelTaskConsistent ==
  ASSUME AllTyped, TaskInv, NEW t \in Slots, Yield(t) \/ KernelTask(t)
  PROVE  TaskInv'
<1>1. CASE Yield(t)
  BY <1>1, HandedOver, QuietConsistent
     DEF Yield, YieldNow, notifyVars, superVars, bootVars, AllTyped, SchedTyped
<1>2. CASE KernelTask(t)
  <2>1. \A v \in Slots : pc[v] \notin {"finish", "blockPark"}
    BY PointOfState
  <2>2. pc[t] = "run" /\ t # KernelThread => space[t]
    BY DEF TaskInv, TaskConsistent, OutsideCalls
  <2> QED BY <1>2, <2>1, <2>2 DEF KernelTask, BlockCurrent, Unblock, TaskFinished, FinishLook,
             FinishWake, FinishLeave, Finishing, InKernelThread, Running
<1> QED BY <1>1, <1>2

(* send, recv and reply *)
LEMMA SyscallConsistent ==
  ASSUME AllTyped, TaskInv, NEW t \in Slots, Syscall(t)
  PROVE  TaskInv'
<1>1. UNCHANGED <<superVars, bootVars>>
  BY DEF Syscall
<1>2. ASSUME NEW mask \in SUBSET Bits, Recv(t, mask)
      PROVE  TaskInv'
  BY <1>1, <1>2, CallerFacts, RecvTurnConsistent DEF Recv, NoTraces
<1> QED BY <1>1, <1>2, SendToReceiverConsistent, SendAndQueueConsistent, ReplyConsistent
        DEF Syscall

-----------------------------------------------------------------------------
(* A step that is not part of a post and starts no send at the task owed one *)
LEMMA OwedKept ==
  ASSUME PostsAreOwed, UNCHANGED owed, NEW t, UNCHANGED <<pc[KernelThread]>>,
         \A v \in Slots \ {t} : pc'[v] \in SendCall => pc[v] \in SendCall,
         t \in Slots /\ pc'[t] \in SendCall => pc[t] \in SendCall \/ owed[t] = {}
  PROVE  PostsAreOwed'
BY DEF PostsAreOwed

(* Posts stay one at a time, and none that has found a receiver meets a sender. *)
LEMMA PostsStayOwed ==
  ASSUME UserKernel, AllTyped, TaskInv, PostsAreOwed, Next
  PROVE  PostsAreOwed'
<1>0. /\ pc \in [Slots -> Points] /\ owed \in [Slots -> SUBSET Bits]
      /\ KernelThread \in Slots /\ state[current] = "Runnable"
  BY SlotFacts, PointOfState DEF AllTyped, RestTyped
<1>1. ASSUME NEW t \in Slots, Syscall(t)
      PROVE  PostsAreOwed'
  <2>1. UNCHANGED owed /\ t # KernelThread
    BY <1>1, CallerFacts DEF Syscall, bootVars, SendToReceiver, SendAndQueue, Recv, Reply
  <2>2. \A v \in Slots \ {t} : pc'[v] = pc[v]
    BY <1>0, <1>1 DEF Syscall, SendToReceiver, SendAndQueue, Recv, RecvTurn, CollectNotification,
                      CollectMessage, ParkInRecv, Reply, GoTo
  <2>3. pc'[t] \in SendCall => pc[t] \in SendCall \/ owed[t] = {}
    <3>1. CASE PostsOnlyToReceivers => owed[t] = {}
      BY <1>0, <3>1 DEF PostsAreOwed, UserKernel
    <3>2. CASE \/ \E mask \in SUBSET Bits : Recv(t, mask)
               \/ \E s \in Slots : Reply(t, s)
      BY <1>0, <3>2 DEF Recv, RecvTurn, CollectNotification, CollectMessage, ParkInRecv, Reply,
                        GoTo, SendCall
    <3> QED BY <1>1, <3>1, <3>2 DEF Syscall
  <2> QED BY <2>1, <2>2, <2>3, <1>0, OwedKept
<1>2. ASSUME NEW t \in Slots, Resume(t)
      PROVE  PostsAreOwed'
  <2>1. UNCHANGED owed /\ t # KernelThread
    BY <1>2 DEF AllTyped, RestTyped, Resume, Start, SendWoke, SendReturn, RecvReturn,
                RecvAgain, FaultWoke, BlockReturn, bootVars, Posting
  <2>2. \A v \in Slots \ {t} : pc'[v] = pc[v]
    BY <1>0, <1>2 DEF Resume, Start, SendWoke, SendReturn, TakeOutcome, RecvReturn, RecvAgain,
                      RecvTurn, CollectNotification, CollectMessage, ParkInRecv, FaultWoke,
                      ParkForFault, BlockReturn, GoTo
  <2>3. pc'[t] \in SendCall => pc[t] \in SendCall
    BY <1>0, <1>2 DEF Resume, Start, SendWoke, SendReturn, TakeOutcome, RecvReturn, RecvAgain,
                      RecvTurn, CollectNotification, CollectMessage, ParkInRecv, FaultWoke,
                      ParkForFault, BlockReturn, GoTo, SendCall
  <2> QED BY <2>1, <2>2, <2>3, <1>0, OwedKept
<1>3. ASSUME NEW t \in Slots, Exit(t) \/ Fault(t) \/ Supervise(t) \/ Yield(t) \/ KernelTask(t)
      PROVE  PostsAreOwed'
  <2>1. UNCHANGED owed
    BY <1>3 DEF Exit, Fault, Supervise, Yield, KernelTask, bootVars
  <2>2. pc'[KernelThread] = pc[KernelThread]
    <3>1. CASE Exit(t) \/ Fault(t) \/ FaultWait(t)
      <4>1. t # KernelThread
        BY <3>1, CallerFacts DEF Exit, ExitCurrent, Fault, FaultCurrent, FaultWait
      <4> QED BY <1>0, <3>1, <4>1 DEF Exit, ExitCurrent, Fault, FaultCurrent, FaultWait,
                                      ParkForFault, GoTo
    <3>2. ASSUME NEW s \in Slots, Restart(t, s) PROVE pc'[KernelThread] = pc[KernelThread]
      <4> DEFINE st == StateAfterAbandon(state, s)
      <4>1. StateType(st)
        BY WokenEffect DEF StateAfterAbandon, AllTyped, SchedTyped
      <4> HIDE DEF st
      <4>2. pc' = IF st[s] = "Faulted" /\ image[s] THEN [pc EXCEPT ![s] = "start"] ELSE pc
        BY <3>2 DEF Restart, st
      <4>3. st[s] = "Faulted" => s # KernelThread
        BY <4>1 DEF StateType
      <4> QED BY <1>0, <4>2, <4>3
    <3>3. CASE Yield(t) \/ KernelTask(t)
      BY <1>0, <3>3 DEF AllTyped, RestTyped, Yield, YieldNow, KernelTask, BlockCurrent, Unblock,
         TaskFinished, FinishLook, FinishWake, FinishLeave, Finishing, GoTo, schedVars, Posting
    <3> QED BY <1>3, <3>1, <3>2, <3>3 DEF Supervise
  <2>3. \A v \in Slots : pc'[v] \in SendCall => pc[v] \in SendCall
    BY <1>0, <1>3 DEF Exit, ExitCurrent, Fault, FaultCurrent, Supervise, FaultWait, ParkForFault,
       Restart, Yield, YieldNow, KernelTask, BlockCurrent, Unblock, TaskFinished, FinishLook,
       FinishWake, FinishLeave, GoTo, schedVars, SendCall
  <2> QED BY <2>1, <2>2, <2>3, OwedKept
<1>4. ASSUME \/ \E p \in Priorities, k \in Kinds : Spawn(p, k)
             \/ SpawnDone \/ CleanUp \/ BootRoute \/ Appoint
      PROVE  PostsAreOwed'
  <2>1. UNCHANGED owed
    BY <1>4 DEF Spawn, SpawnDone, CleanUp, BootRoute, Appoint, bootVars
  <2>2. \/ UNCHANGED <<pc[KernelThread]>>
        \/ pc[KernelThread] \in {"run", "image"} /\ pc'[KernelThread] \in {"run", "image"}
    <3>1. CASE ReleaseDead
      BY <1>0, <3>1 DEF ReleaseDead, AllTyped, SchedTyped, StateType
    <3>2. CASE \E p \in Priorities, k \in Kinds : Spawn(p, k)
      <4>1. FreeSlot # KernelThread
        BY <3>2, FreeSlotFound DEF Spawn, SpawnIn, AllTyped, SchedTyped, StateType
      <4> QED BY <1>0, <3>2, <4>1 DEF Spawn, SpawnIn, InKernelThread, Running
    <3>3. CASE SpawnDone
      BY <1>0, <3>3 DEF SpawnDone, RecordImage, GoTo
    <3> QED BY <1>4, <3>1, <3>2, <3>3
            DEF CleanUp, ReapZombies, Kill, BootRoute, Route, Appoint, SetSupervisor, schedVars
  <2>3. \A v \in Slots : pc'[v] \in SendCall => pc[v] \in SendCall
    BY <1>0, <1>4 DEF Spawn, SpawnIn, SpawnDone, RecordImage, CleanUp, ReapZombies, ReleaseDead,
                      Kill, BootRoute, Route, Appoint, SetSupervisor, GoTo, schedVars, SendCall
  <2> QED BY <2>1, <2>2, <2>3 DEF PostsAreOwed
<1>5. CASE BootPost
  <2>1. PICK s \in Slots, b \in Bits :
          PostBits(s, {b}) /\ owed' = [owed EXCEPT ![s] = @ \cup {b}] /\ BootPosts
    BY <1>5 DEF BootPost
  <2>2. pc[KernelThread] = "run" /\ pc'[KernelThread] = "posting"
    BY <1>0, <2>1 DEF PostBits, InKernelThread, Running, GoTo
  <2>3. \A v \in Slots : v # s => owed'[v] = {}
    BY <1>0, <2>1, <2>2 DEF PostsAreOwed
  <2> QED BY <2>1, <2>2, <2>3 DEF PostsAreOwed
<1>6. CASE BootPostLook
  <2>1. PICK s \in Slots :
          /\ owed[s] # {} /\ PostLook(s, owed[s])
          /\ owed' = IF WakesOn(s, owed[s]) THEN owed ELSE [owed EXCEPT ![s] = {}]
    BY <1>6 DEF BootPostLook
  <2>2. \A v \in Slots : v # s => owed[v] = {}
    BY <2>1 DEF PostsAreOwed
  <2>3. /\ pc'[KernelThread] = IF WakesOn(s, owed[s]) THEN "waking" ELSE "run"
        /\ pc[KernelThread] = "posting"
        /\ \A v \in Slots \ {KernelThread} : pc'[v] = pc[v]
    BY <1>0, <2>1 DEF PostLook, GoTo
  <2>4. CASE WakesOn(s, owed[s])
    <3>1. pc[s] = "recvPark"
      <4>1. TaskConsistent(s) /\ wanted[s] # {}
        BY <2>4 DEF TaskInv, WakesOn
      <4> QED BY <4>1, <1>0 DEF TaskConsistent, OutsideCalls, Stopped, InSend, InFaultWait,
                                NoTraces, UserTasksOnly, Points, SendCall, Posting
    <3>2. pc'[s] \notin SendCall /\ BootPosts /\ owed' = owed
      BY <2>1, <2>3, <2>4, <3>1 DEF SendCall, PostsAreOwed
    <3> QED BY <2>2, <2>3, <2>4, <3>2 DEF PostsAreOwed
  <2>5. CASE ~WakesOn(s, owed[s])
    <3>1. \A v \in Slots : owed'[v] = {}
      BY <1>0, <2>1, <2>2, <2>5
    <3> QED BY <2>3, <2>5, <3>1 DEF PostsAreOwed
  <2> QED BY <2>4, <2>5
<1>7. CASE BootPostWake
  <2>1. PICK s \in Slots :
          owed[s] # {} /\ PostWake(s) /\ owed' = [owed EXCEPT ![s] = {}]
    BY <1>7 DEF BootPostWake
  <2>2. \A v \in Slots : owed'[v] = {}
    BY <1>0, <2>1 DEF PostsAreOwed
  <2>3. pc'[KernelThread] = "asking"
    BY <1>0, <2>1 DEF PostWake, GoTo
  <2> QED BY <2>2, <2>3 DEF PostsAreOwed
<1>8. CASE BootPostAsk
  <2>1. UNCHANGED owed /\ pc[KernelThread] = "asking" /\ pc'[KernelThread] = "run"
    BY <1>0, <1>8 DEF BootPostAsk, PostAsk, GoTo, bootVars
  <2> QED BY <2>1 DEF PostsAreOwed
<1>9. ASSUME NEW i \in IntIds, Interrupt(i)
      PROVE  PostsAreOwed'
  BY <1>9 DEF Interrupt, Irq, bootVars, PostsAreOwed
<1> QED BY <1>1, <1>2, <1>3, <1>4, <1>5, <1>6, <1>7, <1>8, <1>9 DEF Next

(* The boot state satisfies the inductive invariant. *)
LEMMA IInvInit == Init => IInv
<1> SUFFICES ASSUME Init PROVE IInv
  OBVIOUS
<1>1. TypeInv
  BY TypeInvInit
<1>2. ASSUME NEW t \in Slots PROVE TaskConsistent(t)
  <2>1. /\ state[t] = (IF t = KernelThread THEN "Runnable" ELSE "None") /\ space[t] = FALSE
        /\ pc[t] = (IF t = KernelThread THEN "run" ELSE "gone") /\ NoTraces(t)
    BY DEF Init, SchedInit, NotifyInit, IpcInit, SuperInit, NoTraces
  <2> QED BY <2>1 DEF TaskConsistent, OutsideCalls, Stopped, InSend, InRecv, InFaultWait,
                      UserTasksOnly, SendCall, Posting
<1>3. PostsAreOwed
  BY DEF Init, SchedInit, PostsAreOwed
<1> QED BY <1>1, <1>2, <1>3 DEF IInv

(* Every step of a kernel of EL0 tasks preserves it. *)
LEMMA IInvStep ==
  ASSUME UserKernel
  PROVE  IInv /\ [Next]_vars => IInv'
<1> SUFFICES ASSUME IInv, [Next]_vars PROVE IInv'
  OBVIOUS
<1>1. AllTyped /\ TaskInv /\ PostsAreOwed /\ TypeInv'
  BY TypeInvStep, TypeInvParts DEF IInv, TaskInv
<1>2. CASE Next
  <2>1. PostsAreOwed'
    BY <1>1, <1>2, PostsStayOwed
  <2>2. TaskInv'
    BY <1>1, <1>2, SyscallConsistent, ResumeConsistent, EndConsistent, SuperviseConsistent,
       KernelTaskConsistent, BootConsistent, InterruptConsistent
       DEF Next, PostStep, UserKernel
  <2> QED BY <1>1, <2>1, <2>2 DEF IInv, TaskInv
<1>3. CASE UNCHANGED vars
  <2>1. UNCHANGED <<state, space, pc, pending, outcome, leaseCount, faultWaiters,
                    posted, wanted, spawned, owed>>
    BY <1>3 DEF vars, schedVars, notifyVars, ipcVars, superVars, bootVars
  <2>2. PostsAreOwed'
    BY <1>1, <2>1 DEF PostsAreOwed
  <2> QED BY <1>1, <2>1, <2>2, PointOfState, StoppedMoves DEF IInv, TaskInv
<1> QED BY <1>2, <1>3

(* So it holds in every reachable state. *)
LEMMA IInvAlways ==
  ASSUME UserKernel
  PROVE  Spec => []IInv
BY IInvInit, IInvStep, PTL DEF Spec

(***************************************************************************)
(* No wakeup is lost between marking, waking and parking in send, recv and  *)
(* wait_for_fault, however many tasks there are.                            *)
(***************************************************************************)
THEOREM NoLostWakeup ==
  ASSUME UserKernel
  PROVE  Spec => []SleeperCanBeWoken
<1>1. IInv => SleeperCanBeWoken
  <2> SUFFICES ASSUME IInv, NEW t \in Slots, state[t] = "Blocked"
               PROVE  \/ pc[t] \in SendCall /\ pending[t].kind \in SendKinds
                      \/ pc[t] = "recvPark" /\ pending[t] = RecvWait /\ QueuedFor(t) = {}
                      \/ pc[t] = "faultPark" /\ faultWaiters[t]
                      \/ pc[t] = "blockPark"
    BY DEF SleeperCanBeWoken
  <2>1. TaskConsistent(t) /\ AllTyped /\ TaskInv
    BY TypeInvParts DEF IInv, TaskInv
  <2> QED BY <2>1, PointOfState DEF TaskConsistent, InSend, InRecv, InFaultWait
<1> QED BY <1>1, IInvAlways, PTL

(***************************************************************************)
(* The buffers checked at the entry of send and recv are still mapped when  *)
(* deliver and borrow use them: whoever has a pending entry has not run     *)
(* since, and its leases end with its send.                                 *)
(***************************************************************************)
THEOREM BuffersStayValid ==
  ASSUME UserKernel
  PROVE  Spec => []BuffersHeld
<1>1. IInv => BuffersHeld
  <2> SUFFICES ASSUME IInv, NEW t \in Slots
               PROVE  /\ pending[t].kind \in SendKinds =>
                           pc[t] \in SendCall /\ state[t] = "Blocked" /\ space[t]
                      /\ pending[t].kind = "RecvWait" =>
                           pc[t] = "recvPark" /\ IsAlive(t) /\ space[t]
                      /\ leaseCount[t] > 0 => pending[t].kind \in SendKinds
    BY DEF BuffersHeld
  <2>1. TaskConsistent(t) /\ AllTyped /\ TaskInv /\ pc[t] \in Points
    BY TypeInvParts DEF IInv, TaskInv, AllTyped, RestTyped
  <2>2. leaseCount[t] > 0 => pending[t].kind \in SendKinds
    BY <2>1 DEF TaskConsistent, OutsideCalls, Stopped, InSend, InRecv, InFaultWait,
                UserTasksOnly, NoTraces, SendCall, Points, Posting
  <2> QED BY <2>1, <2>2, PendingFacts DEF IsAlive
<1> QED BY <1>1, IInvAlways, PTL

(***************************************************************************)
(* Nobody waits on a task that has stopped: exit, fault and restart release *)
(* every sender, and nobody can start waiting on a stopped task.            *)
(***************************************************************************)
THEOREM NoSenderStranded ==
  ASSUME UserKernel
  PROVE  Spec => []NobodyWaitsOnTheGone
<1>1. IInv => NobodyWaitsOnTheGone
  BY TypeInvParts, PeerFacts DEF IInv, TaskInv, NobodyWaitsOnTheGone, IsAlive
<1> QED BY <1>1, IInvAlways, PTL

(***************************************************************************)
(* What a task reads when it wakes in send or recv belongs to that call,    *)
(* and no fresh instance starts with an outcome of whoever went before it.  *)
(***************************************************************************)
THEOREM OutcomesMatch ==
  ASSUME UserKernel
  PROVE  Spec => []OutcomeMatchesCall
<1>1. IInv => OutcomeMatchesCall
  <2> SUFFICES ASSUME IInv, NEW t \in Slots
               PROVE  /\ state[t] = "Runnable" /\ pc[t] \in SendCall =>
                           outcome[t].kind \in {"reply", "dead"}
                      /\ state[t] = "Runnable" /\ pc[t] = "recvPark"
                           /\ pending[t].kind = "None" =>
                           outcome[t].kind = "message" /\ pending[outcome[t].from] = ReplyWait(t)
                      /\ pc[t] \notin SendCall \cup {"recvPark"} => outcome[t] = Zero
    BY DEF OutcomeMatchesCall
  <2>1. TaskConsistent(t)
    BY DEF IInv
  <2>2. pc[t] \notin SendCall \cup {"recvPark"} => outcome[t] = Zero
    <3>1. pc[t] \in Points
      BY TypeInvParts DEF IInv, AllTyped, RestTyped
    <3> QED BY <2>1, <3>1 DEF TaskConsistent, OutsideCalls, Stopped, InFaultWait, UserTasksOnly,
                              NoTraces, SendCall, Posting, Points
  <2> QED BY <2>1, <2>2, PendingShapes DEF TaskConsistent, InSend, InRecv
<1> QED BY <1>1, IInvAlways, PTL

(* A fault and a fault_wait that race never leave the supervisor asleep. *)
THEOREM NoFaultMissed ==
  ASSUME UserKernel
  PROVE  Spec => []NoMissedFault
<1>1. IInv => NoMissedFault
  BY DEF IInv, NoMissedFault, TaskConsistent, InFaultWait
<1> QED BY <1>1, IInvAlways, PTL

-----------------------------------------------------------------------------
(* What no step may do *)

(* The refinement mapping, as a function of what is read *)
CallFrom(p, o, c) ==
  CASE p.kind = "SendWait"  -> [stage |-> "queued", peer |-> p.target]
    [] p.kind = "ReplyWait" -> [stage |-> "accepted", peer |-> p.target]
    [] c \in SendCall /\ p.kind = "None" ->
         [stage |-> IF o.kind = "reply" THEN "answered" ELSE "failed", peer |-> o.from]
    [] OTHER -> [stage |-> "idle", peer |-> "nobody"]

Call(stage, u) == [stage |-> stage, peer |-> u]
Idle == [stage |-> "idle", peer |-> "nobody"]

(* CallOf reads these three entries, before and after a step. *)
LEMMA CallRead ==
  ASSUME NEW s
  PROVE  /\ CallOf(s) = CallFrom(pending[s], outcome[s], pc[s])
         /\ CallOf(s)' = CallFrom(pending'[s], outcome'[s], pc'[s])
BY Zenon DEF CallOf, CallFrom

(* The call of a task by what its entries are *)
LEMMA CallShapes ==
  ASSUME NEW o, NEW c
  PROVE  /\ \A u : CallFrom(SendWait(u), o, c) = Call("queued", u)
         /\ \A u : CallFrom(ReplyWait(u), o, c) = Call("accepted", u)
         /\ CallFrom(RecvWait, o, c) = Idle
         /\ c \notin SendCall => CallFrom(NoPending, o, c) = Idle
         /\ c \in SendCall => CallFrom(NoPending, o, c) =
              Call(IF o.kind = "reply" THEN "answered" ELSE "failed", o.from)
BY DEF CallFrom, SendWait, ReplyWait, RecvWait, NoPending, Call, Idle, SendCall

(* A task that waits for u, before and after a step *)
LEMMA WaitsFor ==
  ASSUME NEW s, NEW u
  PROVE  /\ pending[s] = SendWait(u) => CallOf(s) = Call("queued", u)
         /\ pending[s] = ReplyWait(u) => CallOf(s) = Call("accepted", u)
         /\ pending'[s] = SendWait(u) => CallOf(s)' = Call("queued", u)
         /\ pending'[s] = ReplyWait(u) => CallOf(s)' = Call("accepted", u)
<1>1. \A p, o, c : /\ p = SendWait(u) => CallFrom(p, o, c) = Call("queued", u)
                   /\ p = ReplyWait(u) => CallFrom(p, o, c) = Call("accepted", u)
  BY DEF CallFrom, SendWait, ReplyWait, Call
<1> QED BY <1>1, CallRead, Zenon

Same(s) == CallOf(s)' = CallOf(s)
SameLife(s) == IsAlive(s)' <=> IsAlive(s)

(* Entries that do not change, or change where no call is made *)
LEMMA SameCall ==
  ASSUME NEW s \in Slots,
         pending'[s] = pending[s], outcome'[s] = outcome[s],
         pc'[s] = pc[s] \/ (pc[s] \notin SendCall /\ pc'[s] \notin SendCall)
  PROVE  Same(s)
BY CallRead, Zenon DEF Same, CallFrom

(* No call moves and nobody comes or goes. *)
LEMMA MapsToStutter ==
  ASSUME \A s \in Slots : Same(s), \A s \in Slots : SameLife(s)
  PROVE  UNCHANGED <<{t \in Slots : IsAlive(t)}, [t \in Slots |-> CallOf(t)]>>
BY DEF Same, SameLife

(* The mapped table after one call has moved *)
LEMMA OneCallMoves ==
  ASSUME NEW t \in Slots, NEW c, CallOf(t)' = c,
         \A s \in Slots \ {t} : Same(s), \A s \in Slots : SameLife(s)
  PROVE  /\ [v \in Slots |-> CallOf(v)]' = [[v \in Slots |-> CallOf(v)] EXCEPT ![t] = c]
         /\ {v \in Slots : IsAlive(v)}' = {v \in Slots : IsAlive(v)}
<1>1. \A s \in Slots : CallOf(s)' = IF s = t THEN c ELSE CallOf(s)
  BY DEF Same
<1> QED BY <1>1 DEF SameLife

(* send *)
LEMMA MapsToCall ==
  ASSUME NEW t \in Slots, NEW u \in Slots, t # u, IsAlive(t), IsAlive(u),
         NEW stage \in {"queued", "accepted"},
         CallOf(t) = Idle, stage = "accepted" => CallOf(u) = Idle,
         CallOf(t)' = Call(stage, u),
         \A s \in Slots \ {t} : Same(s), \A s \in Slots : SameLife(s)
  PROVE  Abstract!Next
<1>1. Call(stage, u) # Idle
  BY DEF Call, Idle
<1>2. Abstract!Call(t, u, stage)
  BY OneCallMoves DEF Abstract!Call, Abstract!At, Abstract!NoCall, Call, Idle
<1>3. [v \in Slots |-> CallOf(v)]'[t] # [v \in Slots |-> CallOf(v)][t]
  BY <1>1
<1> QED BY <1>2, <1>3 DEF Abstract!Next

(* recv collects a queued message; reply answers a collected one. *)
LEMMA MapsToService ==
  ASSUME NEW t \in Slots, NEW u \in Slots, IsAlive(u), CallOf(u) = Idle,
         \/ CallOf(t) = Call("queued", u) /\ CallOf(t)' = Call("accepted", u)
         \/ CallOf(t) = Call("accepted", u) /\ CallOf(t)' = Call("answered", u),
         \A s \in Slots \ {t} : Same(s), \A s \in Slots : SameLife(s)
  PROVE  Abstract!Next
<1>1. CASE CallOf(t) = Call("queued", u) /\ CallOf(t)' = Call("accepted", u)
  <2>1. Abstract!Accept(u, t)
    BY <1>1, OneCallMoves DEF Abstract!Accept, Abstract!At, Abstract!NoCall, Call, Idle
  <2>2. [v \in Slots |-> CallOf(v)]'[t] # [v \in Slots |-> CallOf(v)][t]
    BY <1>1 DEF Call
  <2> QED BY <2>1, <2>2 DEF Abstract!Next
<1>2. CASE CallOf(t) = Call("accepted", u) /\ CallOf(t)' = Call("answered", u)
  <2>1. Abstract!Answer(u, t)
    BY <1>2, OneCallMoves DEF Abstract!Answer, Abstract!At, Abstract!NoCall, Call, Idle
  <2>2. [v \in Slots |-> CallOf(v)]'[t] # [v \in Slots |-> CallOf(v)][t]
    BY <1>2 DEF Call
  <2> QED BY <2>1, <2>2 DEF Abstract!Next
<1> QED BY <1>1, <1>2

(* The end of send *)
LEMMA MapsToReturn ==
  ASSUME NEW t \in Slots, IsAlive(t), CallOf(t).stage \in {"answered", "failed"},
         CallOf(t)' = Idle,
         \A s \in Slots \ {t} : Same(s), \A s \in Slots : SameLife(s)
  PROVE  Abstract!Next
<1>1. Abstract!Return(t)
  BY OneCallMoves DEF Abstract!Return, Abstract!NoCall, Idle
<1>2. [v \in Slots |-> CallOf(v)]'[t] # [v \in Slots |-> CallOf(v)][t]
  BY DEF Idle
<1> QED BY <1>1, <1>2 DEF Abstract!Next

(* exit and fault: whoever was waiting is told, and nobody else *)
LEMMA MapsToDepart ==
  ASSUME NEW t \in Slots, IsAlive(t), ~IsAlive(t)', CallOf(t) = Idle,
         \A s \in Slots : CallOf(s)' = IF CallOf(s) \in {Call("queued", t), Call("accepted", t)}
                                       THEN Call("failed", t) ELSE CallOf(s),
         \A s \in Slots \ {t} : SameLife(s)
  PROVE  Abstract!Next
<1>1. {v \in Slots : IsAlive(v)}' = {v \in Slots : IsAlive(v)} \ {t}
  BY DEF SameLife
<1>2. Abstract!Depart(t)
  BY <1>1 DEF Abstract!Depart, Abstract!At, Abstract!NoCall, Call, Idle
<1>3. {v \in Slots : IsAlive(v)}' # {v \in Slots : IsAlive(v)}
  BY <1>1
<1> QED BY <1>2, <1>3 DEF Abstract!Next

(* spawn, and restart of a faulted task *)
LEMMA MapsToArrive ==
  ASSUME NEW t \in Slots, ~IsAlive(t), IsAlive(t)', CallOf(t) = Idle,
         \A s \in Slots : CallOf(s) \notin {Call("queued", t), Call("accepted", t)},
         \A s \in Slots : Same(s), \A s \in Slots \ {t} : SameLife(s)
  PROVE  Abstract!Next
<1>1. {v \in Slots : IsAlive(v)}' = {v \in Slots : IsAlive(v)} \cup {t}
  BY DEF SameLife
<1>2. [v \in Slots |-> CallOf(v)]' = [v \in Slots |-> CallOf(v)]
  BY DEF Same
<1>3. Abstract!Arrive(t)
  BY <1>1, <1>2 DEF Abstract!Arrive, Abstract!At, Abstract!NoCall, Call, Idle
<1>4. {v \in Slots : IsAlive(v)}' # {v \in Slots : IsAlive(v)}
  BY <1>1
<1> QED BY <1>3, <1>4 DEF Abstract!Next

-----------------------------------------------------------------------------
(* What the inductive invariant says of a task's call *)
LEMMA CallFacts ==
  ASSUME AllTyped, TaskInv, NEW s \in Slots
  PROVE  /\ pc[s] \notin SendCall => CallOf(s) = Idle /\ pending[s] \in {NoPending, RecvWait}
         /\ pc[s] \in SendCall /\ state[s] = "Runnable" =>
              pending[s] = NoPending /\ CallOf(s).stage \in {"answered", "failed"}
         /\ \A u : CallOf(s) \in {Call("queued", u), Call("accepted", u)} <=>
                     pending[s] \in {SendWait(u), ReplyWait(u)}
<1>1. TaskConsistent(s) /\ pc[s] \in Points /\ pending[s] \in Pendings
  BY DEF TaskInv, AllTyped, RestTyped, IpcTyped
<1>2. CallOf(s) = CallFrom(pending[s], outcome[s], pc[s])
  BY CallRead
<1>3. pc[s] \notin SendCall => pending[s] \in {NoPending, RecvWait}
  BY <1>1 DEF TaskConsistent, OutsideCalls, Stopped, InRecv, InFaultWait, UserTasksOnly,
              SendCall, Points, NoTraces, Posting
<1>4. pc[s] \in SendCall =>
        \/ pending[s] = NoPending
        \/ state[s] = "Blocked" /\ pending[s].kind \in SendKinds
  BY <1>1 DEF TaskConsistent, InSend
<1>5. pending[s].kind \in SendKinds =>
        \/ pending[s] = SendWait(pending[s].target)
        \/ pending[s] = ReplyWait(pending[s].target)
  BY <1>1, PendingShapes DEF SendKinds
<1>6. pc[s] \notin SendCall => CallOf(s) = Idle
  BY <1>2, <1>3, CallShapes
<1>7. pending[s] = NoPending /\ pc[s] \in SendCall => CallOf(s).stage \in {"answered", "failed"}
  BY <1>2, CallShapes DEF Call
<1>8. ASSUME NEW u
      PROVE  CallOf(s) \in {Call("queued", u), Call("accepted", u)} <=>
               pending[s] \in {SendWait(u), ReplyWait(u)}
  <2>1. pending[s] \in {SendWait(u), ReplyWait(u)} =>
          CallOf(s) \in {Call("queued", u), Call("accepted", u)}
    BY WaitsFor
  <2>2. CASE pending[s].kind \in SendKinds
    <3> DEFINE g == pending[s].target
    <3>1. \/ pending[s] = SendWait(g) /\ CallOf(s) = Call("queued", g)
          \/ pending[s] = ReplyWait(g) /\ CallOf(s) = Call("accepted", g)
      BY <1>5, <2>2, WaitsFor
    <3> HIDE DEF g
    <3> QED BY <2>1, <3>1 DEF Call
  <2>3. CASE pending[s].kind \notin SendKinds
    <3>1. CallOf(s) = Idle \/ CallOf(s).stage \in {"answered", "failed"}
      BY <1>4, <1>6, <1>7, <2>3
    <3> QED BY <2>1, <3>1 DEF Call, Idle
  <2> QED BY <2>2, <2>3
<1> QED BY <1>3, <1>4, <1>6, <1>7, <1>8, PendingShapes

(* A task a step leaves alone, but for reaping, stays as alive as it was. *)
LEMMA StaysAsAlive ==
  ASSUME NEW s, Undisturbed(s)
  PROVE  SameLife(s)
BY DEF Undisturbed, SameLife, IsAlive

(* One step of the kernel is a step of Rendezvous, or none. *)
KeepsPromise ==
  \/ Abstract!Next
  \/ UNCHANGED <<{t \in Slots : IsAlive(t)}, [t \in Slots |-> CallOf(t)]>>

(* Steps that write neither the IPC table nor a resumption point in send *)
LEMMA QuietPromise ==
  ASSUME AllTyped, TaskInv, UNCHANGED <<pending, outcome>>,
         \A s \in Slots : pc'[s] = pc[s] \/ (pc[s] \notin SendCall /\ pc'[s] \notin SendCall),
         \A s \in Slots : SameLife(s)
  PROVE  KeepsPromise
BY SameCall, MapsToStutter DEF KeepsPromise

(* send to a waiting receiver *)
LEMMA SendToReceiverPromise ==
  ASSUME AllTyped, TaskInv, NEW t \in Slots, NEW u \in Slots, NEW n \in 0 .. MaxLeases,
         SendToReceiver(t, u, n)
  PROVE  KeepsPromise
<1>1. t # KernelThread /\ pc[t] = "run" /\ state[t] = "Runnable"
  BY CallerFacts DEF SendToReceiver
<1>2. /\ u # t /\ pc[u] = "recvPark" /\ pending[u] = RecvWait
      /\ state[u] \in {"Runnable", "Blocked"}
  BY PendingFacts DEF SendToReceiver
<1>3. /\ pending'[t] = ReplyWait(u) /\ pending'[u] = NoPending
      /\ \A v \in Slots \ {t, u} : pending'[v] = pending[v]
      /\ \A v \in Slots \ {u} : outcome'[v] = outcome[v]
      /\ \A v \in Slots \ {t} : pc'[v] = pc[v]
  BY <1>2 DEF SendToReceiver, GoTo, AllTyped, IpcTyped, RestTyped
<1>4. /\ state'[t] = "Blocked" /\ state'[u] = "Runnable"
      /\ \A v \in Slots \ {t, u} : Undisturbed(v)
  <2> DEFINE mk == Marked(state, t)
             st == Woken(mk, {u})
  <2>1. StateType(mk) /\ \A v \in Slots : mk[v] = IF v = t THEN "Blocked" ELSE state[v]
    BY <1>1, MarkedEffect DEF AllTyped, SchedTyped
  <2> HIDE DEF mk
  <2>2. /\ StateType(st)
        /\ \A v \in Slots : st[v] = IF v = u /\ mk[u] = "Blocked" THEN "Runnable" ELSE mk[v]
    BY <2>1, WokenEffect
  <2>3. SwitchToNext(st)
    BY DEF SendToReceiver, mk
  <2> HIDE DEF st
  <2>4. SwitchedFrom(st)
    BY <2>2, <2>3, HandedOver
  <2> QED BY <2>1, <2>2, <2>4, <1>2 DEF SwitchedFrom, Undisturbed
<1>5. \A s \in Slots : SameLife(s)
  BY <1>1, <1>2, <1>4, StaysAsAlive DEF SameLife, IsAlive
<1>6. CallOf(t) = Idle /\ CallOf(u) = Idle
  BY <1>1, <1>2, CallFacts DEF SendCall
<1>7. CallOf(t)' = Call("accepted", u) /\ CallOf(u)' = Idle
  <2>1. pc'[u] \notin SendCall
    BY <1>2, <1>3 DEF SendCall
  <2>2. CallOf(u)' = Idle
    BY <1>3, <2>1, CallRead, CallShapes
  <2> QED BY <1>3, <2>2, WaitsFor
<1>8. \A s \in Slots \ {t} : Same(s)
  BY <1>3, <1>6, <1>7, SameCall DEF Same
<1> QED BY <1>1, <1>2, <1>5, <1>6, <1>7, <1>8, MapsToCall DEF KeepsPromise, IsAlive

(* send with nobody listening *)
LEMMA SendAndQueuePromise ==
  ASSUME AllTyped, TaskInv, NEW t \in Slots, NEW u \in Slots, NEW n \in 0 .. MaxLeases,
         SendAndQueue(t, u, n)
  PROVE  KeepsPromise
<1>1. t # KernelThread /\ pc[t] = "run" /\ state[t] = "Runnable"
  BY CallerFacts DEF SendAndQueue
<1>2. u # t /\ IsAlive(u)
  BY DEF SendAndQueue
<1>3. /\ pending'[t] = SendWait(u) /\ \A v \in Slots \ {t} : pending'[v] = pending[v]
      /\ \A v \in Slots \ {t} : pc'[v] = pc[v]
      /\ UNCHANGED outcome
  BY DEF SendAndQueue, GoTo, AllTyped, IpcTyped, RestTyped
<1>4. state'[t] = "Blocked" /\ \A v \in Slots \ {t} : Undisturbed(v)
  BY <1>1, ParkedTable DEF SendAndQueue
<1>5. \A s \in Slots : SameLife(s)
  BY <1>1, <1>4, StaysAsAlive DEF SameLife, IsAlive
<1>6. CallOf(t) = Idle
  BY <1>1, CallFacts DEF SendCall
<1>7. CallOf(t)' = Call("queued", u)
  BY <1>3, WaitsFor
<1>8. \A s \in Slots \ {t} : Same(s)
  BY <1>3, SameCall
<1> QED BY <1>1, <1>2, <1>5, <1>6, <1>7, <1>8, MapsToCall DEF KeepsPromise, IsAlive

(* One turn of the loop in recv *)
LEMMA RecvTurnPromise ==
  ASSUME AllTyped, TaskInv, NEW t \in Slots, t # KernelThread, state[t] = "Runnable",
         pc[t] \notin SendCall, NEW mask \in SUBSET Bits, RecvTurn(t, mask, NoPending)
  PROVE  KeepsPromise
<1>1. CallOf(t) = Idle /\ pending[t] \in {NoPending, RecvWait}
  BY CallFacts
<1>2. /\ pending \in [Slots -> Pendings] /\ pc \in [Slots -> Points] /\ UNCHANGED outcome
  BY DEF AllTyped, IpcTyped, RestTyped, RecvTurn
<1>3. ASSUME pending'[t] \in {NoPending, RecvWait}, pc'[t] \notin SendCall
      PROVE  Same(t)
  BY <1>1, <1>3, CallRead, CallShapes DEF Same
<1>4. CASE CollectNotification(t, mask, NoPending)
  <2>1. /\ pending'[t] = NoPending /\ \A v \in Slots \ {t} : pending'[v] = pending[v]
        /\ pc'[t] = "run" /\ \A v \in Slots \ {t} : pc'[v] = pc[v]
        /\ UNCHANGED state
    BY <1>2, <1>4 DEF CollectNotification, GoTo, StayOn
  <2>2. Same(t) /\ \A s \in Slots \ {t} : Same(s)
    BY <1>2, <1>3, <2>1, SameCall DEF SendCall
  <2>3. \A s \in Slots : SameLife(s)
    BY <2>1 DEF SameLife, IsAlive
  <2> QED BY <2>2, <2>3, MapsToStutter DEF KeepsPromise
<1>5. CASE CollectMessage(t, mask, NoPending)
  <2>1. PICK b \in Slots : b = BestSender(t) /\ pending[b] = SendWait(t)
    BY <1>5, BestSenderFound, AllTypedPriority DEF CollectMessage, QueuedFor
  <2>2. b # t
    BY <2>1, <1>1, PendingShapes
  <2>3. /\ pending'[t] = NoPending /\ pending'[b] = ReplyWait(t)
        /\ \A v \in Slots \ {t, b} : pending'[v] = pending[v]
        /\ pc'[t] = "run" /\ \A v \in Slots \ {t} : pc'[v] = pc[v]
        /\ UNCHANGED state
    BY <1>2, <1>5, <2>1, <2>2 DEF CollectMessage, GoTo, StayOn
  <2>4. Same(t) /\ \A s \in Slots \ {t, b} : Same(s)
    BY <1>2, <1>3, <2>3, SameCall DEF SendCall
  <2>5. \A s \in Slots : SameLife(s)
    BY <2>3 DEF SameLife, IsAlive
  <2>6. CallOf(b) = Call("queued", t) /\ CallOf(b)' = Call("accepted", t)
    BY <2>1, <2>3, WaitsFor
  <2>7. IsAlive(t)
    BY DEF IsAlive
  <2>8. \A s \in Slots \ {b} : Same(s)
    BY <2>4
  <2> QED BY <1>1, <2>1, <2>5, <2>6, <2>7, <2>8, MapsToService DEF KeepsPromise
<1>6. CASE ParkInRecv(t, mask)
  <2>1. /\ pending'[t] = RecvWait /\ \A v \in Slots \ {t} : pending'[v] = pending[v]
        /\ pc'[t] = "recvPark" /\ \A v \in Slots \ {t} : pc'[v] = pc[v]
    BY <1>2, <1>6 DEF ParkInRecv, GoTo
  <2>2. state'[t] = "Blocked" /\ \A v \in Slots \ {t} : Undisturbed(v)
    BY <1>6, ParkedTable DEF ParkInRecv
  <2>3. Same(t) /\ \A s \in Slots \ {t} : Same(s)
    BY <1>2, <1>3, <2>1, SameCall DEF SendCall
  <2>4. \A s \in Slots : SameLife(s)
    BY <2>2, StaysAsAlive DEF SameLife, IsAlive
  <2> QED BY <2>3, <2>4, MapsToStutter DEF KeepsPromise
<1> QED BY <1>4, <1>5, <1>6 DEF RecvTurn

(* reply *)
LEMMA ReplyPromise ==
  ASSUME AllTyped, TaskInv, NEW t \in Slots, NEW w \in Slots, Reply(t, w)
  PROVE  KeepsPromise
<1>1. state[t] = "Runnable" /\ pc[t] = "run"
  BY CallerFacts DEF Reply
<1>2. pending[w] = ReplyWait(t) /\ pending[w].kind \in SendKinds
  BY PendingShapes DEF Reply, SendKinds
<1>3. pc[w] \in SendCall /\ state[w] = "Blocked"
  BY <1>2, PendingFacts
<1>4. /\ pending'[w] = NoPending /\ outcome'[w] = Answer(t)
      /\ \A v \in Slots \ {w} : pending'[v] = pending[v] /\ outcome'[v] = outcome[v]
      /\ UNCHANGED pc
  BY DEF Reply, DeliverOutcome, AllTyped, IpcTyped
<1>5. state'[w] = "Runnable" /\ \A v \in Slots \ {w} : Undisturbed(v)
  <2> DEFINE st == Woken(state, {w})
  <2>1. /\ StateType(state) /\ WakeAndYield(state, t, w)
        /\ \A v \in Slots : st[v] = IF v = w THEN "Runnable" ELSE state[v]
    BY <1>3, WokenEffect DEF AllTyped, SchedTyped, Reply
  <2>2. SwitchedFrom(st)
    BY <2>1, WokenOver
  <2> HIDE DEF st
  <2> QED BY <2>1, <2>2 DEF SwitchedFrom, Undisturbed
<1>6. \A s \in Slots : SameLife(s)
  BY <1>3, <1>5, StaysAsAlive DEF SameLife, IsAlive
<1>7. CallOf(t) = Idle /\ IsAlive(t)
  BY <1>1, CallFacts DEF SendCall, IsAlive
<1>8. CallOf(w) = Call("accepted", t) /\ CallOf(w)' = Call("answered", t)
  <2>1. outcome'[w].kind = "reply" /\ outcome'[w].from = t
    BY <1>4 DEF Answer
  <2>2. CallOf(w) = Call("accepted", t)
    BY <1>2, WaitsFor
  <2>3. CallOf(w)' = Call(IF outcome'[w].kind = "reply" THEN "answered" ELSE "failed", outcome'[w].from)
    BY <1>3, <1>4, CallRead, CallShapes
  <2> QED BY <2>1, <2>2, <2>3
<1>9. \A s \in Slots \ {w} : Same(s)
  BY <1>4, SameCall
<1> QED BY <1>6, <1>7, <1>8, <1>9, MapsToService DEF KeepsPromise

(* send, recv and reply *)
LEMMA SyscallPromise ==
  ASSUME AllTyped, TaskInv, NEW t \in Slots, Syscall(t)
  PROVE  KeepsPromise
<1>1. ASSUME NEW mask \in SUBSET Bits, Recv(t, mask)
      PROVE  KeepsPromise
  <2>1. t # KernelThread /\ state[t] = "Runnable" /\ pc[t] = "run"
    BY <1>1, CallerFacts DEF Recv
  <2>2. pending[t] = NoPending
    BY <1>1, CallerFacts DEF Recv, NoTraces
  <2> QED BY <1>1, <2>1, <2>2, RecvTurnPromise DEF Recv, SendCall
<1> QED BY <1>1, SendToReceiverPromise, SendAndQueuePromise, ReplyPromise DEF Syscall

(* fault_wait parks its caller, outside every call. *)
LEMMA ParkForFaultPromise ==
  ASSUME AllTyped, TaskInv, NEW t \in Slots, t # KernelThread, state[t] = "Runnable",
         pc[t] \notin SendCall, ParkForFault(t), UNCHANGED ipcVars
  PROVE  KeepsPromise
<1>1. /\ pc'[t] = "faultPark" /\ \A v \in Slots \ {t} : pc'[v] = pc[v]
      /\ UNCHANGED <<pending, outcome>>
  BY DEF ParkForFault, GoTo, ipcVars, AllTyped, RestTyped
<1>2. state'[t] = "Blocked" /\ \A v \in Slots \ {t} : Undisturbed(v)
  BY ParkedTable DEF ParkForFault
<1>3. \A s \in Slots : SameLife(s)
  BY <1>2, StaysAsAlive DEF SameLife, IsAlive
<1> QED BY <1>1, <1>3, QuietPromise DEF SendCall

(* What a task does when it is resumed inside the kernel *)
LEMMA ResumePromise ==
  ASSUME AllTyped, TaskInv, NEW t \in Slots, Resume(t)
  PROVE  KeepsPromise
<1>1. state[current] = "Runnable" /\ pc[t] # "blockPark"
  BY PointOfState
<1>2. t # KernelThread /\ current = t /\ state[t] = "Runnable"
  BY <1>1 DEF AllTyped, RestTyped, Resume, Start, SendWoke, SendReturn, RecvReturn,
              RecvAgain, FaultWoke, BlockReturn, Posting
<1>3. /\ outcome \in [Slots -> Outcomes] /\ pc \in [Slots -> Points]
      /\ wanted \in [Slots -> SUBSET Bits]
  BY DEF AllTyped, IpcTyped, RestTyped, NotifyTyped
<1>4. CASE Start(t) /\ UNCHANGED <<notifyVars, ipcVars, superVars, bootVars>>
  <2>1. /\ pc[t] = "start" /\ pc'[t] = "run" /\ \A v \in Slots \ {t} : pc'[v] = pc[v]
        /\ UNCHANGED <<state, pending, outcome>>
    BY <1>3, <1>4 DEF Start, GoTo, ipcVars
  <2>2. \A s \in Slots : SameLife(s)
    BY <2>1 DEF SameLife, IsAlive
  <2> QED BY <2>1, <2>2, QuietPromise DEF SendCall
<1>5. CASE SendWoke(t) \/ SendReturn(t)
  <2>1. pc[t] \in SendCall
    BY <1>5 DEF SendWoke, SendReturn, SendCall
  <2>2. pending[t] = NoPending /\ CallOf(t).stage \in {"answered", "failed"}
    BY <1>2, <2>1, CallFacts
  <2>3. /\ pc'[t] = "run" /\ \A v \in Slots \ {t} : pc'[v] = pc[v]
        /\ \A v \in Slots \ {t} : outcome'[v] = outcome[v]
        /\ UNCHANGED <<state, pending>>
    BY <1>2, <1>3, <1>5 DEF SendWoke, SendReturn, TakeOutcome, StayOn, GoTo
  <2>4. CallOf(t)' = Idle
    <3>1. pending'[t] = NoPending /\ pc'[t] \notin SendCall
      BY <2>2, <2>3 DEF SendCall
    <3> QED BY <3>1, CallRead, CallShapes
  <2>5. \A s \in Slots \ {t} : Same(s)
    BY <2>3, SameCall
  <2>6. (\A s \in Slots : SameLife(s)) /\ IsAlive(t)
    BY <1>2, <2>3 DEF SameLife, IsAlive
  <2> QED BY <2>2, <2>4, <2>5, <2>6, MapsToReturn DEF KeepsPromise
<1>6. CASE RecvReturn(t)
  <2>1. /\ pc[t] = "recvPark" /\ pc'[t] = "run" /\ \A v \in Slots \ {t} : pc'[v] = pc[v]
        /\ \A v \in Slots \ {t} : outcome'[v] = outcome[v]
        /\ UNCHANGED <<state, pending>>
    BY <1>3, <1>6 DEF RecvReturn, TakeOutcome, GoTo
  <2>2. pc[t] \notin SendCall /\ pc'[t] \notin SendCall
    BY <2>1 DEF SendCall
  <2>3. CallOf(t) = Idle /\ pending'[t] \in {NoPending, RecvWait}
    BY <2>1, <2>2, CallFacts
  <2>4. Same(t)
    BY <2>2, <2>3, CallRead, CallShapes DEF Same
  <2>5. \A s \in Slots \ {t} : Same(s)
    BY <2>1, SameCall
  <2>6. \A s \in Slots : SameLife(s)
    BY <2>1 DEF SameLife, IsAlive
  <2> QED BY <2>4, <2>5, <2>6, MapsToStutter DEF KeepsPromise
<1>7. CASE RecvAgain(t)
  <2>1. pc[t] = "recvPark" /\ RecvTurn(t, wanted[t], NoPending) /\ wanted[t] \in SUBSET Bits
    BY <1>3, <1>7 DEF RecvAgain
  <2>2. pc[t] \notin SendCall
    BY <2>1 DEF SendCall
  <2> QED BY <1>2, <2>1, <2>2, RecvTurnPromise
<1>8. CASE FaultWoke(t)
  <2>1. pc[t] \notin SendCall /\ UNCHANGED ipcVars
    BY <1>8 DEF FaultWoke, SendCall
  <2>2. CASE FaultedTasks = {}
    BY <1>2, <1>8, <2>1, <2>2, ParkForFaultPromise DEF FaultWoke
  <2>3. CASE FaultedTasks # {}
    <3>1. /\ pc'[t] = "run" /\ \A v \in Slots \ {t} : pc'[v] = pc[v]
          /\ UNCHANGED <<state, pending, outcome>>
      BY <1>3, <1>8, <2>3 DEF FaultWoke, GoTo, StayOn, ipcVars
    <3>2. \A s \in Slots : SameLife(s)
      BY <3>1 DEF SameLife, IsAlive
    <3> QED BY <2>1, <3>1, <3>2, QuietPromise DEF SendCall
  <2> QED BY <2>2, <2>3
<1> QED BY <1>1, <1>4, <1>5, <1>6, <1>7, <1>8 DEF Resume, BlockReturn

(* A task that leaves for good fails the calls made to it, and no other. *)
LEMMA DeparturePromise ==
  ASSUME AllTyped, TaskInv, NEW t \in Slots, InUser(t), Abandon(t), GoTo(t, "gone"),
         ~IsAlive(t)', \A v \in Slots \ {t} : SameLife(v)
  PROVE  KeepsPromise
<1> DEFINE W == WaitingOn(t)
<1>1. pc[t] = "run" /\ state[t] = "Runnable" /\ NoTraces(t)
  BY CallerFacts
<1>2. CallOf(t) = Idle /\ IsAlive(t)
  BY <1>1, CallFacts DEF SendCall, IsAlive
<1>3. \A v \in Slots : CallOf(v) \in {Call("queued", t), Call("accepted", t)} <=> v \in W
  <2>1. \A v \in Slots : CallOf(v) \in {Call("queued", t), Call("accepted", t)} <=>
                           pending[v] \in {SendWait(t), ReplyWait(t)}
    BY CallFacts
  <2>2. pending[t] \notin {SendWait(t), ReplyWait(t)}
    BY <1>1, PendingShapes DEF NoTraces
  <2> QED BY <2>1, <2>2 DEF WaitingOn
<1>4. /\ \A v \in W : pending'[v] = NoPending /\ outcome'[v] = Dead(t)
      /\ pending'[t] = NoPending /\ outcome'[t] = outcome[t]
      /\ \A v \in Slots \ (W \cup {t}) : pending'[v] = pending[v] /\ outcome'[v] = outcome[v]
      /\ W \subseteq Slots \ {t}
  BY DEF Abandon, WaitingOn
<1>5. pc'[t] = "gone" /\ \A v \in Slots \ {t} : pc'[v] = pc[v]
  BY DEF GoTo, AllTyped, RestTyped
<1>6. \A v \in W : pc[v] \in SendCall
  BY PendingFacts, PendingShapes DEF WaitingOn, SendKinds
<1> HIDE DEF W
<1>7. ASSUME NEW v \in W
      PROVE  CallOf(v)' = Call("failed", t)
  <2>1. outcome'[v].kind = "dead" /\ outcome'[v].from = t
    BY <1>4, <1>7 DEF Dead
  <2>2. CallOf(v)' = Call(IF outcome'[v].kind = "reply" THEN "answered" ELSE "failed", outcome'[v].from)
    <3>1. pending'[v] = NoPending /\ pc'[v] \in SendCall
      BY <1>4, <1>5, <1>6, <1>7
    <3> QED BY <3>1, CallRead, CallShapes
  <2> QED BY <2>1, <2>2
<1>8. CallOf(t)' = CallOf(t)
  <2>1. pc'[t] \notin SendCall
    BY <1>5 DEF SendCall
  <2> QED BY <1>2, <1>4, <2>1, CallRead, CallShapes
<1>9. \A v \in Slots \ (W \cup {t}) : CallOf(v)' = CallOf(v)
  BY <1>4, <1>5, SameCall DEF Same
<1>10. \A v \in Slots : CallOf(v)' = IF CallOf(v) \in {Call("queued", t), Call("accepted", t)}
                                     THEN Call("failed", t) ELSE CallOf(v)
  BY <1>3, <1>4, <1>7, <1>8, <1>9
<1> QED BY <1>2, <1>10, MapsToDepart DEF KeepsPromise

(* exit and fault *)
LEMMA EndPromise ==
  ASSUME AllTyped, TaskInv, NEW t \in Slots, Exit(t) \/ Fault(t)
  PROVE  KeepsPromise
<1>0. t # KernelThread /\ state[t] = "Runnable" /\ InUser(t)
  BY CallerFacts DEF Exit, ExitCurrent, Fault, FaultCurrent
<1>1. PICK end, F :
        /\ end \in {"Zombie", "Faulted"} /\ Abandon(t) /\ GoTo(t, "gone")
        /\ \/ SwitchToNext(Woken([state EXCEPT ![t] = end], WaitingOn(t)))
           \/ SwitchToNext(Woken(Woken([state EXCEPT ![t] = end], WaitingOn(t)), F))
  <2>1. CASE Exit(t)
    BY <2>1 DEF Exit, ExitCurrent, StateAfterAbandon
  <2>2. CASE Fault(t)
    BY <2>2 DEF Fault, FaultCurrent, StateAfterAbandon
  <2> QED BY <2>1, <2>2
<1> end \in {"Zombie", "Faulted"}
  BY <1>1
<1> DEFINE z  == [state EXCEPT ![t] = end]
           rl == Woken(z, WaitingOn(t))
<1>2. StateType(z) /\ z[t] = end /\ \A v \in Slots \ {t} : z[v] = state[v]
  BY <1>0, SlotFacts DEF AllTyped, SchedTyped, StateType, States
<1> HIDE DEF z
<1>3. /\ StateType(rl) /\ rl[t] = end
      /\ \A v \in Slots \ {t} : rl[v] = state[v] \/ (rl[v] = "Runnable" /\ state[v] = "Blocked")
  BY <1>2, WokenEffect
<1> HIDE DEF rl
<1>4. PICK st : /\ SwitchToNext(st) /\ StateType(st) /\ st[t] = end
                /\ \A v \in Slots \ {t} :
                     st[v] = state[v] \/ (st[v] = "Runnable" /\ state[v] = "Blocked")
  <2>1. CASE SwitchToNext(rl)
    BY <1>3, <2>1
  <2>2. CASE SwitchToNext(Woken(rl, F))
    <3>1. /\ StateType(Woken(rl, F)) /\ Woken(rl, F)[t] = end
          /\ \A v \in Slots \ {t} : \/ Woken(rl, F)[v] = state[v]
                                    \/ Woken(rl, F)[v] = "Runnable" /\ state[v] = "Blocked"
      BY <1>3, WokenEffect
    <3> QED BY <2>2, <3>1
  <2> QED BY <1>1, <2>1, <2>2 DEF rl, z
<1>5. SwitchedFrom(st)
  BY <1>4, HandedOver
<1>6. ~IsAlive(t)' /\ \A v \in Slots \ {t} : SameLife(v)
  BY <1>4, <1>5 DEF SwitchedFrom, SameLife, IsAlive
<1> QED BY <1>0, <1>1, <1>6, DeparturePromise

(* A slot whose task is not alive is called by nobody. *)
LEMMA NobodyCallsTheGone ==
  ASSUME AllTyped, TaskInv, NEW g \in Slots, ~IsAlive(g)
  PROVE  /\ pc[g] = "gone" /\ NoTraces(g) /\ CallOf(g) = Idle /\ WaitingOn(g) = {}
         /\ \A s \in Slots : CallOf(s) \notin {Call("queued", g), Call("accepted", g)}
<1>1. pc[g] = "gone"
  BY PointOfState DEF IsAlive, AllTyped, SchedTyped, StateType, States
<1>2. NoTraces(g)
  BY <1>1 DEF TaskInv, TaskConsistent, Stopped
<1>3. \A s \in Slots : pending[s] \notin {SendWait(g), ReplyWait(g)}
  BY PeerFacts, PendingShapes DEF SendKinds, IsAlive
<1>4. \A s \in Slots : CallOf(s) \notin {Call("queued", g), Call("accepted", g)}
  BY <1>3, CallFacts
<1>5. CallOf(g) = Idle
  BY <1>1, CallFacts DEF SendCall
<1> QED BY <1>1, <1>2, <1>3, <1>4, <1>5 DEF WaitingOn

(* fault_wait and restart *)
LEMMA SupervisePromise ==
  ASSUME RestartsOnlyStopped, AllTyped, TaskInv, NEW t \in Slots, Supervise(t)
  PROVE  KeepsPromise
<1>1. CASE FaultWait(t)
  BY <1>1, CallerFacts, ParkForFaultPromise DEF FaultWait, SendCall
<1>2. ASSUME NEW g \in Slots, Restart(t, g)
      PROVE  KeepsPromise
  <2>1. ~IsAlive(g)
    BY <1>2 DEF Restart
  <2>2. /\ pc[g] = "gone" /\ NoTraces(g) /\ CallOf(g) = Idle /\ WaitingOn(g) = {}
        /\ \A s \in Slots : CallOf(s) \notin {Call("queued", g), Call("accepted", g)}
    BY <2>1, NobodyCallsTheGone
  <2>3. UNCHANGED <<pending, outcome>>
    <3>1. /\ outcome' = [v \in Slots |-> outcome[v]]
          /\ pending' = [v \in Slots |-> IF v = g THEN NoPending ELSE pending[v]]
      BY <1>2, <2>2 DEF Restart, Abandon
    <3> QED BY <3>1, <2>2 DEF NoTraces, AllTyped, IpcTyped
  <2>4. PICK st : /\ st = StateAfterAbandon(state, g)
                  /\ StateType(st) /\ \A v \in Slots : st[v] = state[v]
    BY <2>2, WokenEffect DEF StateAfterAbandon, AllTyped, SchedTyped
  <2>5. /\ state' = IF st[g] = "Faulted" /\ image[g] THEN [st EXCEPT ![g] = "Runnable"] ELSE st
        /\ pc' = IF st[g] = "Faulted" /\ image[g] THEN [pc EXCEPT ![g] = "start"] ELSE pc
    BY <1>2, <2>4 DEF Restart
  <2>6. CASE st[g] = "Faulted" /\ image[g]
    <3>1. /\ state'[g] = "Runnable" /\ pc'[g] = "start"
          /\ \A v \in Slots \ {g} : state'[v] = state[v] /\ pc'[v] = pc[v]
      BY <2>4, <2>5, <2>6 DEF StateType, AllTyped, RestTyped
    <3>2. \A s \in Slots : Same(s)
      BY <2>2, <2>3, <3>1, SameCall DEF SendCall
    <3>3. IsAlive(g)' /\ \A s \in Slots \ {g} : SameLife(s)
      BY <3>1 DEF SameLife, IsAlive
    <3> QED BY <2>1, <2>2, <3>2, <3>3, MapsToArrive DEF KeepsPromise
  <2>7. CASE ~(st[g] = "Faulted" /\ image[g])
    <3>1. UNCHANGED pc /\ \A s \in Slots : SameLife(s)
      BY <2>4, <2>5, <2>7 DEF SameLife, IsAlive
    <3> QED BY <2>3, <3>1, QuietPromise
  <2> QED BY <2>6, <2>7
<1> QED BY <1>1, <1>2 DEF Supervise

(* What the boot thread does *)
LEMMA BootPromise ==
  ASSUME Kinds \subseteq {"user"}, AllTyped, TaskInv, PostsAreOwed,
         \/ \E p \in Priorities, k \in Kinds : Spawn(p, k)
         \/ SpawnDone \/ CleanUp \/ BootRoute \/ Appoint \/ PostStep
  PROVE  KeepsPromise
<1>0. pc \in [Slots -> Points] /\ StateType(state)
  BY DEF AllTyped, RestTyped, SchedTyped
<1>1. ASSUME NEW p \in Priorities, NEW k \in Kinds, Spawn(p, k)
      PROVE  KeepsPromise
  <2>1. PICK f \in Slots : f = FreeSlot /\ state[f] = "None" /\ pc[KernelThread] = "run"
    BY <1>1, FreeSlotFound DEF Spawn, SpawnIn, InKernelThread, Running
  <2>2. /\ state' = [state EXCEPT ![f] = "Runnable"]
        /\ pc' = [pc EXCEPT ![f] = "start",
                            ![KernelThread] = IF k = "user" THEN "image" ELSE "run"]
        /\ UNCHANGED <<pending, outcome>>
    BY <1>1, <2>1 DEF Spawn, SpawnIn, ipcVars
  <2>3. f # KernelThread /\ ~IsAlive(f)
    BY <1>0, <2>1 DEF StateType, IsAlive
  <2>4. /\ state'[f] = "Runnable" /\ pc'[f] = "start"
        /\ pc'[KernelThread] \in {"image", "run"}
        /\ \A v \in Slots \ {f} : state'[v] = state[v]
        /\ \A v \in Slots \ {f, KernelThread} : pc'[v] = pc[v]
    BY <1>0, <2>2, <2>3, SlotFacts DEF StateType
  <2>5. /\ pc[f] = "gone" /\ CallOf(f) = Idle
        /\ \A s \in Slots : CallOf(s) \notin {Call("queued", f), Call("accepted", f)}
    BY <2>3, NobodyCallsTheGone
  <2>6. \A s \in Slots : Same(s)
    BY <2>1, <2>2, <2>4, <2>5, SameCall DEF SendCall
  <2>7. IsAlive(f)' /\ \A s \in Slots \ {f} : SameLife(s)
    BY <2>4 DEF SameLife, IsAlive
  <2> QED BY <2>3, <2>5, <2>6, <2>7, MapsToArrive DEF KeepsPromise
<1>2. CASE SpawnDone
  <2>1. /\ pc[KernelThread] = "image" /\ pc'[KernelThread] = "run"
        /\ \A v \in Slots \ {KernelThread} : pc'[v] = pc[v]
        /\ UNCHANGED <<state, pending, outcome>>
    BY <1>0, <1>2, SlotFacts DEF SpawnDone, RecordImage, GoTo, ipcVars
  <2>2. \A s \in Slots : SameLife(s)
    BY <2>1 DEF SameLife, IsAlive
  <2> QED BY <2>1, <2>2, QuietPromise DEF SendCall
<1>3. CASE CleanUp
  <2>1. UNCHANGED <<pending, outcome>>
    BY <1>3 DEF CleanUp, ipcVars
  <2>2. CASE ReapZombies
    <3>1. UNCHANGED pc /\ \A s \in Slots : SameLife(s)
      BY <2>2 DEF ReapZombies, Reaped, Reapable, SameLife, IsAlive
    <3> QED BY <2>1, <3>1, QuietPromise
  <2>3. CASE ReleaseDead
    <3> DEFINE dead == {v \in Slots \ {current} : state[v] = "Dead"}
    <3>1. /\ \A v \in Slots : state'[v] = IF v \in dead THEN "None" ELSE state[v]
          /\ \A v \in Slots : pc'[v] = IF v \in dead THEN "gone" ELSE pc[v]
      BY <2>3 DEF ReleaseDead
    <3>2. \A v \in dead : state[v] = "Dead" /\ pc[v] = "gone"
      BY PointOfState
    <3> HIDE DEF dead
    <3>3. \A s \in Slots : SameLife(s)
      BY <3>1, <3>2 DEF SameLife, IsAlive
    <3> QED BY <2>1, <3>1, <3>2, <3>3, QuietPromise
  <2>4. ASSUME NEW x \in Slots, Kill(x)
        PROVE  KeepsPromise
    <3>1. UNCHANGED pc /\ \A s \in Slots : SameLife(s)
      BY <1>0, <2>4 DEF Kill, StateType, SameLife, IsAlive
    <3> QED BY <2>1, <3>1, QuietPromise
  <2> QED BY <1>3, <2>2, <2>3, <2>4 DEF CleanUp
<1>4. CASE BootPost
  <2>1. PICK x \in Slots, b \in Bits : PostBits(x, {b})
    BY <1>4 DEF BootPost
  <2>2. /\ pc[KernelThread] = "run" /\ pc'[KernelThread] = "posting"
        /\ \A v \in Slots \ {KernelThread} : pc'[v] = pc[v]
        /\ UNCHANGED <<state, pending, outcome>>
    BY <1>0, <1>4, <2>1, SlotFacts DEF BootPost, PostBits, GoTo, InKernelThread, Running, ipcVars
  <2>3. \A s \in Slots : SameLife(s)
    BY <2>2 DEF SameLife, IsAlive
  <2> QED BY <2>2, <2>3, QuietPromise DEF SendCall
<1>5. CASE BootPostLook \/ BootPostWake \/ BootPostAsk
  <2>1. /\ UNCHANGED <<pending, outcome>>
        /\ state' = state \/ \E x \in Slots : state' = Woken(state, {x})
    BY <1>5 DEF BootPostLook, BootPostWake, BootPostAsk, PostLook, PostWake, PostAsk, ipcVars
  <2>2. /\ pc[KernelThread] \in Posting /\ pc'[KernelThread] \in {"run"} \cup Posting
        /\ \A v \in Slots \ {KernelThread} : pc'[v] = pc[v]
    BY <1>0, <1>5, SlotFacts
       DEF BootPostLook, BootPostWake, BootPostAsk, PostLook, PostWake, PostAsk, GoTo, Posting
  <2>3. \A v \in Slots : state'[v] = state[v] \/ (state[v] = "Blocked" /\ state'[v] = "Runnable")
    <3>1. \A x \in Slots, v \in Slots :
            \/ Woken(state, {x})[v] = state[v]
            \/ state[v] = "Blocked" /\ Woken(state, {x})[v] = "Runnable"
      BY <1>0, WokenEffect
    <3> QED BY <2>1, <3>1
  <2>4. \A s \in Slots : SameLife(s)
    BY <2>3 DEF SameLife, IsAlive
  <2> QED BY <2>1, <2>2, <2>4, QuietPromise DEF SendCall, Posting
<1>6. CASE BootRoute \/ Appoint
  <2>1. UNCHANGED <<state, pc, pending, outcome>>
    BY <1>6 DEF BootRoute, Route, Appoint, SetSupervisor, schedVars, ipcVars
  <2>2. \A s \in Slots : SameLife(s)
    BY <2>1 DEF SameLife, IsAlive
  <2> QED BY <2>1, <2>2, QuietPromise
<1> QED BY <1>1, <1>2, <1>3, <1>4, <1>5, <1>6 DEF PostStep

(* yield and interrupts; a kernel task's own code is never reached. *)
LEMMA OtherPromise ==
  ASSUME AllTyped, TaskInv,
         \/ \E t \in Slots : Yield(t) \/ KernelTask(t)
         \/ \E i \in IntIds : Interrupt(i)
  PROVE  KeepsPromise
<1>0. StateType(state)
  BY DEF AllTyped, SchedTyped
<1>1. ASSUME NEW t \in Slots, Yield(t)
      PROVE  KeepsPromise
  <2>1. SwitchedFrom(state) /\ UNCHANGED <<pc, pending, outcome>>
    BY <1>0, <1>1, HandedOver DEF Yield, YieldNow, ipcVars
  <2>2. \A s \in Slots : SameLife(s)
    BY <2>1 DEF SwitchedFrom, SameLife, IsAlive
  <2> QED BY <2>1, <2>2, QuietPromise
<1>2. ASSUME NEW t \in Slots, KernelTask(t)
      PROVE  KeepsPromise
  <2>1. \A v \in Slots : pc[v] \notin {"finish", "blockPark"}
    BY PointOfState
  <2>2. pc[t] = "run" /\ t # KernelThread => space[t]
    BY DEF TaskInv, TaskConsistent, OutsideCalls
  <2> QED BY <1>2, <2>1, <2>2 DEF KernelTask, BlockCurrent, Unblock, TaskFinished, FinishLook,
             FinishWake, FinishLeave, Finishing, InKernelThread, Running
<1>3. ASSUME NEW i \in IntIds, Interrupt(i)
      PROVE  KeepsPromise
  <2>1. UNCHANGED <<pc, pending, outcome>>
    BY <1>3 DEF Interrupt, Irq, ipcVars
  <2>2. PICK st : /\ SwitchToNext(st) \/ StayOn(st)
                  /\ StateType(st)
                  /\ \A v \in Slots :
                       st[v] = state[v] \/ (state[v] = "Blocked" /\ st[v] = "Runnable")
    <3>1. CASE Routed(i) # {}
      <4> DEFINE r == RouteOf(i)
      <4>1. SwitchToNext(StateAfterPost(r.task, r.bits)) \/ StayOn(StateAfterPost(r.task, r.bits))
        BY <1>3, <3>1 DEF Interrupt, Irq
      <4> HIDE DEF r
      <4>2. /\ StateType(StateAfterPost(r.task, r.bits))
            /\ \A v \in Slots : \/ StateAfterPost(r.task, r.bits)[v] = state[v]
                                \/ /\ state[v] = "Blocked"
                                   /\ StateAfterPost(r.task, r.bits)[v] = "Runnable"
        BY <1>0, WokenEffect DEF StateAfterPost
      <4> QED BY <4>1, <4>2
    <3>2. CASE Routed(i) = {}
      <4>1. SwitchToNext(state) \/ StayOn(state)
        BY <1>3, <3>2 DEF Interrupt, Irq
      <4> QED BY <1>0, <4>1
    <3> QED BY <3>1, <3>2
  <2>3. SwitchedFrom(st)
    BY <2>2, HandedOver
  <2>4. \A s \in Slots : SameLife(s)
    BY <2>2, <2>3 DEF SwitchedFrom, SameLife, IsAlive
  <2> QED BY <2>1, <2>4, QuietPromise
<1> QED BY <1>1, <1>2, <1>3

(* At boot nobody is in a call. *)
LEMMA PromiseInit == Init => Abstract!Init
<1> SUFFICES ASSUME Init PROVE Abstract!Init
  OBVIOUS
<1>1. \A s \in Slots : pending[s] = NoPending /\ pc[s] \notin SendCall
  BY DEF Init, IpcInit, SchedInit, SendCall
<1>2. \A s \in Slots : CallOf(s) = Idle
  BY <1>1, CallRead, CallShapes
<1> QED BY <1>2 DEF Abstract!Init, Abstract!NoCall, Idle

(***************************************************************************)
(* Message passing implements Rendezvous: in a kernel of EL0 tasks every    *)
(* step of send, recv, reply, exit, fault, restart or any other handler is  *)
(* one of its steps or none.  A call is accepted and answered at most once, *)
(* only by its target, and fails exactly when its target departs first.     *)
(***************************************************************************)
THEOREM CallsImplementRendezvous ==
  ASSUME UserKernel
  PROVE  Spec => CallsKeepTheirPromise
<1>1. IInv /\ [Next]_vars => KeepsPromise
  <2> SUFFICES ASSUME IInv, [Next]_vars PROVE KeepsPromise
    OBVIOUS
  <2>1. AllTyped /\ TaskInv /\ PostsAreOwed
    BY TypeInvParts DEF IInv, TaskInv
  <2>2. CASE Next
    BY <2>1, <2>2, SyscallPromise, ResumePromise, EndPromise, SupervisePromise, BootPromise,
       OtherPromise DEF Next, UserKernel, PostStep
  <2>3. CASE UNCHANGED vars
    <3>1. UNCHANGED <<state, pc, pending, outcome>>
      BY <2>3 DEF vars, schedVars, ipcVars
    <3>2. \A s \in Slots : SameLife(s)
      BY <3>1 DEF SameLife, IsAlive
    <3> QED BY <2>1, <3>1, <3>2, QuietPromise
  <2> QED BY <2>2, <2>3
<1>2. KeepsPromise => [Abstract!Next]_<<{t \in Slots : IsAlive(t)}, [t \in Slots |-> CallOf(t)]>>
  BY DEF KeepsPromise
<1> QED BY <1>1, <1>2, PromiseInit, IInvAlways, PTL
        DEF Spec, CallsKeepTheirPromise, Abstract!Spec

-----------------------------------------------------------------------------
(* What no step may do *)

OutcomeKept(t) == outcome[t] # Zero => outcome'[t] \in {outcome[t], Zero}

(* abandon tells senders only, who have read no outcome yet. *)
LEMMA AbandonKeepsOutcomes ==
  ASSUME AllTyped, TaskInv, NEW g \in Slots, Abandon(g), NEW s \in Slots
  PROVE  OutcomeKept(s)
<1>1. outcome'[s] = IF s \in WaitingOn(g) THEN Dead(g) ELSE outcome[s]
  BY DEF Abandon
<1>2. s \in WaitingOn(g) => outcome[s] = Zero
  BY PendingFacts, PendingShapes DEF WaitingOn, SendKinds
<1> QED BY <1>1, <1>2 DEF OutcomeKept

(***************************************************************************)
(* A written outcome reaches its reader: no reply, message or EDEAD         *)
(* overwrites one that has not been read, since whoever has an outcome has  *)
(* no pending entry left for a sender, a replier or abandon to act on.      *)
(***************************************************************************)
THEOREM OutcomesReachTheirReader ==
  ASSUME UserKernel
  PROVE  Spec => UnreadOutcomeKept
<1>1. IInv /\ [Next]_vars =>
        [\A t \in Slots : outcome[t] # Zero => outcome'[t] \in {outcome[t], Zero}]_vars
  <2> SUFFICES ASSUME IInv, Next, NEW s \in Slots PROVE OutcomeKept(s)
    BY DEF OutcomeKept
  <2>1. AllTyped /\ TaskInv /\ outcome \in [Slots -> Outcomes]
    BY TypeInvParts DEF IInv, TaskInv, AllTyped, IpcTyped
  <2>2. ASSUME NEW t \in Slots, Syscall(t)
        PROVE  OutcomeKept(s)
    <3>1. ASSUME NEW u \in Slots, NEW n \in 0 .. MaxLeases, SendToReceiver(t, u, n)
          PROVE  OutcomeKept(s)
      <4>1. outcome[u] = Zero
        BY <2>1, <3>1, PendingFacts DEF SendToReceiver
      <4> QED BY <2>1, <3>1, <4>1 DEF SendToReceiver, OutcomeKept
    <3>2. ASSUME NEW w \in Slots, Reply(t, w)
          PROVE  OutcomeKept(s)
      <4>1. outcome[w] = Zero
        BY <2>1, <3>2, PendingFacts, PendingShapes DEF Reply, SendKinds
      <4> QED BY <2>1, <3>2, <4>1 DEF Reply, DeliverOutcome, OutcomeKept
    <3> QED BY <2>2, <3>1, <3>2 DEF Syscall, SendAndQueue, Recv, RecvTurn, OutcomeKept
  <2>3. ASSUME NEW t \in Slots, Resume(t)
        PROVE  OutcomeKept(s)
    BY <2>1, <2>3 DEF Resume, Start, SendWoke, SendReturn, RecvReturn, RecvAgain, RecvTurn,
                      FaultWoke, BlockReturn, TakeOutcome, ipcVars, OutcomeKept
  <2>4. ASSUME NEW t \in Slots, Exit(t) \/ Fault(t)
        PROVE  OutcomeKept(s)
    BY <2>1, <2>4, AbandonKeepsOutcomes DEF Exit, ExitCurrent, Fault, FaultCurrent
  <2>5. ASSUME NEW t \in Slots, Supervise(t)
        PROVE  OutcomeKept(s)
    BY <2>1, <2>5, AbandonKeepsOutcomes DEF Supervise, FaultWait, Restart, ipcVars, OutcomeKept
  <2>6. ASSUME NEW t \in Slots, Yield(t) \/ KernelTask(t)
        PROVE  OutcomeKept(s)
    <3>1. pc[t] # "finish"
      BY <2>1, PointOfState
    <3> QED BY <2>6, <3>1 DEF Yield, KernelTask, TaskFinished, FinishLook, FinishWake,
               FinishLeave, Finishing, ipcVars, OutcomeKept
  <2>7. ASSUME \/ \E p \in Priorities, k \in Kinds : Spawn(p, k)
               \/ SpawnDone \/ CleanUp \/ BootRoute \/ Appoint \/ PostStep
               \/ \E i \in IntIds : Interrupt(i)
        PROVE  OutcomeKept(s)
    BY <2>7 DEF Spawn, SpawnDone, CleanUp, PostStep, BootPost, BootPostLook, BootPostWake,
                BootPostAsk, BootRoute, Appoint,
                SetSupervisor, Interrupt, ipcVars, OutcomeKept
  <2> QED BY <2>2, <2>3, <2>4, <2>5, <2>6, <2>7 DEF Next, PostStep
<1> QED BY <1>1, IInvAlways, PTL DEF Spec, UnreadOutcomeKept

BitsKept(t) ==
  posted[t] \ posted'[t] # {} => current = t /\ pc[t] \in {"run", "recvPark"} /\ pc'[t] = "run"

(* One turn of the loop in recv takes bits only as it returns. *)
LEMMA RecvKeepsBits ==
  ASSUME AllTyped, NEW t \in Slots, current = t, pc[t] \in {"run", "recvPark"},
         NEW mask, NEW own, RecvTurn(t, mask, own), NEW s \in Slots
  PROVE  BitsKept(s)
<1>1. CASE CollectNotification(t, mask, own)
  <2>1. /\ \A v \in Slots \ {t} : posted'[v] = posted[v]
        /\ pc'[t] = "run"
    BY <1>1 DEF CollectNotification, GoTo, AllTyped, RestTyped, NotifyTyped
  <2> QED BY <2>1 DEF BitsKept
<1>2. CASE CollectMessage(t, mask, own) \/ ParkInRecv(t, mask)
  BY <1>2 DEF CollectMessage, ParkInRecv, BitsKept
<1> QED BY <1>1, <1>2 DEF RecvTurn

(***************************************************************************)
(* Posted bits are taken by their own task in recv and by nobody else, in   *)
(* every kernel, whatever tasks it is made of.                              *)
(***************************************************************************)
THEOREM NoPostedBitLost == Spec => PostedBitsKept
<1>1. TypeInv /\ [Next]_vars =>
        [\A t \in Slots : posted[t] \ posted'[t] # {} =>
           current = t /\ pc[t] \in {"run", "recvPark"} /\ pc'[t] = "run"]_vars
  <2> SUFFICES ASSUME TypeInv, Next, NEW s \in Slots PROVE BitsKept(s)
    BY DEF BitsKept
  <2>1. AllTyped /\ posted \in [Slots -> SUBSET Bits]
    BY TypeInvParts DEF AllTyped, NotifyTyped
  <2>2. ASSUME posted' = posted
        PROVE  BitsKept(s)
    BY <2>2 DEF BitsKept
  <2>3. ASSUME NEW u, NEW bits, posted' = PostedTo(u, bits)
        PROVE  BitsKept(s)
    BY <2>1, <2>3 DEF PostedTo, BitsKept
  <2>4. ASSUME NEW t \in Slots, Syscall(t)
        PROVE  BitsKept(s)
    <3>1. ASSUME NEW mask \in SUBSET Bits, Recv(t, mask)
          PROVE  BitsKept(s)
      BY <2>1, <3>1, RecvKeepsBits DEF Recv, InUser, Running
    <3> QED BY <2>2, <2>4, <3>1 DEF Syscall, SendToReceiver, SendAndQueue, Reply, notifyVars
  <2>5. ASSUME NEW t \in Slots, Resume(t)
        PROVE  BitsKept(s)
    <3>1. ASSUME RecvAgain(t)
          PROVE  BitsKept(s)
      BY <2>1, <3>1, RecvKeepsBits DEF RecvAgain
    <3> QED BY <2>2, <2>5, <3>1 DEF Resume, SendWoke, SendReturn, RecvReturn, FaultWoke, notifyVars
  <2>6. ASSUME NEW t \in Slots, Exit(t) \/ Fault(t) \/ Supervise(t) \/ Yield(t) \/ KernelTask(t)
        PROVE  BitsKept(s)
    BY <2>2, <2>6 DEF Exit, ExitCurrent, Fault, FaultCurrent, Supervise, FaultWait, Restart,
       Yield, KernelTask, TaskFinished, FinishLook, FinishWake, FinishLeave, notifyVars
  <2>7. ASSUME BootPost
        PROVE  BitsKept(s)
    BY <2>3, <2>7 DEF BootPost, PostBits
  <2>8. ASSUME NEW i \in IntIds, Interrupt(i)
        PROVE  BitsKept(s)
    <3>1. posted' = posted \/ posted' = PostedTo(RouteOf(i).task, RouteOf(i).bits)
      BY <2>8 DEF Interrupt, Irq
    <3> QED BY <2>2, <2>3, <3>1
  <2>9. ASSUME \/ \E p \in Priorities, k \in Kinds : Spawn(p, k)
               \/ SpawnDone \/ CleanUp \/ BootRoute \/ Appoint
               \/ BootPostLook \/ BootPostWake \/ BootPostAsk
        PROVE  BitsKept(s)
    BY <2>2, <2>9 DEF Spawn, SpawnDone, CleanUp, BootRoute, Route, Appoint, SetSupervisor,
                      notifyVars,
                      BootPostLook, BootPostWake, BootPostAsk, PostLook, PostWake, PostAsk
  <2> QED BY <2>4, <2>5, <2>6, <2>7, <2>8, <2>9 DEF Next
<1> QED BY <1>1, TypeInvAlways, PTL DEF Spec, PostedBitsKept

(* A table that does not call the running task dead, handed to the scheduler *)
Alive(st) == st[current] # "Dead"

(***************************************************************************)
(* Waking, marking and ending tasks makes nobody dead, and reaping passes   *)
(* over the running task: it counts only zombies below a zombie on the CPU. *)
(***************************************************************************)
LEMMA NobodyDiesByHand ==
  ASSUME AllTyped, NEW st \in [Slots -> States], Alive(st)
  PROVE  /\ \A S : Alive(Woken(st, S))
         /\ \A t \in Slots : Alive(Marked(st, t))
         /\ \A t \in Slots, v \in States \ {"Dead"} : Alive([st EXCEPT ![t] = v])
         /\ SwitchToNext(st) => state'[current] # "Dead"
         /\ StayOn(st) => state'[current] # "Dead"
<1>1. current \in Slots /\ current \in Nat
  BY SlotFacts DEF AllTyped, SchedTyped
<1>2. current \notin Reapable(st, current)
  BY <1>1 DEF Reapable
<1> QED BY <1>1, <1>2 DEF Alive, Woken, Marked, SwitchToNext, Reaped, StayOn

(***************************************************************************)
(* The stack the kernel runs on is never freed by reap_zombies, in every    *)
(* kernel, whatever tasks it is made of: no step makes the running task     *)
(* dead, though every switch reaps while still on that task's stack.        *)
(***************************************************************************)
THEOREM RunningStackKept == Spec => NoStackFreedUnderfoot
<1>1. TypeInv /\ [Next]_vars =>
        [\A t \in Slots : state[t] # "Dead" /\ state'[t] = "Dead" => t # current]_vars
  <2> SUFFICES ASSUME TypeInv, Next PROVE state'[current] # "Dead"
    OBVIOUS
  <2> DEFINE Kept == state'[current] # "Dead"
  <2>1. /\ AllTyped /\ state \in [Slots -> States] /\ current \in Slots /\ Alive(state)
    BY TypeInvParts DEF AllTyped, SchedTyped, StateType, CurrentMayRun, Alive
  <2>2. ASSUME UNCHANGED state
        PROVE  Kept
    BY <2>1, <2>2 DEF Alive
  <2>3. \A S : Woken(state, S) \in [Slots -> States] /\ Alive(Woken(state, S))
    BY <2>1, NobodyDiesByHand DEF Woken, States
  <2>4. \A t \in Slots : Marked(state, t) \in [Slots -> States] /\ Alive(Marked(state, t))
    BY <2>1, NobodyDiesByHand DEF Marked, States
  <2>5. ASSUME NEW t \in Slots, NEW u, WakeAndYield(state, t, u)
        PROVE  Kept
    BY <2>1, <2>3, <2>5, NobodyDiesByHand DEF WakeAndYield
  <2>6. ASSUME NEW t \in Slots, Syscall(t)
        PROVE  Kept
    <3>1. ASSUME NEW u \in Slots, NEW n, SendToReceiver(t, u, n)
          PROVE  Kept
      <4>1. Woken(Marked(state, t), {u}) \in [Slots -> States] /\ Alive(Woken(Marked(state, t), {u}))
        BY <2>1, <2>4, NobodyDiesByHand DEF Woken, States
      <4> QED BY <2>1, <3>1, <4>1, NobodyDiesByHand DEF SendToReceiver
    <3>2. ASSUME NEW u \in Slots, NEW n, SendAndQueue(t, u, n)
          PROVE  Kept
      BY <2>1, <2>4, <3>2, NobodyDiesByHand DEF SendAndQueue
    <3>3. ASSUME NEW mask, Recv(t, mask)
          PROVE  Kept
      BY <2>1, <2>4, <3>3, NobodyDiesByHand
         DEF Recv, RecvTurn, CollectNotification, CollectMessage, ParkInRecv
    <3>4. ASSUME NEW u \in Slots, Reply(t, u)
          PROVE  Kept
      BY <2>5, <3>4 DEF Reply
    <3> QED BY <2>6, <3>1, <3>2, <3>3, <3>4 DEF Syscall
  <2>7. ASSUME NEW t \in Slots, Resume(t)
        PROVE  Kept
    <3>1. ASSUME RecvAgain(t)
          PROVE  Kept
      BY <2>1, <2>4, <3>1, NobodyDiesByHand
         DEF RecvAgain, RecvTurn, CollectNotification, CollectMessage, ParkInRecv
    <3>2. ASSUME SendWoke(t) \/ FaultWoke(t)
          PROVE  Kept
      BY <2>1, <2>4, <3>2, NobodyDiesByHand DEF SendWoke, FaultWoke, ParkForFault
    <3> QED BY <2>2, <2>7, <3>1, <3>2
               DEF Resume, Start, SendReturn, RecvReturn, BlockReturn
  <2>8. ASSUME NEW t \in Slots, NEW v \in {"Zombie", "Faulted"}
        PROVE  LET ended == [state EXCEPT ![t] = v]
               IN  \A S : Woken(ended, S) \in [Slots -> States] /\ Alive(Woken(ended, S))
    <3>1. [state EXCEPT ![t] = v] \in [Slots -> States] /\ Alive([state EXCEPT ![t] = v])
      BY <2>1, <2>8, NobodyDiesByHand DEF States
    <3> QED BY <2>1, <3>1, NobodyDiesByHand DEF Woken, States
  <2>9. ASSUME NEW t \in Slots, Exit(t)
        PROVE  Kept
    BY <2>1, <2>8, <2>9, NobodyDiesByHand DEF Exit, ExitCurrent, StateAfterAbandon
  <2>10. ASSUME NEW t \in Slots, Fault(t)
         PROVE  Kept
    <3> DEFINE released == StateAfterAbandon([state EXCEPT ![t] = "Faulted"], t)
               told     == Woken(released, {s \in Slots : faultWaiters[s]})
    <3>1. released \in [Slots -> States] /\ Alive(released)
      BY <2>8 DEF StateAfterAbandon
    <3> HIDE DEF released
    <3>2. told \in [Slots -> States] /\ Alive(told)
      BY <2>1, <3>1, NobodyDiesByHand DEF Woken, States
    <3>3. SwitchToNext(told)
      BY <2>10 DEF Fault, FaultCurrent, released
    <3> QED BY <2>1, <3>2, <3>3, NobodyDiesByHand
  <2>11. ASSUME NEW t \in Slots, Supervise(t)
         PROVE  Kept
    <3>1. ASSUME NEW s \in Slots, Restart(t, s)
          PROVE  Kept
      BY <2>1, <2>3, <3>1 DEF Restart, StateAfterAbandon, Alive
    <3> QED BY <2>1, <2>4, <2>11, <3>1, NobodyDiesByHand DEF Supervise, FaultWait, ParkForFault
  <2>12. ASSUME NEW t \in Slots, Yield(t) \/ KernelTask(t)
         PROVE  Kept
    <3>1. ASSUME TaskFinished(t)
          PROVE  Kept
      BY <2>1, <3>1 DEF TaskFinished, Alive
    <3>2. ASSUME FinishWake(t)
          PROVE  Kept
      BY <2>3, <3>2 DEF FinishWake, Alive
    <3> QED BY <2>1, <2>2, <2>4, <2>5, <2>12, <3>1, <3>2, NobodyDiesByHand
            DEF Yield, YieldNow, KernelTask, BlockCurrent, Unblock, FinishLook, FinishLeave,
                schedVars
  <2>13. ASSUME NEW p \in Priorities, NEW k \in Kinds, Spawn(p, k)
         PROVE  Kept
    BY <2>1, <2>13 DEF Spawn, SpawnIn, Alive
  <2>14. ASSUME CleanUp
         PROVE  Kept
    <3>1. current \notin Reapable(state, current)
      BY <2>1, SlotFacts DEF Reapable
    <3> QED BY <2>1, <2>14, <3>1 DEF CleanUp, ReapZombies, Reaped, ReleaseDead, Kill, Alive
  <2>15. ASSUME NEW s, NEW bits
         PROVE  StateAfterPost(s, bits) \in [Slots -> States] /\ Alive(StateAfterPost(s, bits))
    BY <2>1, <2>3 DEF StateAfterPost
  <2>16. ASSUME BootPostWake
         PROVE  Kept
    BY <2>1, <2>3, <2>16 DEF BootPostWake, PostWake, Alive
  <2>17. ASSUME NEW i \in IntIds, Interrupt(i)
         PROVE  Kept
    <3>1. PICK st \in [Slots -> States] : Alive(st) /\ (SwitchToNext(st) \/ StayOn(st))
      BY <2>1, <2>15, <2>17 DEF Interrupt, Irq
    <3> QED BY <2>1, <3>1, NobodyDiesByHand
  <2>18. ASSUME SpawnDone \/ BootPost \/ BootPostLook \/ BootPostAsk \/ BootRoute \/ Appoint
         PROVE  Kept
    BY <2>2, <2>18 DEF SpawnDone, RecordImage, BootPost, BootPostLook, BootPostAsk, PostBits,
                       PostLook, PostAsk, BootRoute, Route, Appoint, SetSupervisor, schedVars
  <2> QED BY <2>6, <2>7, <2>9, <2>10, <2>11, <2>12, <2>13, <2>14, <2>16, <2>17, <2>18 DEF Next
<1> QED BY <1>1, TypeInvAlways, PTL DEF Spec, NoStackFreedUnderfoot

-----------------------------------------------------------------------------
(* Who has the CPU *)

(* switch_to_next leaves nobody runnable above the task it picks. *)
LEMMA SwitchGivesWell ==
  ASSUME AllTyped, NEW st, StateType(st), SwitchToNext(st), UNCHANGED priority
  PROVE  CpuWellGiven'
<1>1. StateType(state') /\ current' = NextRunnable(state', current) /\ current \in Slots
  BY AllTypedPriority, SwitchEffect DEF SwitchToNext, AllTyped, SchedTyped
<1>2. \A u \in Slots : state'[u] = "Runnable" => ~Outranks(u, current')
  BY <1>1, AllTypedPriority, NextRunnableFound, SlotFacts DEF StateType
<1> QED BY <1>2 DEF CpuWellGiven, Outranks

(* A handler that returns, having made nobody runnable but new tasks *)
LEMMA StayKeepsWell ==
  ASSUME CpuWellGiven, UNCHANGED <<current, priority>>, needResched' = needResched,
         pc[current] = "finish" => pc'[current] = "finish",
         \A s \in Slots : state'[s] = "Runnable" =>
           state[s] = "Runnable" \/ pc'[s] = "start" \/ ~Outranks(s, current),
         \A s \in Slots : pc[s] = "start" /\ s # current => pc'[s] = "start",
         ~Outranks(current, current)
  PROVE  CpuWellGiven'
BY DEF CpuWellGiven, Outranks

(* Nobody outranks himself. *)
LEMMA RankIrreflexive == ASSUME AllTyped PROVE ~Outranks(current, current)
BY AllTypedPriority DEF AllTyped, SchedTyped, PriorityType, Outranks

(* The running task moves on within the kernel, and nothing else happens. *)
LEMMA MoveKeepsWell ==
  ASSUME AllTyped, CpuWellGiven, pc[current] # "finish", NEW p, GoTo(current, p),
         UNCHANGED <<state, current, priority, needResched>>
  PROVE  CpuWellGiven'
BY RankIrreflexive, StayKeepsWell DEF GoTo, AllTyped, RestTyped

(* unblock hands over at once to a better task. *)
LEMMA WakeKeepsWell ==
  ASSUME AllTyped, CpuWellGiven, NEW w \in Slots, WakeAndYield(state, current, w),
         UNCHANGED <<pc, priority, needResched>>
  PROVE  CpuWellGiven'
<1>1. StateType(Woken(state, {w})) /\ StateType(state)
  BY WokenEffect DEF AllTyped, SchedTyped
<1>2. CASE state[w] = "Blocked" /\ Outranks(w, current)
  BY <1>1, <1>2, SwitchGivesWell DEF WakeAndYield
<1>3. CASE ~(state[w] = "Blocked" /\ Outranks(w, current))
  <2>1. StayOn(Woken(state, {w}))
    BY <1>3 DEF WakeAndYield
  <2>2. \A s \in Slots : state'[s] = "Runnable" => state[s] = "Runnable" \/ ~Outranks(s, current)
    BY <1>1, <1>3, <2>1, WokenEffect DEF StayOn
  <2> QED BY <2>1, <2>2, RankIrreflexive, StayKeepsWell DEF StayOn
<1> QED BY <1>2, <1>3

(* One turn of the loop in recv returns to its caller or parks it. *)
LEMMA RecvKeepsWell ==
  ASSUME AllTyped, CpuWellGiven, current # KernelThread, pc[current] # "finish",
         NEW mask, NEW own, RecvTurn(current, mask, own)
  PROVE  CpuWellGiven'
<1>1. CASE CollectNotification(current, mask, own) \/ CollectMessage(current, mask, own)
  BY <1>1, MoveKeepsWell DEF RecvTurn, CollectNotification, CollectMessage, StayOn
<1>2. CASE ParkInRecv(current, mask)
  <2>1. StateType(Marked(state, current))
    BY MarkedEffect DEF AllTyped, SchedTyped
  <2> QED BY <1>2, <2>1, SwitchGivesWell DEF RecvTurn, ParkInRecv
<1> QED BY <1>1, <1>2 DEF RecvTurn

(* restart wakes nobody: nobody waits on a task that is not alive. *)
QuietRestarts == \A t, s \in Slots : Restart(t, s) => WaitingOn(s) = {}

(* Every handler of a task but its end *)
LEMMA CallsKeepWell ==
  ASSUME AllTyped, CpuWellGiven, NEW t \in Slots, Syscall(t) \/ Resume(t)
  PROVE  CpuWellGiven'
<1>1. StateType(state) /\ ~space[KernelThread] /\ pc[KernelThread] \in {"run", "image"} \cup Posting
  BY DEF AllTyped, SchedTyped, RestTyped
<1>2. \A s \in Slots \ {KernelThread} : StateType(Marked(state, s))
  BY <1>1, MarkedEffect
<1>3. CASE Syscall(t)
  <2>1. ASSUME InUser(t)
        PROVE  current = t /\ t # KernelThread /\ pc[t] = "run" /\ StateType(Marked(state, t))
    BY <1>1, <1>2, <2>1 DEF InUser, Running
  <2>2. ASSUME NEW u \in Slots, NEW n, SendToReceiver(t, u, n)
        PROVE  CpuWellGiven'
    <3>1. StateType(Woken(Marked(state, t), {u}))
      BY <2>1, <2>2, WokenEffect DEF SendToReceiver
    <3> QED BY <2>2, <3>1, SwitchGivesWell DEF SendToReceiver
  <2>3. ASSUME NEW u \in Slots, NEW n, SendAndQueue(t, u, n)
        PROVE  CpuWellGiven'
    BY <2>1, <2>3, SwitchGivesWell DEF SendAndQueue
  <2>4. ASSUME NEW mask, Recv(t, mask)
        PROVE  CpuWellGiven'
    BY <2>1, <2>4, RecvKeepsWell DEF Recv
  <2>5. ASSUME NEW u \in Slots, Reply(t, u)
        PROVE  CpuWellGiven'
    BY <2>1, <2>5, WakeKeepsWell DEF Reply
  <2> QED BY <1>3, <2>2, <2>3, <2>4, <2>5 DEF Syscall
<1>4. CASE Resume(t)
  <2>1. ASSUME Start(t) \/ SendReturn(t) \/ RecvReturn(t) \/ BlockReturn(t)
        PROVE  CpuWellGiven'
    BY <2>1, MoveKeepsWell DEF Start, SendReturn, RecvReturn, BlockReturn, TakeOutcome
  <2>2. ASSUME SendWoke(t)
        PROVE  CpuWellGiven'
    BY <1>1, <2>2, MoveKeepsWell, SwitchGivesWell DEF SendWoke, TakeOutcome, StayOn, Posting
  <2>3. ASSUME FaultWoke(t)
        PROVE  CpuWellGiven'
    BY <1>1, <1>2, <2>3, MoveKeepsWell, SwitchGivesWell DEF FaultWoke, ParkForFault, StayOn, Posting
  <2>4. ASSUME RecvAgain(t)
        PROVE  CpuWellGiven'
    BY <1>1, <2>4, RecvKeepsWell DEF RecvAgain, Posting
  <2> QED BY <1>4, <2>1, <2>2, <2>3, <2>4 DEF Resume
<1> QED BY <1>3, <1>4

(* The end of a task, the supervisor's calls and what kernel tasks do *)
LEMMA EndsKeepWell ==
  ASSUME AllTyped, CpuWellGiven, QuietRestarts, NEW t \in Slots,
         Exit(t) \/ Fault(t) \/ Supervise(t) \/ Yield(t) \/ KernelTask(t)
  PROVE  CpuWellGiven'
<1>1. StateType(state) /\ ~space[KernelThread] /\ pc[KernelThread] \in {"run", "image"} \cup Posting
  BY DEF AllTyped, SchedTyped, RestTyped
<1>2. \A s \in Slots \ {KernelThread} : StateType(Marked(state, s))
  BY <1>1, MarkedEffect
<1>3. InUser(t) => current = t /\ t # KernelThread /\ pc[t] = "run"
  BY <1>1 DEF InUser, Running
<1>4. ASSUME t # KernelThread, NEW v \in {"Zombie", "Faulted"}
      PROVE  StateType([state EXCEPT ![t] = v])
  BY <1>1, <1>4, SlotFacts DEF StateType, States
<1>5. CASE Exit(t)
  <2> DEFINE st == StateAfterAbandon([state EXCEPT ![t] = "Zombie"], t)
  <2>1. StateType(st)
    BY <1>3, <1>4, <1>5, WokenEffect DEF Exit, ExitCurrent, StateAfterAbandon
  <2> QED BY <1>5, <2>1, SwitchGivesWell DEF Exit, ExitCurrent
<1>6. CASE Fault(t)
  <2> DEFINE released == StateAfterAbandon([state EXCEPT ![t] = "Faulted"], t)
             told     == Woken(released, {s \in Slots : faultWaiters[s]})
  <2>1. StateType(released)
    BY <1>3, <1>4, <1>6, WokenEffect DEF Fault, FaultCurrent, StateAfterAbandon
  <2>2. SwitchToNext(told) /\ UNCHANGED priority
    BY <1>6 DEF Fault, FaultCurrent
  <2>3. StateType(told)
    <3> HIDE DEF released
    <3> QED BY <2>1, WokenEffect
  <2> HIDE DEF told
  <2> QED BY <2>2, <2>3, SwitchGivesWell
<1>7. CASE Supervise(t)
  <2>1. ASSUME FaultWait(t)
        PROVE  CpuWellGiven'
    BY <1>2, <1>3, <2>1, SwitchGivesWell DEF FaultWait, ParkForFault
  <2>2. ASSUME NEW g \in Slots, Restart(t, g)
        PROVE  CpuWellGiven'
    <3> DEFINE st == StateAfterAbandon(state, g)
    <3>1. \A s \in Slots : st[s] = state[s]
      BY <1>1, <2>2, WokenEffect DEF QuietRestarts, StateAfterAbandon
    <3>2. /\ \A s \in Slots : state'[s] = "Runnable" => state[s] = "Runnable" \/ pc'[s] = "start"
          /\ \A s \in Slots : pc[s] = "start" => pc'[s] = "start"
          /\ pc[current] = "run" /\ UNCHANGED <<current, priority, needResched>>
      BY <1>1, <1>3, <2>2, <3>1, WokenEffect
         DEF Restart, AllTyped, RestTyped, StateAfterAbandon, StateType
    <3> QED BY <3>2, RankIrreflexive, StayKeepsWell
  <2> QED BY <1>7, <2>1, <2>2 DEF Supervise
<1>8. CASE Yield(t)
  BY <1>1, <1>8, SwitchGivesWell DEF Yield, YieldNow
<1>9. CASE KernelTask(t)
  <2>1. ASSUME BlockCurrent(t)
        PROVE  CpuWellGiven'
    BY <1>2, <2>1, SwitchGivesWell DEF BlockCurrent
  <2>2. ASSUME NEW s \in Slots, Unblock(t, s)
        PROVE  CpuWellGiven'
    BY <2>2, WakeKeepsWell DEF Unblock, InKernelThread, Running
  <2>3. ASSUME TaskFinished(t)
        PROVE  CpuWellGiven'
    <3>1. pc'[current'] = "finish"
      BY <2>3 DEF TaskFinished, InKernelThread, Running, GoTo, AllTyped, RestTyped
    <3> QED BY <3>1 DEF CpuWellGiven
  <2>4. ASSUME FinishLook(t) \/ FinishWake(t)
        PROVE  CpuWellGiven'
    <3>1. pc'[current'] = "finish"
      BY <2>4 DEF FinishLook, FinishWake, Finishing, schedVars
    <3> QED BY <3>1 DEF CpuWellGiven
  <2>5. ASSUME FinishLeave(t)
        PROVE  CpuWellGiven'
    BY <1>1, <2>5, SwitchGivesWell DEF FinishLeave
  <2> QED BY <1>9, <2>1, <2>2, <2>3, <2>4, <2>5 DEF KernelTask
<1> QED BY <1>5, <1>6, <1>7, <1>8, <1>9

(* The boot thread may be outranked; an interrupt that wakes somebody switches. *)
LEMMA BootKeepsWell ==
  ASSUME AllTyped, CpuWellGiven,
         \/ \E p \in Priorities, k \in Kinds : Spawn(p, k)
         \/ SpawnDone \/ CleanUp \/ BootRoute \/ Appoint \/ PostStep
         \/ \E i \in IntIds : Interrupt(i)
  PROVE  CpuWellGiven'
<1>1. CASE \/ \E p \in Priorities, k \in Kinds : Spawn(p, k)
           \/ SpawnDone \/ CleanUp \/ BootRoute \/ Appoint \/ PostStep
  <2>1. current' = KernelThread
    BY <1>1 DEF Spawn, SpawnIn, SpawnDone, RecordImage, CleanUp, ReapZombies, ReleaseDead, Kill,
                PostStep, BootPost, PostBits, BootPostLook, PostLook, BootPostWake, PostWake,
                BootPostAsk, PostAsk, BootRoute, Route, Appoint, SetSupervisor, InKernelThread,
                Running, schedVars
  <2> QED BY <2>1 DEF CpuWellGiven
<1>2. ASSUME NEW i \in IntIds, Interrupt(i)
      PROVE  CpuWellGiven'
  <2>1. StateType(state)
    BY DEF AllTyped, SchedTyped
  <2>2. ASSUME Routed(i) # {}
        PROVE  StateType(StateAfterPost(RouteOf(i).task, RouteOf(i).bits))
    <3>1. \A S : StateType(Woken(state, S))
      BY <2>1, WokenEffect
    <3> QED BY <2>1, <3>1 DEF StateAfterPost
  <2>3. CASE needResched \/ (Routed(i) # {} /\ WakesOn(RouteOf(i).task, RouteOf(i).bits))
             \/ i = TIMER_INTID
    <3>1. PICK st : StateType(st) /\ SwitchToNext(st)
      BY <1>2, <2>1, <2>2, <2>3 DEF Interrupt, Irq
    <3> QED BY <1>2, <3>1, SwitchGivesWell DEF Interrupt, Irq
  <2>4. CASE ~(needResched \/ (Routed(i) # {} /\ WakesOn(RouteOf(i).task, RouteOf(i).bits))
               \/ i = TIMER_INTID)
    <3>1. UNCHANGED <<state, current, priority, pc>> /\ needResched' = FALSE
      BY <1>2, <2>4 DEF Interrupt, Irq, StateAfterPost, StayOn
    <3> QED BY <2>4, <3>1 DEF CpuWellGiven, Outranks
  <2> QED BY <2>3, <2>4
<1> QED BY <1>1, <1>2

(* CpuWellGiven is inductive wherever restart wakes nobody. *)
LEMMA WellGivenStep ==
  ASSUME AllTyped, CpuWellGiven, QuietRestarts, [Next]_vars
  PROVE  CpuWellGiven'
<1>1. CASE Next
  BY <1>1, CallsKeepWell, EndsKeepWell, BootKeepsWell DEF Next, PostStep
<1>2. CASE UNCHANGED vars
  BY <1>2 DEF vars, schedVars, CpuWellGiven, Outranks
<1> QED BY <1>1, <1>2

(* Nobody waits on a stopped task when all tasks run at EL0. *)
LEMMA RestartsQuiet == ASSUME UserKernel, IInv PROVE QuietRestarts
<1> SUFFICES ASSUME NEW t \in Slots, NEW g \in Slots, Restart(t, g) PROVE WaitingOn(g) = {}
  BY DEF QuietRestarts
<1>1. AllTyped /\ TaskInv
  BY TypeInvParts DEF IInv, TaskInv
<1>2. state[g] \notin {"Runnable", "Blocked"}
  BY DEF UserKernel, Restart, IsAlive
<1> QED BY <1>1, <1>2, PeerFacts, PendingShapes DEF WaitingOn, SendKinds

(***************************************************************************)
(* Strict priority, in a kernel of EL0 tasks with or without a supervisor:  *)
(* whenever a task runs with no reschedule pending, every runnable task     *)
(* that outranks it has never run.  No wake in unblock, post, abandon or    *)
(* wake_fault_waiters leaves the better task waiting for the tick.          *)
(***************************************************************************)
THEOREM BestTaskHasTheCpu ==
  ASSUME UserKernel
  PROVE  Spec => []BestTaskRuns
<1>1. Init => CpuWellGiven
  BY DEF Init, SchedInit, CpuWellGiven
<1>2. IInv /\ CpuWellGiven /\ [Next]_vars => CpuWellGiven'
  BY TypeInvParts, RestartsQuiet, WellGivenStep DEF IInv
<1>3. CpuWellGiven => BestTaskRuns
  BY DEF CpuWellGiven, BestTaskRuns
<1> QED BY <1>1, <1>2, <1>3, IInvAlways, PTL DEF Spec

(***************************************************************************)
(* The same in a kernel without a supervisor, whose tasks may be kernel     *)
(* tasks too: block_current, unblock and task_finished keep the rule.       *)
(***************************************************************************)
THEOREM BestTaskHasTheCpuUnsupervised ==
  ASSUME ~HasSupervisor
  PROVE  Spec => []BestTaskRuns
<1> DEFINE Unsupervised == supervisor = NoTask
<1>1. Init => CpuWellGiven /\ Unsupervised
  BY DEF Init, SchedInit, SuperInit, CpuWellGiven
<1>2. TypeInv /\ Unsupervised => QuietRestarts
  BY SlotFacts DEF QuietRestarts, Restart
<1>3. Unsupervised /\ [Next]_vars => Unsupervised'
  <2> SUFFICES ASSUME Unsupervised, [Next]_vars PROVE UNCHANGED supervisor
    OBVIOUS
  <2>1. CASE \E t \in Slots : Syscall(t) \/ Resume(t) \/ Exit(t) \/ Fault(t)
    BY <2>1 DEF Syscall, Resume, FaultWoke, Exit, ExitCurrent, Fault, FaultCurrent, superVars
  <2>2. CASE \E t \in Slots : Supervise(t) \/ Yield(t) \/ KernelTask(t)
    BY <2>2 DEF Supervise, FaultWait, Restart, Yield, KernelTask, TaskFinished, FinishLook,
                FinishWake, FinishLeave, superVars
  <2>3. CASE \/ \E p \in Priorities, k \in Kinds : Spawn(p, k)
             \/ SpawnDone \/ CleanUp \/ BootRoute \/ Appoint \/ PostStep
             \/ \E i \in IntIds : Interrupt(i)
    BY <2>3 DEF Spawn, SpawnDone, CleanUp, PostStep, BootPost, BootPostLook, BootPostWake,
                BootPostAsk, BootRoute, Appoint,
                Interrupt, superVars
  <2>4. CASE UNCHANGED vars
    BY <2>4 DEF vars, superVars
  <2> QED BY <2>1, <2>2, <2>3, <2>4 DEF Next, PostStep
<1>4. TypeInv /\ Unsupervised /\ CpuWellGiven /\ [Next]_vars => CpuWellGiven'
  BY <1>2, TypeInvParts, WellGivenStep
<1>5. CpuWellGiven => BestTaskRuns
  BY DEF CpuWellGiven, BestTaskRuns
<1> HIDE DEF Unsupervised
<1> QED BY <1>1, <1>3, <1>4, <1>5, TypeInvAlways, PTL DEF Spec

=============================================================================
