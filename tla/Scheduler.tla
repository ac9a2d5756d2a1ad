------------------------------ MODULE Scheduler ------------------------------
(***************************************************************************)
(* The task table and the scheduler of kernel/src/tasks.rs: who may run,    *)
(* who runs next, and what giving up the CPU does to everybody else.        *)
(*                                                                         *)
(* The machine has one core.  A handler entered from EL0 runs with          *)
(* interrupts masked until it returns or switches, so one action is one     *)
(* handler up to the point where it gives the CPU away; pc[t] records where *)
(* task t resumes when it is next chosen.                                   *)
(***************************************************************************)
EXTENDS Integers, FiniteSets

CONSTANTS
  MAX_TASKS,   \* slots in the task table
  IDLE,        \* Priority::IDLE, the number of the least urgent level
  Priorities   \* the levels given to spawned tasks; a lower number wins

ASSUME SchedulerAssumption ==
  /\ MAX_TASKS \in Nat /\ MAX_TASKS > 1
  /\ IDLE \in Nat
  /\ Priorities \subseteq 0 .. IDLE - 1    \* IDLE is reserved for task 0

Slots == 0 .. MAX_TASKS - 1
KernelThread == 0        \* task 0: the boot thread, which is the idle task
NoTask == MAX_TASKS      \* not a slot

VARIABLES
  state,       \* [Slots -> States]: Task::state, "None" for an empty slot
  priority,    \* [Slots -> Nat]: Task::priority
  space,       \* [Slots -> BOOLEAN]: the task has an address space (EL0 task)
  image,       \* [Slots -> BOOLEAN]: Task::image is recorded
  pc,          \* [Slots -> Points]: where the task resumes on its own stack
  current,     \* Scheduler::current
  needResched  \* NEED_RESCHED

schedVars == <<state, priority, space, image, pc, current, needResched>>

States == {"None", "Runnable", "Blocked", "Zombie", "Dead", "Faulted"}

(***************************************************************************)
(* start    : a planted switch frame, never run (task_trampoline)           *)
(* run      : outside the kernel, or in a kernel thread, interrupts on      *)
(* sendWake : in send, inside the unblock of the receiver                   *)
(* sendPark, recvPark, faultPark, blockPark : in park() of that call        *)
(* image    : the kernel thread between spawn_in and recording the image    *)
(* posting, waking, asking : the kernel thread between the sections of post *)
(* finish   : a kernel task in task_finished, interrupts on                 *)
(* gone     : never runs again, or an empty slot                            *)
(***************************************************************************)
Points == {"start", "run", "sendWake", "sendPark", "recvPark", "faultPark",
           "blockPark", "image", "posting", "waking", "asking", "finish", "gone"}

(* Priority::outranks *)
Outranks(s, u) == priority[s] < priority[u]

(* How many steps past cur the cyclic scan of next_runnable meets s. *)
ScanDistance(cur, s) == (s - cur - 1) % MAX_TASKS

(* Variant: the scan starts at slot 0 instead of just past current. *)
NextRunnableFromZero(st, cur) ==
  CHOOSE s \in Slots :
    /\ st[s] = "Runnable"
    /\ \A u \in Slots : st[u] = "Runnable" =>
         Outranks(s, u) \/ (priority[s] = priority[u] /\ s <= u)

(***************************************************************************)
(* next_runnable: the scan starts just past current and only a strictly     *)
(* better priority displaces the task held, so the winner has the best      *)
(* priority and, among equals, is met first; current itself is met last.    *)
(***************************************************************************)
NextRunnable(st, cur) ==
  CHOOSE s \in Slots :
    /\ st[s] = "Runnable"
    /\ \A u \in Slots : st[u] = "Runnable" =>
         \/ Outranks(s, u)
         \/ priority[s] = priority[u] /\ ScanDistance(cur, s) <= ScanDistance(cur, u)

(* Variant: the running task is not excluded. *)
ReapableSelfToo(st, cur) == {s \in Slots : st[s] = "Zombie"}

(***************************************************************************)
(* reap_zombies: the loop takes the first zombie of the table and stops     *)
(* when that is the running task, so a zombie on the CPU shields itself and *)
(* every zombie in a higher slot.                                           *)
(***************************************************************************)
Reapable(st, cur) ==
  {s \in Slots : st[s] = "Zombie" /\ (st[cur] = "Zombie" => s < cur)}

Reaped(st, cur) ==
  [s \in Slots |-> IF s \in Reapable(st, cur) THEN "Dead" ELSE st[s]]

SpaceAfterReap(sp, st, cur) ==
  [s \in Slots |-> sp[s] /\ s \notin Reapable(st, cur)]

(* unblock_deferred: waking a task that is not blocked does nothing. *)
Woken(st, S) ==
  [s \in Slots |-> IF s \in S /\ st[s] = "Blocked" THEN "Runnable" ELSE st[s]]

(* mark_current_blocked *)
Marked(st, t) == [st EXCEPT ![t] = "Blocked"]

(* is_alive *)
IsAlive(s) == state[s] \in {"Runnable", "Blocked"}

(***************************************************************************)
(* switch_to_next, called with the table as the handler left it (st): reap, *)
(* pick, and hand the CPU over.                                             *)
(***************************************************************************)
SwitchToNext(st) ==
  LET reaped == Reaped(st, current)
  IN  /\ state' = reaped
      /\ space' = SpaceAfterReap(space, st, current)
      /\ current' = NextRunnable(reaped, current)

(* The handler returns to its task without giving up the CPU. *)
StayOn(st) ==
  /\ state' = st
  /\ UNCHANGED <<space, current>>

(* Variant: the woken task waits for the next tick. *)
WakeAndCarryOn(st, t, woken) == StayOn(Woken(st, {woken}))

(* unblock: the caller loses the CPU on this line if it woke a better task. *)
WakeAndYield(st, t, woken) ==
  IF st[woken] = "Blocked" /\ Outranks(woken, t)
  THEN SwitchToNext(Woken(st, {woken}))
  ELSE StayOn(Woken(st, {woken}))

GoTo(t, point) == pc' = [pc EXCEPT ![t] = point]

(* t is on the CPU and outside every kernel call, with interrupts on. *)
Running(t) == current = t /\ pc[t] = "run"

(* t is on the CPU at EL0, so it may make a system call. *)
InUser(t) == Running(t) /\ space[t]

(* t is a kernel thread on the CPU; task 0 is one. *)
InKernelThread(t) == Running(t) /\ ~space[t]

InterruptsOn ==
  pc[current] \in {"run", "image", "posting", "waking", "asking", "finish"}

(* free_slot: the lowest empty slot *)
FreeSlots == {s \in Slots : state[s] = "None"}
FreeSlot == CHOOSE s \in FreeSlots : \A u \in FreeSlots : s <= u

SchedInit ==
  /\ state = [s \in Slots |-> IF s = KernelThread THEN "Runnable" ELSE "None"]
  /\ priority = [s \in Slots |-> IDLE]
  /\ space = [s \in Slots |-> FALSE]
  /\ image = [s \in Slots |-> FALSE]
  /\ pc = [s \in Slots |-> IF s = KernelThread THEN "run" ELSE "gone"]
  /\ current = KernelThread
  /\ needResched = FALSE

-----------------------------------------------------------------------------
(* task_trampoline: the first instructions of a new task unmask interrupts. *)
Start(t) ==
  /\ current = t /\ pc[t] = "start"
  /\ GoTo(t, "run")
  /\ UNCHANGED <<state, priority, space, image, current, needResched>>

(* yield_now, from sys_yield or from a kernel thread *)
YieldNow(t) ==
  /\ Running(t)
  /\ SwitchToNext(state)
  /\ UNCHANGED <<priority, image, pc, needResched>>

(* block_current, used by kernel tasks only *)
BlockCurrent(t) ==
  /\ InKernelThread(t) /\ t # KernelThread
  /\ SwitchToNext(Marked(state, t))
  /\ GoTo(t, "blockPark")
  /\ UNCHANGED <<priority, image, needResched>>

BlockReturn(t) ==
  /\ current = t /\ pc[t] = "blockPark"
  /\ GoTo(t, "run")
  /\ UNCHANGED <<state, priority, space, image, current, needResched>>

(* unblock, called by a kernel thread on a task asleep in block_current *)
Unblock(t, s) ==
  /\ InKernelThread(t)
  /\ pc[s] = "blockPark"
  /\ WakeAndYield(state, t, s)
  /\ UNCHANGED <<priority, image, pc, needResched>>

(* spawn_in: the slot is filled in one locked section, ready to be chosen. *)
SpawnIn(p, hasSpace) ==
  /\ InKernelThread(KernelThread)
  /\ FreeSlots # {}
  /\ state' = [state EXCEPT ![FreeSlot] = "Runnable"]
  /\ priority' = [priority EXCEPT ![FreeSlot] = p]
  /\ space' = [space EXCEPT ![FreeSlot] = hasSpace]
  /\ image' = [image EXCEPT ![FreeSlot] = FALSE]
  /\ pc' = [pc EXCEPT ![FreeSlot] = "start",
                      ![KernelThread] = IF hasSpace THEN "image" ELSE "run"]
  /\ UNCHANGED <<current, needResched>>

(* The second locked section of spawn_user_program, for the task it spawned. *)
RecordImage(spawned) ==
  /\ current = KernelThread /\ pc[KernelThread] = "image"
  /\ image' = [image EXCEPT ![spawned] = TRUE]
  /\ GoTo(KernelThread, "run")
  /\ UNCHANGED <<state, priority, space, current, needResched>>

(* reap_zombies called directly by the kernel thread *)
ReapZombies ==
  /\ InKernelThread(KernelThread)
  /\ Reapable(state, current) # {}
  /\ state' = Reaped(state, current)
  /\ space' = SpaceAfterReap(space, state, current)
  /\ UNCHANGED <<priority, image, pc, current, needResched>>

(* release_dead: the slots of reaped tasks become empty. *)
ReleaseDead ==
  LET dead == {s \in Slots \ {current} : state[s] = "Dead"}
  IN  /\ InKernelThread(KernelThread)
      /\ dead # {}
      /\ state' = [s \in Slots |-> IF s \in dead THEN "None" ELSE state[s]]
      /\ image' = [s \in Slots |-> image[s] /\ s \notin dead]
      /\ priority' = [s \in Slots |-> IF s \in dead THEN IDLE ELSE priority[s]]
      /\ pc' = [s \in Slots |-> IF s \in dead THEN "gone" ELSE pc[s]]
      /\ UNCHANGED <<space, current, needResched>>

(* kill: give up on a faulted task. *)
Kill(s) ==
  /\ InKernelThread(KernelThread)
  /\ state[s] = "Faulted"
  /\ state' = [state EXCEPT ![s] = "Zombie"]
  /\ UNCHANGED <<priority, space, image, pc, current, needResched>>

=============================================================================
