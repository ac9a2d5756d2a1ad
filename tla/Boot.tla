--------------------------------- MODULE Boot ---------------------------------
(***************************************************************************)
(* Memory from the reset vector on: the page tables built on a guess        *)
(* (kernel/src/main.rs, kernel_main; paging.rs, build_tables), the move to  *)
(* the high half, the machine's own memory map and devices (main.rs,        *)
(* adopt_memory_map, discover_devices; virtio.rs, discover), and then the   *)
(* address spaces of tasks, made, switched, destroyed and made again        *)
(* (tasks.rs).                                                              *)
(*                                                                          *)
(* Up to the first task the boot path is one thread with interrupts masked. *)
(* After that the boot thread runs with interrupts on and may be switched   *)
(* away from between the steps of build_user_space.                         *)
(***************************************************************************)
EXTENDS PageTables, Sequences

CONSTANTS
  RAM_BASE, DEFAULT_RAM, MAX_RAM,                \* frames.rs: the guess and the limit
  TextStart, RodataStart, DataStart, KernelEnd,  \* linker.ld
  DEVICE_BASE, DEVICE_SIZE,                      \* the bootstrap device window
  USER_TEXT_VA, USER_STACK_VA, STACK_FRAMES,
  MAX_TASKS,  \* slot 0 is the boot thread
  Machines,   \* external: blob, memory, reservations and devices of a machine
  MaxSpawns, MaxFaults   \* bounds of the instance

ASSUME LayoutAssumption ==
  /\ {RAM_BASE, DEFAULT_RAM, MAX_RAM, TextStart, RodataStart, DataStart, KernelEnd} \subseteq Nat
  /\ 0 < RAM_BASE /\ RAM_BASE <= TextStart /\ TextStart <= RodataStart
  /\ RodataStart <= DataStart /\ DataStart <= KernelEnd /\ KernelEnd + 1 < RAM_BASE + DEFAULT_RAM
  /\ DEFAULT_RAM <= MAX_RAM /\ RAM_BASE + MAX_RAM <= PAGES
  /\ {DEVICE_BASE, DEVICE_SIZE} \subseteq Nat /\ DEVICE_BASE + DEVICE_SIZE <= RAM_BASE
  /\ {USER_TEXT_VA, USER_STACK_VA} \subseteq Pages /\ USER_TEXT_VA # USER_STACK_VA
  /\ {STACK_FRAMES, MAX_TASKS} \subseteq Nat \ {0}
  /\ {MaxSpawns, MaxFaults} \subseteq Nat

Least(a, b) == IF a < b THEN a ELSE b
Extents == [base : Nat, n : Nat]
EndOf(x) == x.base + x.n
Meet(x, y) == x.base < EndOf(y) /\ y.base < EndOf(x)

(* The end of the memory that the kernel would use on a machine *)
MemoryEnd(mach) == mach.memory.base + Least(mach.memory.n, MAX_RAM)

(* What a machine is: addresses the tables can translate, a blob smaller     *)
(* than a block (MAX_BLOB), devices outside RAM, none around the whole       *)
(* bootstrap window, and none that shares a page with one as big as a block. *)
ASSUME MachineAssumption ==
  \A mach \in Machines :
    /\ mach.blob \in Extents /\ mach.memory \in Extents
    /\ EndOf(mach.blob) <= PAGES /\ mach.blob.n < BLOCK /\ MemoryEnd(mach) <= PAGES
    /\ mach.reservations \in Seq(Extents) /\ mach.devices \in Seq(Extents)
    /\ \A i \in DOMAIN mach.devices :
         LET d == mach.devices[i]
         IN /\ EndOf(d) <= PAGES
            /\ \/ EndOf(d) <= RAM_BASE
               \/ d.base >= RAM_BASE + DEFAULT_RAM /\ d.base >= MemoryEnd(mach)
            /\ d.base >= DEVICE_BASE \/ EndOf(d) <= DEVICE_BASE + DEVICE_SIZE
            /\ \A j \in DOMAIN mach.devices \ {i} :
                 Meet(d, mach.devices[j]) => d.n < BLOCK

VARIABLES
  pc,         \* how far the boot thread has come
  machine,    \* the machine this boot runs on
  m,          \* the frames and what they hold
  ramEnd,     \* the end of the RAM the allocator knows
  low, high,  \* the two roots of build_tables
  ttbr0, ttbr1,
  asked,      \* [root -> where each page leads by what map_range was asked for]
  kept,       \* frames reserve_range has taken
  todo,       \* the devices of the tree still to be adopted, by their number
  adopted,    \* ... and those that are
  emptySpace, \* EMPTY_SPACE
  building,   \* the space build_user_space works on, NoRoot if none
  task,       \* [Tasks -> state, space, stack, and whether its image is recorded]
  current,    \* the task on the CPU
  spawned, faults

bootVars == <<machine, ramEnd, low, high, ttbr1, kept, todo, adopted, emptySpace>>
taskVars == <<building, task, current, spawned, faults>>
vars == <<pc, m, asked, ttbr0, bootVars, taskVars>>

Tasks == 1 .. MAX_TASKS - 1
NoRoot == 0
NoTask == [state |-> "none", space |-> NoRoot, stack |-> {}, image |-> FALSE]
R(va, pa, n, attrs) == [va |-> va, pa |-> pa, n |-> n, attrs |-> attrs]

(* frames::init leaves the image and everything below it taken. *)
Init ==
  /\ pc = "reset" /\ machine \in Machines
  /\ ramEnd = RAM_BASE + DEFAULT_RAM
  /\ m = Memory([f \in RAM_BASE .. RAM_BASE + MAX_RAM - 1 |-> Zeroed],
                KernelEnd .. RAM_BASE + DEFAULT_RAM - 1)
  /\ low = NoRoot /\ high = NoRoot /\ ttbr0 = NoRoot /\ ttbr1 = NoRoot
  /\ asked = <<>> /\ kept = {} /\ todo = {} /\ adopted = {}
  /\ emptySpace = NoRoot /\ building = NoRoot
  /\ task = [t \in Tasks |-> NoTask] /\ current = 0 /\ spawned = 0 /\ faults = 0

(* A panic: the machine stops. *)
Halt == pc' = "halted" /\ UNCHANGED <<m, asked, ttbr0, bootVars, taskVars>>

(* Where the ranges asked for say a page leads: the last one that covers it *)
Covers(r, va) == r.va <= va /\ va < r.va + r.n
Target(r, va) == [at |-> r.pa + (va - r.va), attrs |-> r.attrs]
Painted(map, ranges, n) ==
  [va \in Pages |->
     LET covering == {i \in 1 .. n : Covers(ranges[i], va)}
     IN IF covering = {} THEN map[va]
        ELSE Target(ranges[CHOOSE i \in covering : \A j \in covering : j <= i], va)]

Unmapped == [va \in Pages |-> Nowhere]
With(root, map) == [r \in DOMAIN asked \cup {root} |-> IF r = root THEN map ELSE asked[r]]
Asked(root, ranges) == With(root, Painted(asked[root], ranges, Len(ranges)))
AskedFor(roots) == [r \in roots |-> asked[r]]

(* map_range, for one range after the other *)
MapRanges(mem, root, ranges) ==
  LET after[i \in 0 .. Len(ranges)] ==
        IF i = 0 THEN mem ELSE MapRange(after[i - 1], root, ranges[i])
  IN after[Len(ranges)]

-----------------------------------------------------------------------------
(* build: one description for both roots *)
Layout ==
  <<R(RAM_BASE, RAM_BASE, TextStart - RAM_BASE, "data"),
    R(TextStart, TextStart, RodataStart - TextStart, "text"),
    R(RodataStart, RodataStart, DataStart - RodataStart, "rodata"),
    R(DataStart, DataStart, KernelEnd - DataStart, "data"),
    R(KernelEnd, KernelEnd, RAM_BASE + DEFAULT_RAM - KernelEnd, "data"),
    R(DEVICE_BASE, DEVICE_BASE, DEVICE_SIZE, "device")>>

Build(mem, root) == IF mem.ok THEN MapRanges(mem, root, Layout) ELSE mem

BuildTables ==
  /\ pc = "reset"
  /\ LET lowRoot == Lowest(m.free)
         highRoot == Lowest(m.free \ {lowRoot})
         built == Build(Build(Claim(m, {lowRoot, highRoot}), lowRoot), highRoot)
     IN \/ /\ built.ok /\ m' = built /\ pc' = "built"
           /\ low' = lowRoot /\ high' = highRoot
           /\ asked' = [r \in {lowRoot, highRoot} |-> Painted(Unmapped, Layout, Len(Layout))]
           /\ UNCHANGED <<machine, ramEnd, ttbr0, ttbr1, kept, todo, adopted, emptySpace, taskVars>>
        \/ ~built.ok /\ Halt

(* A blob that is not inside the guess is mapped for the high half. *)
HasBlob == machine.blob.n > 0
BlobEnd == EndOf(machine.blob)
OutsideGuess == machine.blob.base < RAM_BASE \/ BlobEnd > ramEnd

MapBlob ==
  /\ pc = "built"
  /\ LET r == R(machine.blob.base, machine.blob.base, machine.blob.n, "data")
         mapped == MapRange(m, high, r)
     IN \/ ~(HasBlob /\ OutsideGuess) /\ pc' = "mapped" /\ UNCHANGED <<m, asked>>
           /\ UNCHANGED <<ttbr0, bootVars, taskVars>>
        \/ HasBlob /\ OutsideGuess /\ mapped.ok /\ pc' = "mapped"
           /\ m' = mapped /\ asked' = Asked(high, <<r>>)
           /\ UNCHANGED <<ttbr0, bootVars, taskVars>>
        \/ HasBlob /\ OutsideGuess /\ ~mapped.ok /\ Halt

(* enable, then jump_to_high_half and finish_high_half *)
EnableMmu ==
  /\ pc = "mapped" /\ pc' = "low"
  /\ ttbr0' = low /\ ttbr1' = high
  /\ UNCHANGED <<m, asked, machine, ramEnd, low, high, kept, todo, adopted, emptySpace, taskVars>>

FinishHighHalf ==
  /\ pc = "low" /\ pc' = "high"
  /\ ttbr0' = NoRoot
  /\ UNCHANGED <<m, asked, bootVars, taskVars>>

-----------------------------------------------------------------------------
(* fdt::init: a blob whose first frame went into a table has lost its magic. *)
TreeAccepted == HasBlob /\ ~OutsideGuess /\ machine.blob.base \in m.free

InitTree ==
  /\ pc = "high"
  /\ todo' = IF TreeAccepted THEN DOMAIN machine.devices ELSE {}
  /\ pc' = CASE ~TreeAccepted -> "devices"
             [] TreeAccepted /\ machine.memory.n = 0 -> "devices"
             [] OTHER -> "extend"
  /\ UNCHANGED <<m, asked, ttbr0, machine, ramEnd, low, high, ttbr1, kept, adopted, emptySpace, taskVars>>

(* adopt_memory_map: first the physical map, then the allocator *)
NewEnd == MemoryEnd(machine)
Growth == R(ramEnd, ramEnd, NewEnd - ramEnd, "data")

(* Variant: the new memory is not mapped. *)
ExtensionForgotten == <<>>

Extension == IF NewEnd > ramEnd THEN <<Growth>> ELSE <<>>

ExtendMap ==
  /\ pc = "extend"
  /\ LET extended == MapRanges(m, ttbr1, Extension)
     IN \/ /\ extended.ok /\ m' = extended /\ pc' = "adopt"
           /\ asked' = Asked(ttbr1, Extension)
           /\ UNCHANGED <<ttbr0, bootVars, taskVars>>
        \/ ~extended.ok /\ Halt

(* frames::adopt: another base, or frames in use past the new end, is refused. *)
AdoptRefused ==
  machine.memory.base # RAM_BASE \/ (NewEnd < ramEnd /\ ~(NewEnd .. ramEnd - 1 \subseteq m.free))

Adopt ==
  /\ pc = "adopt" /\ pc' = "reserve"
  /\ IF AdoptRefused THEN UNCHANGED <<m, ramEnd>>
     ELSE /\ ramEnd' = NewEnd
          /\ m' = Memory(m.table, (m.free \cup ramEnd .. NewEnd - 1) \ (NewEnd .. ramEnd - 1))
  /\ UNCHANGED <<asked, ttbr0, machine, low, high, ttbr1, kept, todo, adopted, emptySpace, taskVars>>

(* reserve_range takes a whole range or nothing. *)
ReserveRange(free, r) ==
  LET wanted == r.base .. EndOf(r) - 1
  IN IF wanted \subseteq free THEN free \ wanted ELSE free

Regions == <<machine.blob>> \o machine.reservations

Unreserved ==
  LET left[i \in 0 .. Len(Regions)] ==
        IF i = 0 THEN m.free ELSE ReserveRange(left[i - 1], Regions[i])
  IN left[Len(Regions)]

ReserveRegions ==
  /\ pc = "reserve"
  /\ \/ /\ {machine.blob.base, BlobEnd - 1} \cap Unreserved = {}
        /\ BlobEnd <= ramEnd
        /\ m' = Memory(m.table, Unreserved) /\ kept' = m.free \ Unreserved
        /\ pc' = "devices"
        /\ UNCHANGED <<asked, ttbr0, machine, ramEnd, low, high, ttbr1, todo, adopted, emptySpace, taskVars>>
     \/ ({machine.blob.base, BlobEnd - 1} \cap Unreserved # {} \/ BlobEnd > ramEnd) /\ Halt

-----------------------------------------------------------------------------
(* discover_devices and virtio::discover, one map_device each.  Variant: a   *)
(* device that begins in the bootstrap window is taken to be inside it.      *)
Window == DEVICE_BASE .. DEVICE_BASE + DEVICE_SIZE - 1
DeviceEnd(d) == EndOf(d)

InWindowByStart(d) == d.base \in Window

InWindow(d) == d.base \in Window /\ DeviceEnd(d) <= DEVICE_BASE + DEVICE_SIZE

Straddles(d) == ~InWindow(d) /\ {d.base, DeviceEnd(d) - 1} \cap Window # {}

(* A table taken out of an unreserved blob leaves nothing to be found. *)
TreeLost == machine.blob.base \notin m.free \cup kept

AdoptDevice ==
  /\ pc = "devices" /\ todo # {} /\ ~TreeLost
  /\ LET d == machine.devices[Lowest(todo)]
         r == R(d.base, d.base, d.n, "device")
         mapped == IF InWindow(d) THEN m ELSE MapRange(m, ttbr1, r)
         refused == Straddles(d) \/ ~mapped.ok
     IN \/ refused /\ Halt
        \/ /\ ~refused /\ m' = mapped
           /\ asked' = IF InWindow(d) THEN asked ELSE Asked(ttbr1, <<r>>)
           /\ adopted' = adopted \cup {Lowest(todo)} /\ todo' = todo \ {Lowest(todo)}
           /\ UNCHANGED <<pc, ttbr0, machine, ramEnd, low, high, ttbr1, kept, emptySpace, taskVars>>

FindNoDevice ==
  /\ pc = "devices" /\ todo # {} /\ TreeLost
  /\ todo' = {}
  /\ UNCHANGED <<pc, m, asked, ttbr0, machine, ramEnd, low, high, ttbr1, kept, adopted, emptySpace, taskVars>>

InitAddressSpaces ==
  /\ pc = "devices" /\ todo = {}
  /\ \/ m.free = {} /\ Halt
     \/ /\ m.free # {} /\ pc' = "running"
        /\ LET root == Lowest(m.free)
           IN /\ m' = Claim(m, {root}) /\ asked' = With(root, Unmapped)
              /\ emptySpace' = root /\ ttbr0' = root
        /\ UNCHANGED <<machine, ramEnd, low, high, ttbr1, kept, todo, adopted, taskVars>>

-----------------------------------------------------------------------------
(* build_user_space: a root, then a page of text, then a page of stack *)
UserPage(mem, root, va, attrs) ==
  IF mem.free = {} \/ ~mem.ok THEN Panicked(mem)
  ELSE LET page == Lowest(mem.free) IN MapRange(Claim(mem, {page}), root, R(va, page, 1, attrs))

(* ... and the range it asked map_range for *)
PageAsked(mem, va, attrs) == <<R(va, Lowest(mem.free), 1, attrs)>>

OnBootThread(at) == pc = at /\ current = 0

NewSpace ==
  /\ OnBootThread("running") /\ spawned < MaxSpawns
  /\ \/ m.free = {} /\ Halt
     \/ /\ m.free # {} /\ pc' = "text"
        /\ LET root == Lowest(m.free)
           IN m' = Claim(m, {root}) /\ asked' = With(root, Unmapped) /\ building' = root
        /\ spawned' = spawned + 1
        /\ UNCHANGED <<ttbr0, bootVars, task, current, faults>>

MapUserPage(at, va, attrs, then) ==
  /\ OnBootThread(at)
  /\ LET mapped == UserPage(m, building, va, attrs)
     IN \/ ~mapped.ok /\ Halt
        \/ /\ mapped.ok /\ m' = mapped /\ pc' = then
           /\ asked' = Asked(building, PageAsked(m, va, attrs))
           /\ UNCHANGED <<ttbr0, bootVars, taskVars>>

MapText == MapUserPage("text", USER_TEXT_VA, "user_text", "stack")
MapStack == MapUserPage("stack", USER_STACK_VA, "user_data", "spawn")

(* spawn_in: a kernel stack, then the first free slot; the panic of either *)
SpawnIn ==
  /\ OnBootThread("spawn")
  /\ LET runs == Runs(m, STACK_FRAMES)
         slots == {t \in Tasks : task[t].state = "none"}
     IN \/ (runs = {} \/ slots = {}) /\ Halt
        \/ /\ runs # {} /\ slots # {} /\ pc' = "image"
           /\ LET stack == Lowest(runs) .. Lowest(runs) + STACK_FRAMES - 1
              IN /\ m' = Claim(m, stack)
                 /\ task' = [task EXCEPT ![Lowest(slots)] =
                      [state |-> "runnable", space |-> building, stack |-> stack, image |-> FALSE]]
           /\ building' = NoRoot
           /\ UNCHANGED <<asked, ttbr0, bootVars, current, spawned, faults>>

RecordImage ==
  /\ OnBootThread("image") /\ pc' = "running"
  /\ task' = [t \in Tasks |-> [task[t] EXCEPT !.image = @ \/ task[t].state # "none"]]
  /\ UNCHANGED <<m, asked, ttbr0, bootVars, building, current, spawned, faults>>

-----------------------------------------------------------------------------
(* reap_zombies stops at the first zombie if that is the current task.       *)
(* Variant: it does not look.                                                *)
VictimsAll(tasks) == {z \in Tasks : tasks[z].state = "zombie"}

Victims(tasks) ==
  {z \in Tasks : /\ tasks[z].state = "zombie" /\ z # current
                 /\ (current \in Tasks /\ tasks[current].state = "zombie") => z < current}

(* What the reaper frees of a task: the stack, then the space *)
TaskVisited(t) ==
  {<<<<-1, f>>, f>> : f \in task[t].stack} \cup SpaceVisited(m, task[t].space)

Reclaimed(gone) ==
  Release(m, UNION {{<<<<t, v[1]>>, v[2]>> : v \in TaskVisited(t)} : t \in gone})

(* A task without a space gets the empty one.  Variant: it keeps the last.   *)
RootInherited(tasks, t) == IF t = 0 THEN ttbr0 ELSE tasks[t].space

RootOf(tasks, t) == IF t = 0 THEN emptySpace ELSE tasks[t].space

(* switch_to_next, from the task table as the caller left it *)
SwitchToNext(tasks) ==
  LET gone == Victims(tasks)
      mem == Reclaimed(gone)
  IN \/ ~mem.ok /\ Halt
     \/ /\ mem.ok /\ m' = mem
        /\ asked' = AskedFor(DOMAIN asked \ {task[t].space : t \in gone})
        /\ task' = [t \in Tasks |-> IF t \in gone
             THEN [tasks[t] EXCEPT !.state = "dead", !.space = NoRoot, !.stack = {}] ELSE tasks[t]]
        /\ \E next \in {0} \cup {t \in Tasks : tasks[t].state = "runnable"} :
             /\ current' = next
             /\ ttbr0' = IF next = current THEN ttbr0 ELSE RootOf(tasks, next)
        /\ UNCHANGED <<pc, bootVars, building, spawned>>

Started == emptySpace # NoRoot /\ pc # "halted"

(* A tick, a yield or a block *)
Switch == Started /\ SwitchToNext(task) /\ UNCHANGED faults

Exit ==
  /\ Started /\ current \in Tasks
  /\ SwitchToNext([task EXCEPT ![current].state = "zombie"]) /\ UNCHANGED faults

Fault ==
  /\ Started /\ current \in Tasks /\ faults < MaxFaults
  /\ SwitchToNext([task EXCEPT ![current].state = "faulted"])
  /\ faults' = IF pc' = "halted" THEN faults ELSE faults + 1

(* restart, a system call of the supervisor.  Variant: the old space stays. *)
OldSpaceKept(t) == m

OldSpaceFreed(t) == FreeTable(m, task[t].space)

Restart(t) ==
  /\ Started /\ current \in Tasks \ {t}
  /\ task[t].state = "faulted" /\ task[t].image
  /\ LET freed == OldSpaceFreed(t)
         root == Lowest(freed.free)
         emptied == Claim(freed, {root})
         texted == UserPage(emptied, root, USER_TEXT_VA, "user_text")
         built == UserPage(texted, root, USER_STACK_VA, "user_data")
     IN \/ (~freed.ok \/ freed.free = {} \/ ~built.ok) /\ Halt
        \/ /\ freed.ok /\ freed.free # {} /\ built.ok /\ m' = built
           /\ asked' = [r \in (DOMAIN asked \ {task[t].space}) \cup {root} |->
                IF r # root THEN asked[r]
                ELSE Painted(Painted(Unmapped, PageAsked(emptied, USER_TEXT_VA, "user_text"), 1),
                             PageAsked(texted, USER_STACK_VA, "user_data"), 1)]
           /\ task' = [task EXCEPT ![t].state = "runnable", ![t].space = root]
           /\ UNCHANGED <<pc, ttbr0, bootVars, building, current, spawned, faults>>

(* kill and release_dead, by the boot thread *)
Kill(t) ==
  /\ OnBootThread("running") /\ task[t].state = "faulted"
  /\ task' = [task EXCEPT ![t].state = "zombie"]
  /\ UNCHANGED <<pc, m, asked, ttbr0, bootVars, building, current, spawned, faults>>

ReleaseDead ==
  /\ OnBootThread("running") /\ \E t \in Tasks : task[t].state = "dead"
  /\ task' = [t \in Tasks |-> IF task[t].state = "dead" THEN NoTask ELSE task[t]]
  /\ UNCHANGED <<pc, m, asked, ttbr0, bootVars, building, current, spawned, faults>>

Halted == pc = "halted" /\ UNCHANGED vars

-----------------------------------------------------------------------------
Next ==
  \/ BuildTables \/ MapBlob \/ EnableMmu \/ FinishHighHalf
  \/ InitTree \/ ExtendMap \/ Adopt \/ ReserveRegions
  \/ AdoptDevice \/ FindNoDevice \/ InitAddressSpaces
  \/ NewSpace \/ MapText \/ MapStack \/ SpawnIn \/ RecordImage
  \/ Switch \/ Exit \/ Fault
  \/ \E t \in Tasks : Restart(t) \/ Kill(t)
  \/ ReleaseDead \/ Halted

Spec == Init /\ [][Next]_vars

-----------------------------------------------------------------------------
TaskSpaces == {task[t].space : t \in Tasks}
Roots == ({low, high, emptySpace, building} \cup TaskSpaces) \ {NoRoot}

(* paging.rs map_range, free_table, tasks.rs build_user_space, restart: every *)
(* page of every live root leads where the ranges asked for say and nowhere   *)
(* else, whatever the frames of its tables held before, blocks and pages,     *)
(* the guess, the extension, the devices and the spaces of tasks that died.   *)
WalkIsRight ==
  \A root \in Roots : \A va \in Pages : Lookup(m, root, va) = asked[root][va]

(* main.rs adopt_memory_map, "Order matters": once the high half is on, every *)
(* frame the allocator can hand out is reachable by the kernel as data.       *)
KernelReachesItsFrames ==
  ttbr1 # NoRoot =>
    \A f \in KernelEnd .. ramEnd - 1 : Lookup(m, ttbr1, f) = [at |-> f, attrs |-> "data"]

(* map_device: a device that was adopted can be reached, all of it, as device *)
(* memory, though another may have been mapped after it.                      *)
AdoptedDevicesMapped ==
  \A i \in adopted : \A pa \in machine.devices[i].base .. DeviceEnd(machine.devices[i]) - 1 :
    Lookup(m, ttbr1, pa) = [at |-> pa, attrs |-> "device"]

(* What a space owns: its tables, and the pages they lead to *)
Tables(root) == IF root = NoRoot THEN {} ELSE Freed(TablesVisited(m, root))
Leaves(root) == IF root = NoRoot THEN {} ELSE Freed(LeavesVisited(m, root))
Owned(root) == Tables(root) \cup Leaves(root)

(* Who holds frames, a task for its space and for its stack *)
Holders == {"kept", "low", "high", "empty", "building"} \X {0} \cup {"space", "stack"} \X Tasks
Held(holder) ==
  CASE holder[1] = "kept" -> kept
    [] holder[1] = "low" -> Tables(low)
    [] holder[1] = "high" -> Tables(high)
    [] holder[1] = "empty" -> Tables(emptySpace)
    [] holder[1] = "building" -> Owned(building)
    [] holder[1] = "space" -> Owned(task[holder[2]].space)
    [] holder[1] = "stack" -> task[holder[2]].stack

(* frames.rs, tasks.rs reap_zombies, restart, paging.rs destroy: each frame   *)
(* that is out of the pool has exactly one holder, so none is leaked by an    *)
(* exit, a kill or a restart and none is in two tables.                       *)
FramesHaveOneHolder ==
  pc # "halted" =>
    LET held == {<<x, Held(x)>> : x \in Holders}
    IN /\ (KernelEnd .. ramEnd - 1) \ m.free = UNION {h[2] : h \in held}
       /\ \A g, h \in held : g[1] # h[1] => g[2] \cap h[2] = {}

(* tasks.rs switch_to_next, reap_zombies, restart: no step frees a frame of   *)
(* the space the hardware is walking or of the stack it runs on, though an    *)
(* exiting task calls the reaper itself and the boot thread runs in none.     *)
StackOf(t) == IF t = 0 THEN {} ELSE task[t].stack
NothingFreedUnderfoot ==
  [][Started => (Owned(ttbr0) \cup StackOf(current)) \cap m'.free = {}]_vars
=============================================================================
