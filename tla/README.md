# the_rack in TLA+

the_rack is a small aarch64 microkernel in Rust for one core: tasks at EL0 in
address spaces of their own, a strict-priority scheduler, synchronous messages
with leases, notifications for interrupts, and a supervisor task that restarts
what faults. This directory models it, checks the models with TLC on small
instances and proves the most important invariants with TLAPS for all of them.

## 1. The system

| part | state it keeps | operations | talks to |
|---|---|---|---|
| scheduler (`tasks.rs`, `switch.S`) | task table (state, priority, space, stack, image), `current`, `NEED_RESCHED` | spawn, yield, mark/park, unblock, unblock_deferred, switch_to_next, reap, release, kill | everything that blocks or wakes |
| message passing (`ipc.rs`) | `pending`, `outcome`, `leases`, `lease_count` per slot | send, recv, reply, borrow, abandon | scheduler, notifications, page tables |
| notifications (`notify.rs`) | `ROUTES`, `POSTED`, `WANTED` | route, post, take, arm, disarm, (clear) | IRQ path, recv, scheduler |
| interrupt path (`exceptions.rs`, `vectors.S`, `gic.rs`) | the controller's enabled and active line | dispatch_irq: acknowledge, handler, end of interrupt, switch | notifications, timer, scheduler |
| locks and masks (`sync.rs`) | `PSTATE.I`, saved masks on the stacks | disable, restore, enable, lock, unlock | all of the kernel |
| supervision (`tasks.rs`, `syscall.rs`) | `SUPERVISOR`, `FAULT_WAITERS` | fault_current, exit_current, task_finished, wait_for_fault, restart | scheduler, message passing |
| frame allocator (`frames.rs`) | bitmap, `free`, `reserved`, RAM length | alloc, alloc_contiguous, free, reserve_range, adopt | boot, page tables, stacks, queues |
| page tables (`paging.rs`) | trees of frames, two base registers | build_tables, map_range, extend, map_device, new/map/destroy of a space, lookup, user_range, copy_across | frame allocator, message passing, tasks |
| boot sequence (`main.rs`) | how far it has come | tables on a guess, high half, adopt_memory_map, discover_devices, init_address_spaces | all of the above |
| device tree (`fdt.rs`) | the blob, cursors into it | init, memory_map, find_node, find_compatible, reg | boot, virtio |
| virtio transport (`virtio.rs`) | the device's status and feature registers | probe, reset, negotiate, set_driver_ok, ack_interrupt | virtqueue, the device |
| virtqueue (`virtqueue.rs`) | descriptor table, free list, two rings | new, add, take_used, release | the device |
| timer (`timer.rs`) | the compare register, `TICKS` | init, on_tick | interrupt path |
| console, semihosting, reset vector | | | boot |

Calls from EL0 run with interrupts masked from the vector to the `eret`, so a
system call is atomic up to the point where it gives the CPU away and from the
point where it gets it back. EL0 code and kernel threads (the boot thread, slot
0, and the kernel tasks of the self tests) run with interrupts on, and a timer
tick can switch away from them anywhere. Everything hard follows from this:

* **interleaving**: between marking itself blocked and being asleep, a task may
  already have been answered; a message and a notification race for a receiver;
* **death**: a task that exits or faults must settle its affairs before its first
  switch, which is its last;
* **reuse**: messages, routes, bits, the supervisor are remembered by slot number,
  and slots are reused and tasks restarted;
* **check and later use**: buffers and leases are checked once, at the call;
* **arithmetic**: word-wise bitmap ranges, 64-bit sums, 16-bit ring indices,
  page-straddling copies, deadlines missed;
* **masks**: a lock is nothing but a saved mask, guards nest, and the mask of one
  task is put back after another has run;
* **frames with a past**: a page table is whatever its frame holds, the first tables
  are built on a guess of the memory, and the reaper frees tables and stacks
  while it stands on one;
* **the outside**: the tree's blob may hold anything; a device resets in its own
  time, refuses features, finishes out of order.

`PROJECT.json` lists each hazard with its line and the properties aimed at it.

## 2. Modules

    Scheduler -> Notify -> Ipc -> Supervision -> Kernel -> MCKernel
                                                   |  \-> KernelInvariant -> KernelProofs
                                                   \ - - implements - -> Rendezvous
    Timer -> Interrupts -> MCInterrupts, InterruptsProofs
    FrameAllocator -> MCFrames, FrameProofs       Leases -> MCLeases, LeasesProofs
    Virtqueue -> Virtio -> MCVirtio, VirtioProofs
    DeviceTree -> MCDeviceTree, DeviceTreeProofs
    PageTables -> Boot -> MCBoot
        \-> PageTableProofs -> BootProofs (which extends Boot too)

The kernel's four parts share one task table, so they extend one another;
`Kernel` composes them: its `Next` lets every task make any system call, fault,
exit or be interrupted at any moment, and the boot thread spawn, clean up, post,
route and appoint. `Interrupts` is the same kernel seen from below: which calls run is
left open there, and how they hold masks and locks is spelled out. The others are
separate state machines. Definitions commented *Variant* are plausible mistakes,
each the mutant one property must catch; no action uses them.

### Scheduler, Notify, Ipc, Supervision, Kernel

`state`, `priority`, `space`, `image` are the fields of `Task`; `pc[t]` is where a
task that is off the CPU will continue, or what the one on it is doing:

| `pc` | the code |
|---|---|
| `start` | never run; enters through `task_trampoline` |
| `run` | EL0 code, or a kernel thread between calls |
| `image` | the boot thread inside `spawn_user_program`, image not recorded |
| `posting`, `waking`, `asking` | the boot thread inside `post`: bits set; found to be wanted; task woken, no reschedule asked for yet |
| `sendWake` | in `send`, switched away in `unblock(target)`, `park` still to come |
| `sendPark`, `recvPark`, `faultPark`, `blockPark` | parked in `send`, `recv`, `wait_for_fault`, `block_current` |
| `finish` | a kernel task in `task_finished`, before its last yield |
| `gone` | will not run again |

An action is a stretch of kernel code between two places where the CPU can change
hands. `SwitchToNext(st)` is `switch_to_next` on the table `st` the handler left,
reaping included; `WakeAndYield` is `unblock`; `Woken` is `unblock_deferred`.
`park` appears where the code calls it: `SendWoke` returns at once if the
task was made runnable in the meantime. `Irq` is `dispatch_irq` with the switch last.
Kernel tasks and the boot thread run with interrupts on, so what they do is split at
every locked section: `TaskFinished`, `FinishLook`, `FinishWake`, `FinishLeave`, and the
boot thread's `post` as `BootPost` (the bits, under `POSTED`), `BootPostLook` (who wants them,
under `WANTED`), `BootPostWake` (`unblock_deferred`, under `SCHEDULER`) and `BootPostAsk`
(`request_reschedule`), with `owed` holding the bits until the task is woken or found not to want
them. The guard on `WANTED` is a temporary of the `if` condition, so interrupts are back on before
its body runs, and the wake may come when the task has long been woken by somebody else and has
blocked in another call. `PostsOnlyToReceivers` says whether tasks may send while they are being
posted to (section 3).

Abstractions: a message is who sent it; `operation`, lengths and return
codes are dropped, an outcome is `Zero`, a message, a reply or dead; leases are a
count; masks are sets of bits; `fault_info` and `exit_code` are reads. A refused
call returns to EL0 and changes nothing, so it is not an action.

`Rendezvous` says what a call promises with no scheduler in it: queued or
accepted, answered at most once and only by whoever accepted it, failed exactly
if the target departs first, and then returned. The mapping `CallOf` reads the
stage of a call off `pending`, `pc` and `outcome`.

### Leases

Byte-granular memory of three tasks, mapped through small page maps with
unmapped and read-only pages and scattered frames. A byte's content is the
physical address it started at, so a copy shows which bytes it moved. `UserRange`,
`Translate` and `CopyAcross` follow `paging.rs` page by page and chunk by chunk;
`Send`, `Receive`, `Reply`, `Abandoned` and `Borrow` follow `ipc.rs`. Addresses at
or above `KERNEL_BASE` but below its page alignment, and page numbers past the
tables (`table_index` masks them), are included. `FrameAssumption` says that no frame
is under two pages: every page of a space is mapped on a frame `alloc` has just returned
(`tasks.rs:940`, `2195`, `2210`). Receiving stands both for `recv`
collecting a queued message and for `send` handing one to a waiting receiver.

### FrameAllocator

`bits` is the bitmap as a set, next to the counters the code keeps. A section
under the lock is a step. After unlocking, a run is zeroed one frame at a time (`ZeroNext`, `zeroed` counts)
and then returned (`Return`), with everybody else's claims, writes, frees and reservations in between;
the frame-by-frame `free_contiguous` is a step for each frame as well. `kept`, `claimed`, `owned`,
`returning` and `dirty` record who holds what and what is in it. `WORD` is 64 in the code.
`AdoptMap` and `ReserveRegions` are `adopt_memory_map`; a panic ends a behaviour.

### Virtqueue

The descriptor table, free list and both rings as the driver and an external
device see them. `Add` writes descriptors and the ring entry, `Publish` is the index
store after the fence; the device takes, finishes in any order and publishes in
steps of its own. Indices wrap at `INDICES` (2^16), positions at `QUEUE_SIZE`.

### Virtio

The status-register protocol around the queue, as the two self tests drive it:
`reset` writes zero and polls until the device says zero, `negotiate` acknowledges,
reads what is offered, writes what it takes, sets `FEATURES_OK` and reads it back.
The device (external) may have been left running by firmware, resets when it gets
to it, may drop `FEATURES_OK`, works only after `DRIVER_OK`, raises its interrupt with
each entry. `ack_interrupt` is two steps, `AckRead` and `AckWrite`. What the magic, version
and id registers answer is left out.

### Timer

The counter moves at any speed relative to the handler. `OnTick` samples it,
`Rearm` writes the compare register; the counter runs in between.

### Interrupts

`todo[t]` is the code task `t` has still to run, as far as it touches the mask, locks, the
controller and the CPU: a sequence of instructions that `Execute` runs one at a time.
Each operation of the kernel (`Send`, `Recv`, `Reply`, `TaskFinished`, `Handler`, ...) is a piece of
such code with a branch wherever the source returns early or takes another way,
in the source's order of taking and dropping guards. `saved[t]` is the stack of masks that
task has saved: guards, `disable_interrupts`, the SPSR of a trap frame. `Switch` hands the CPU
over with the mask as it is, and the next task finds its own saves; a new one enters
through the trampoline. The controller signals the line while it is enabled, due
and not active; `TakeIrq` happens at any instruction boundary where the CPU is unmasked.
Which task `Switch` picks is open here.

### DeviceTree

The blob is an array of 4-byte words with a decoded header; a step is one turn of
a loop of the code (`Walker::next`, `Properties::next`, the search for the next transport), so
a loop that never ends is a behaviour that never finishes. `inside` turns false at
the first read outside the blob. The questions are those the boot path asks, in its
order: reserved memory, memory, console, interrupt controller, transports. A panic (an
interrupt number that overflows, cells the walker does not hold) is an end state. Left out: bytes inside a
word (names that are not UTF-8, lengths that are not a multiple of four), and the
repeated scans of `regions`, which are one scan.

### PageTables, Boot

Addresses count pages. A memory `m` holds what each frame contains read as a table, which frames are
free, and whether an assertion has failed. `MapRange` goes through its loop turn by turn
(`MapChunk`) and down the levels (`Descend`, `NextTable`) as `paging.rs` does, as functions of the
number of turns and of the level; `Lookup` follows the tables (`Path`) to the last one and reads its
entry. A table entry, a page and a block differ as in the descriptors. `FreeTable` is not written in
the order of the recursion: it is the set of visits of `free_table`, one for each table and for each
page a leaf covers, at the place in the tree where it is found, and it panics if two places hold the
same frame or a frame is free already, which is when `frames::free` would. `Boot` runs
`kernel_main`: `BuildTables` on the guessed RAM, `MapBlob`, `EnableMmu`, `FinishHighHalf`,
`InitTree`, `ExtendMap`, `Adopt`, `ReserveRegions`, one `AdoptDevice` per window,
`InitAddressSpaces`; a failed assertion halts. Then the boot thread builds spaces in steps
(`NewSpace`, `MapText`, `MapStack`, `SpawnIn`, `RecordImage`) while tasks run, exit, fault, are
restarted, killed and reaped in between. `asked[root]` records where each page leads by the ranges
`map_range` was called with (the last one that covers it), which is what the tables are held to; it
is computed without looking at a table. The machine (blob, memory, reservations, devices) is
external, and the tree's contents are taken as read (`DeviceTree` reads them). TLB maintenance is
left out: every change of a live table is followed by a full invalidation. A restart is one step,
since the supervisor's call runs masked.

## 3. Runs

| run | states | shows |
|---|---|---|
| `kernel_calls` | 620 k | three EL0 tasks at two priorities, one of them the supervisor, with two faults and a lease: no wakeup, reply, fault or lease lost or outliving its call, nobody stranded; message passing implements `Rendezvous` throughout |
| `kernel_notify` | 771 k | two bits, a device line and the timer, boot-thread posts section by section and slot reuse: no notification missed or lost, no entry, lease or mask inherited, even when a late wake has ended a send |
| `kernel_tasks` | 146 k | kernel tasks and EL0 tasks together: the best task runs, no stack freed underfoot; liveness: round robin at the highest runnable priority |
| `interrupts` | 635 k | masks are put back exactly, locks stay exclusive without an owner, ticks neither drift nor pile up; liveness: the heartbeat never stops |
| `boot` | 9 k | on twenty-one machines, every translation is the one asked for, the kernel reaches every frame it may hand out and every device it adopted, every frame has one holder, nothing is freed underfoot |
| `device_tree` | 220 k | trees are read back as they were described; damaged ones never lead outside the blob, and the reader finishes |
| `leases` | 11 k | exactly the agreed bytes move |
| `frames` | 428 k | one owner per frame, exact bitmap and counters, and clean on arrival, though zeroed without the lock |
| `virtio` | 90 k | the driver uses only a device that is reset, agreed and ready, and leaves it in reset; descriptors partitioned, chains intact, each request completed once; liveness: requests come back |

**Bounds.** Three spawned tasks are enough for a receiver with two competing
senders, for a supervisor with a victim and somebody waiting on it, and for a
sender, a replier and a third party that forges an answer. Two priorities (plus
idle) give every order of waker and woken. Spawns and
exits alternate, so slots are reused within `MaxSpawns`; a restart does the same to a
task's own slot. Two faults
let one happen while the other is handled.
`kernel_notify` uses the symmetry of the bits, which are only compared for equality. Its two spawns are two tasks, or one and its successor
in the slot, and slot 0 is there to be sent to; a wake of `post` that comes late meets its task in recv, in send, at
EL0 and gone. Frames:
three bitmap words of two frames exercise head, whole and tail words; regions
inside a frame, across two, across the image, below and past RAM. Virtio: two
descriptors and chains of one or two fill the queue either way; two laps of
indices are the least that tell full from empty. Interrupts: the counter runs for two
intervals of two, so the handler can be on time, late, and late by a whole interval;
the boot thread, a kernel task and an EL0 task are the three ways a stack can look.
DeviceTree: seventy-two orders of the nodes, cell counts declared or not, nodes nested to
and past the walker's depth, more reservations and transports than there is room
for; and every single word of a small tree, and every header field, replaced by each
token and by zero and extreme values. Boot: 64
pages in tables of four entries and three levels, so blocks, partial blocks and shared tables all occur;
memory as guessed, less, more, too much, too little, elsewhere, not described; the
blob in each place it can lie; devices inside, outside and across the bootstrap
window, sharing a table or a page; two task slots, three spawns and a fault, so frames of dead spaces come back
as tables of new ones. Leases: two-byte pages give
every alignment of source against target; two copies in a row suffice because the
property constrains each step and the guards depend only on who is in a send.

**Deadlock** is checked in every run. Task 0 is always runnable, so the kernel never gets stuck as a whole
(tasks that send to each other in a cycle do; the repository's README leaves that
to the tasks).

**Fairness.** `kernel_tasks`: weak fairness of a task's resumption, since the CPU keeps
executing kernel code, and strong fairness of the timer interrupt, since it is
level-triggered, stays pending while masked, and `eret` unmasks. No fairness is
assumed of what EL0 tasks choose to do. `interrupts`: the CPU executes (weak fairness of
`Execute`), takes an interrupt that keeps being signalled while it is unmasked again and
again (strong, since EL0 and kernel code alternate with masked stretches), and the
controller, which may answer one acknowledge with a spurious number, does not do
so for ever. `virtio`: the driver finishes `add` and `ack_interrupt`, notifies and polls; the
device looks when notified and does not ignore a chain for ever. `device_tree`: the
reader is straight-line code and keeps running.

### Where the code and its documentation part

These runs end in a violation; `findings` in `PROJECT.json` quotes the lines.

* `restart_live`: `restart` calls `abandon` before it knows the task is faulted; naming a
  live blocked task leaves it asleep for good. The other kernel runs, and the
  theorems, assume a supervisor that restarts only what has stopped
  (`RestartsOnlyStopped`), as `user_supervisor` does.
* `reused_slot_bits`: `notify::clear` is never called; bits survive into the next
  task of the slot and across a restart.
* `starved_peer`: "the one that has waited longest" fails for peers below a task that
  wakes on every tick.

Known, in the models, and kept out of the runs' properties:

* `task_finished` marks a kernel task a zombie and runs `abandon` with interrupts on;
  a tick in between switches away for good and strands whoever sent to it. With
  `Kinds = {"user", "kernel"}`, `NobodyWaitsOnTheGone` fails; the runs that check it, and the
  theorems, have EL0 tasks only (`exit_current` and `fault_current` run masked).
* `post` looks who wants the bits (`notify.rs:116`) and wakes afterwards (`notify.rs:117`). If
  the boot thread is preempted in between and the task, woken by somebody else, sends
  by the time it goes on, the wake ends that send: it returns before it is answered, with its entry and leases still set. With
  `BootPosts = TRUE` and `PostsOnlyToReceivers = FALSE`, `BuffersHeld` and `OutcomeMatchesCall` fail (a trace of 13
  states), and an answer that comes after all is left to the next task of the slot, since
  `abandon` does not clear the outcome of the task that is going. The shipped boot thread posts
  only to `user_notified` and `user_slow_server` (`tasks.rs:1326`, `1333`, `1422`), which never send (`user.S:959`
  to `1020`), so it does not get there. `kernel_notify` runs without that restriction; the
  runs about calls have no boot-thread posts, and the theorems about calls assume it.
* `SUPERVISOR` outlives its task and names the next one spawned into the slot.
* `spawn_user_program` records the image after the task became runnable (`Spawn`, then
  `SpawnDone`): a task that runs and faults in between cannot be restarted.
* `reserve_range` rounds its end up after the overflow check; a range that ends in the
  last frame of the address space panics instead of being refused (`EndOverflows`).
* Until `adopt_memory_map` reserves it, nothing keeps the allocator off the blob, and a
  tree without `/memory` never gets that far: a table made for a device afterwards may be put on it
  (`FindNoDevice`), against the comment at `fdt.rs:487`. A blob right behind the image is
  zeroed by the first tables and then refused; one of a single frame right behind those
  tables is lost to the extension of the map without an assertion noticing.
* A blob across the end of the guessed RAM panics in `map_physical`; one wholly outside
  is mapped and then refused by `fdt::init`, where `main.rs:77` expects it to be read.
* `ExtendMap` comes before `Adopt` has looked at the base of the memory it extends to.

Seen while reading, and not behind a run: `user_range` accepts addresses in
`[2^48, KERNEL_BASE)` as aliases of low ones, because `table_index` masks the upper bits
(the check and the copy agree, so nothing else is reached); `arm_next` skips also
when it is late by exactly one interval, where its comment says "exceed", and the
deadlines continue from the moment of the late handler, off the old grid;
a reserved region that overlaps an earlier one is refused whole
(`AlreadyTaken`, a warning) although its remaining frames are not reserved; `map_block` overwrites
a table entry without a word, which nothing does at present; `map_device` does not
handle a device that encloses the bootstrap window; `base + size.min(MAX_RAM)` in
`adopt_memory_map` is unchecked; a completion between the read and the write of
`ack_interrupt` is acknowledged unseen (the only driver polls); `release` frees the ring's
frame right after clearing `QUEUE_READY` and the device is reset only later.

## 4. Proofs

All of it holds for every value of the constants that satisfies the modules'
assumptions: any number of slots, priorities, bits, routes, leases, any bounds.

* `KernelProofs.TypeCorrect`, `CpuOnlyGivenToRunnable`: `TypeInv` is inductive. It adds
  to the types that task 0 stays runnable (so `next_runnable` always finds somebody;
  `NextRunnableFound` shows the scan does, from well-foundedness of the scan distance and
  of priorities) and that the task on the CPU may run. No assumption on the kinds of
  tasks.
* `KernelProofs`, what holds of every state: under `UserKernel` (only EL0 tasks are spawned, only stopped tasks
  are restarted, and no task sends while the boot thread posts to it) `IInv == TypeInv /\ PostsAreOwed /\ \A t :
  TaskConsistent(t)` is inductive. `PostsAreOwed` says that one post at a time is under way and that a
  task it is about to wake is not in a send.
  `TaskConsistent` says for each place a task can be resumed at what all the tables hold
  for it: in `send`, asleep with a live target and no outcome, or awake with an
  outcome and no entry; in `recv`, listening with nobody queued and no wanted bit
  posted except those `owed`, or awake with a message whose sender waits for it; and so on. None of the
  invariants is inductive alone: that a waiting sender's target is alive needs that
  whoever dies runs `abandon`, that an awake sender has an outcome needs that only
  `deliver_outcome` wakes it, which needs that its entry says so. From `IInv`
  follow `NoLostWakeup`, `BuffersStayValid`, `NoSenderStranded`, `OutcomesMatch` and
  `NoFaultMissed`. The assumption cannot be
  dropped: the end of a kernel task violates one of them without its first part,
  `restart_live` one without its second, and a late wake two without its third (section 3).
* `KernelProofs`, for every kernel, whatever it spawns, restarts and posts and however late `post` wakes:
  `NoNotificationMissed` and `FreshInstancesClean`, from `Settled`. It keeps of each task what a wake at
  the wrong moment cannot disturb: a mask or a fault wait lasts no longer than the park that armed it, a
  task that has stopped is past its last call, only an EL0 task that has run has an entry or leases, and a posted bit that a
  blocked task wants is owed.
* `KernelProofs`, what steps may do, from the same invariant: `CallsImplementRendezvous`
  shows that under the mapping `CallOf` every step of the kernel is a step of `Rendezvous`
  or none; the step that costs is `abandon`, which fails all calls to the departing task at once, and
  `send` to a waiting receiver, which is queued and accepted in one step. `OutcomesReachTheirReader`
  needs that whoever has an outcome has no entry left for anybody to act on;
  `NoPostedBitLost` and `RunningStackKept` hold in every kernel, from `TypeInv` alone.
  `BestTaskHasTheCpu` needs an invariant of its own, `CpuWellGiven`: at each place the CPU
  can be handed over, whoever outranks the one that has it has never run or is the very
  task about to be switched to. It is proved for `UserKernel`, where a restart wakes
  nobody because the task restarted has stopped, and again, without it, for
  kernels that have no supervisor and may spawn kernel tasks.
* `InterruptsProofs`, the timer: for every interval, `HeartbeatDoesNotDrift`, `HeartbeatNeverFast`,
  `DeadlineAhead`, from `TimerInv`, which relates the deadline, the sample and the number of ticks.
  `MachineImplementsTimer`, for any tasks, by step simulation: of all the
  machine's instructions only the handler's two touch the timer, in the order the
  timer's own specification has them. `MachineDoesNotDrift` and `MachineNeverFast` follow.
* `InterruptsProofs`, masks and locks: `LocksStayExclusive` and `MaskIsPutBack`, for any number of
  tasks. The invariant has to speak of all the code a task has still to run, since whether
  the next instruction is harmless depends on what was saved for it. `Good(c, B)` says
  that every way through the code `c` fits the stack `B`: no lock is asked for under a guard on it,
  what is put back is what was saved last, the CPU is given up only masked and without a guard,
  and at the end nothing is saved. Code branches into code, so this is the largest relation closed
  under taking a step. It composes: `Neutral` code leaves the stack as it found it whatever follows;
  `Quiet` code may run on any stack without guards, `Parking` code on one that is also masked; and
  each operation of the kernel is shown to be one of these from its parts. Then `LiveInv`: who has
  the CPU runs good code, masked exactly while something is saved; who has not, has not
  started, or gave it up with a mask to put back and no guard. Before the boot thread turns interrupts on
  its lock self test runs unmasked, which `BootInv` follows instruction by
  instruction: nothing is enabled yet that could interrupt it.
* `FrameProofs`: `OneOwner`, `BitmapExact`, `Zeroed`, `RangesExact`. `FrameInv` is the conjunction: that no frame has two
  owners needs that a frame the bitmap calls free has none, and that the bitmap is exact needs that
  a frame that is freed has no second owner whose bit would go with it. `Zeroed` rests on it: `ZeroedSoFar`
  says that what has been zeroed of a run is still clean, whoever wrote to what in the meantime, and an
  owner's writes miss it only because no frame has two owners. `RangesExact` is
  arithmetic: head, whole words and tail cover a range, for every word size.
* `VirtioProofs`: `DescriptorsAccountedFor`, `DeviceReadsWhatWasQueued`, `FinishedOnce` for every queue size, chain
  length and index width. `QueueInv` says that the free list and the chain of every
  request thread disjoint sets of descriptors that together are all of them, and that the entries of
  both rings between the indices are requests that are out, each once. The
  indices wrap: what is between two of them is counted by the numbers of entries ever made, of which the
  indices are remainders. `HandshakeAgreed` and `DeviceLeftClean` from `HandshakeInv`, which says
  at each point of the handshake what the device has been told and may still be about to do.
* `LeasesProofs`: `CheckedOnceIsEnough` and `AgreedBytesMove` for every page size and every layout of the spaces.
  The invariant keeps, for every task in a send, what the checks established.
  `RangeIsEveryByte`: looking at the pages from the first to the last is looking at every byte.
  `CopyMoves`: after any number of turns `copy_across` has moved exactly the bytes up to
  `done`; a chunk lies in one page on either side, so it is contiguous in memory, and the two
  sides never overlap, by `FrameAssumption` and because nobody sends to itself. `PieceOfLease`: the
  unchecked sum `base + offset` in `borrow` does not wrap, because the lease was checked.
* `DeviceTreeProofs.ReaderStaysInside`: for every blob, every depth limit and every 32-bit
  content of its words, no read leaves the blob and no array is indexed past its end. The
  inductive `ReaderInv` adds that an accepted header bounds its blocks by the blob's length, that
  the walker's offset never passes the largest blob, so that the sums it does not check
  still fit, and that the depth stays below the array's.
* `PageTableProofs` and `BootProofs`: all five properties of `Boot`, for tables of any size and
  depth, any layout, any machines and any number of tasks. A property of a walk says nothing about
  the tables it does not pass, and a write to a table changes every walk through it, so the
  invariant has to know of each table that nothing else leads to it. `ShapeOf(mem, h)` says so with
  a map `h` of homes: for each table, the root, the level and the indices above it, which no two
  tables share; each entry leads to the table whose home is one step further or is a leaf, and each
  table but a root hangs on an entry. `Filled` adds that no last-level table is empty, so that
  freeing what a walk can see frees every table. `WalkEnds` and the lemmas after it turn this into
  facts about `Lookup`: a new table changes no walk (`NextTableIs`), a leaf changes the walks of one
  root below one entry (`MapLeafIs`), and a whole `map_range` paints exactly its range
  (`MapRangeIs`), provided a block never lands on a table. `Sound` then ties homes to holders: the
  frames out of the pool are partitioned (`Part`) among the tables of each root, the pages of each
  user space, the stacks and the reservations, and each walk is the one asked for. Three lemmas say
  how a step may change it: taking frames, giving all that some holders have (`Dropped`: the reaper
  and the first half of a restart), and building a space (`SpaceMade`). `BootInv` adds what `Sound`
  cannot know: how far the boot has come (`Phases`), what the kernel's root maps apart from RAM, so
  that a block for new memory or a device finds nothing in its way (`KernelMaps`), which pages of a
  space under construction are still unmapped (`SpaceMaps`), and which space the hardware walks
  (`TaskFacts`). From it follow `WalksAreRight`, `KernelReachesThem`, `DevicesStayMapped`,
  `OneHolder`, `NothingUnderfoot` (whoever has the CPU, and its space, are never among the reaper's
  victims) and `FreesNeverPanic`: neither reaping nor a restart can trip the double-free assertion.

One lemma per action shows what it preserves; facts about `SwitchToNext`, `Woken` and `Abandon` are
stated once. The provers cannot instantiate the library's induction theorems, which take an
operator; where a proof needs induction (the walks along free list and chains, the turns of
`copy_across` and `map_range`, the levels of a walk) it takes the least counterexample instead
(`LeastOf`, from well-foundedness of the naturals), and shows first that the recursion has a
solution at all (`WalkExists`, `TurnsExist`, `MapRangeDef`).

**Assumptions on `Boot`.** `LayoutAssumption` is the linker script and the constants of `paging.rs`
and `frames.rs`: the sections follow one another inside RAM, the guess has room for two more frames
behind the image (its two roots; with less, `build_tables` panics on its first line), the device
window ends before RAM begins, and text and stack of a user space are different pages.
`MachineAssumption` says what machines are considered, and each clause excludes something the code
would get wrong or cannot meet:

* addresses fit the tables (48 bits in the code, `table_index` drops the rest);
* the blob is smaller than a block: `probe` refuses more than `MAX_BLOB`, 1 MiB, and a block is 2
  MiB. It need not be mapped outside the guess by blocks, then, which could fall on the tables of
  the device window;
* devices lie outside the RAM the kernel maps, and none encloses the bootstrap window: `map_device`
  looks only at where a device begins and ends, and would map over it;
* devices may share pages (the transports of QEMU's `virt` do), but one of the size of a block may
  not: its block would replace a table and leak it, without a word from `map_block`.

The machines of `MCBoot` satisfy both, which the run `boot` evaluates.

Only model-checked: liveness (`TopLevelTakesTurns`, `HeartbeatContinues`, `ReaderFinishes`,
`RequestsComeBack`), since fairness and `ENABLED` are out of this prover's reach; and what
`DeviceTree` reads from a good tree (`MapIsWhatTheTreeSays`, `DevicesAreWhatTheTreeSays`), because
the reference is the recursive writer of `MCDeviceTree` and the proof would be an induction over
trees. Every other invariant and action property of a run that passes is also a theorem. The
invariant `MachineInv` of `InterruptsProofs` quantifies over all sets of code and cannot be
evaluated by TLC. The parts of `BootInv` other than `SoundNow`, which asks for a map of homes, were
checked by TLC on the instance of `boot` before they were proved.

## 5. Not modelled

The console's registers, semihosting, the reset vector (`boot.S`) and the build scripts have no
state the properties are about. The EL0 test programs are subsumed by tasks that
may do anything. Of the modelled parts: register contents and their layout at a
system call, stack contents and canaries, TLB maintenance and barriers, the
syndrome decoder and fault reports, and the bodies of the self tests except where
one is the only driver of a component (virtio).

## 6. What is left

The model is complete as far as section 5 allows, and so are the proofs of safety, but for one: what the
walker of `DeviceTree` finds in a tree written by `MCDeviceTree`, if the writer can be stated without
recursion. A proof of `NobodyWaitsOnTheGone` for kernel tasks has to wait until `task_finished` runs masked
(section 3).
