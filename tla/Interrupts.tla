------------------------------ MODULE Interrupts ------------------------------
(***************************************************************************)
(* The interrupt mask, the locks built on it (kernel/src/sync.rs) and the   *)
(* interrupt path (vectors.S, exceptions.rs, gic.rs) around the Timer.      *)
(*                                                                          *)
(* The mask is one bit of the CPU; the values it must be put back to live   *)
(* on the stacks of the tasks: in lock guards, in the locals of             *)
(* disable_interrupts and in the SPSR of trap frames.  todo[t] is the code  *)
(* task t has still to run, as far as it touches masks, locks, the          *)
(* interrupt controller and the CPU; an operation of the kernel is the set  *)
(* of paths through it.  Which task is chosen, and whether it may run, is   *)
(* left open here: Kernel has the rules.                                    *)
(***************************************************************************)
EXTENDS Timer, Sequences, FiniteSets

CONSTANTS
  KernelTasks,  \* the slots of the kernel tasks
  UserTasks     \* the slots of the EL0 tasks; 0 is the boot thread

ASSUME SlotAssumption ==
  0 \notin KernelTasks \cup UserTasks /\ KernelTasks \cap UserTasks = {}

Tasks == {0} \cup KernelTasks \cup UserTasks

VARIABLES
  masked,       \* PSTATE.I
  current,      \* Scheduler::current
  todo,         \* per task: the instructions ahead of it
  saved,        \* per task: the masks saved on its stack, with what saved them
  lineEnabled,  \* GICD_ISENABLER for the timer's line
  active,       \* the controller has the line active: acknowledged, not ended
  needResched   \* NEED_RESCHED

irqVars == <<masked, current, todo, saved, lineEnabled, active, needResched>>
vars == <<irqVars, timerVars>>

-----------------------------------------------------------------------------
(* Code is a sequence of instructions; a branch is an instruction that picks one. *)
Do(op) == <<[op |-> op]>>
OneOf(codes) == <<[op |-> "branch", codes |-> codes]>>
Opt(code) == OneOf({<<>>, code})

(* A statement that takes a lock and lets it go at its end *)
Touch(lock) == <<[op |-> "touch", lock |-> lock]>>

(* A block that holds a guard while it runs the code *)
Hold(lock, code) ==
  <<[op |-> "lock", lock |-> lock]>> \o code \o <<[op |-> "drop", lock |-> lock]>>

(* disable_interrupts, the code, restore_interrupts; also without_interrupts *)
Masked(code) == Do("disable") \o code \o Do("restore")

(* Locks are named after the static they are in. *)
ReapZombies == Opt(Touch("SCHEDULER") \o Touch("ALLOCATOR")) \o Touch("SCHEDULER")

(* Variant: the switch is made under the scheduler's lock. *)
SwitchUnderLock ==
  ReapZombies \o
    OneOf({Touch("SCHEDULER"),
           Hold("SCHEDULER", Touch("SWITCH_LOG") \o Opt(Touch("EMPTY_SPACE")) \o Do("switch"))})

(* switch_to_next: nobody better, or a switch once the guard is gone *)
SwitchToNext ==
  ReapZombies \o
    OneOf({Touch("SCHEDULER"),
           Hold("SCHEDULER", Touch("SWITCH_LOG")) \o Opt(Touch("EMPTY_SPACE")) \o Do("switch")})

YieldNow == Masked(SwitchToNext)

(* mark_current_blocked, unblock_deferred, current_id, space_root_of, priority_of *)
Lookup == Touch("SCHEDULER")
Park == Lookup \o Opt(SwitchToNext)
BlockCurrent == Masked(Lookup \o Park)
Unblock == Masked(Lookup \o Opt(SwitchToNext))

(* post, and the reschedule it asks for *)
Post == Touch("POSTED") \o Touch("WANTED") \o Opt(Lookup \o Do("resched"))

SpawnIn == Touch("ALLOCATOR") \o Lookup

(* ipc.rs *)
Deliver == Lookup \o Lookup
FinishSender == Touch("TABLE") \o Unblock
Send ==
  Lookup \o Masked(Touch("TABLE") \o
    OneOf({Deliver \o OneOf({Touch("TABLE"),
                             Lookup \o Touch("TABLE") \o Unblock \o Park \o Touch("TABLE")}),
           Touch("TABLE") \o Lookup \o Park \o Touch("TABLE")}))

BestSender == Hold("TABLE", Opt(Lookup))

(* recv: a turn of its loop may park and be woken, or fail a sender; one is enough *)
RecvPark == Touch("WANTED") \o Touch("TABLE") \o Lookup \o Park \o Touch("WANTED") \o Touch("TABLE")
Recv ==
  LET look == Touch("POSTED") \o BestSender
  IN  Lookup \o Masked(
        Opt(look \o OneOf({RecvPark, Touch("TABLE") \o Deliver \o FinishSender}))
          \o OneOf({Touch("POSTED"),
                    look \o OneOf({RecvPark, Touch("TABLE") \o Deliver \o Touch("TABLE")})}))

(* Variant: the match holds the guard, and the refusal restores under it. *)
ReplyGuardOutlivesRestore ==
  Lookup \o OneOf({Do("disable") \o Hold("TABLE", Do("restore")),
                   Masked(Touch("TABLE") \o Opt(Deliver \o Opt(FinishSender)))})

Reply == Lookup \o Masked(Touch("TABLE") \o Opt(Deliver \o Opt(FinishSender)))
Borrow == Lookup \o Masked(Touch("TABLE") \o Opt(Deliver))

Abandon == Touch("TABLE") \o Opt(Touch("TABLE") \o Lookup) \o Touch("TABLE")

WaitForFault ==
  Masked(Opt(Lookup \o Lookup \o Touch("FAULT_WAITERS") \o Lookup \o Park \o Touch("FAULT_WAITERS"))
           \o Lookup)
Restart == Abandon \o Lookup \o Opt(Touch("ALLOCATOR") \o Lookup)

(* exit_current, fault_current and task_finished, whose yield never returns *)
Leave ==
  Do("disable") \o ReapZombies \o Hold("SCHEDULER", Touch("SWITCH_LOG"))
    \o Opt(Touch("EMPTY_SPACE")) \o Do("switch") \o Do("gone")
TaskFinished == Lookup \o Abandon \o Leave
FaultCurrent == Lookup \o Touch("CONSOLE") \o Abandon \o Touch("FAULT_WAITERS") \o Opt(Lookup) \o Leave

(* What the boot thread calls in the self tests, and the kernel tasks in them *)
BootCalls ==
  {YieldNow, Unblock, Post, Reply, ReapZombies, SpawnIn, Masked(SpawnIn \o SpawnIn), Touch("CONSOLE")}
KernelTaskCalls == {YieldNow, BlockCurrent, Unblock, Touch("ORDER"), TaskFinished}

(* What EL0 reaches: dispatch, and the exceptions handle_exception passes on *)
Syscalls ==
  {YieldNow, Send, Recv, Reply, Borrow, WaitForFault, Restart, Touch("CONSOLE"), <<>>,
   TaskFinished, FaultCurrent}

(* Variant: the switch comes before the end of interrupt. *)
HandlerSwitchesFirst ==
  Touch("ROUTES") \o Opt(Post) \o Do("sample")
    \o Hold("TICKS", Do("rearm")) \o Do("resched") \o Do("preempt") \o Do("eoi")

(* dispatch_irq for the timer's line, after the acknowledge *)
Handler ==
  Touch("ROUTES") \o Opt(Post) \o Do("sample")
    \o Hold("TICKS", Do("rearm")) \o Do("resched") \o Do("eoi") \o Do("preempt")

(* kernel_main_high up to enable_interrupts: lock self test, controller, timer *)
Boot ==
  Masked(Do("enable") \o Hold("PROBE", Touch("OTHER")))
    \o Do("gicInit") \o Do("timerInit") \o Do("enable")

-----------------------------------------------------------------------------
Init ==
  /\ TimerInit
  /\ masked = TRUE /\ current = 0
  /\ todo = [t \in Tasks |-> CASE t = 0 -> Boot
                                [] t \in KernelTasks -> Do("trampoline")
                                [] t \in UserTasks -> Do("trampoline") \o Do("enterEl0")]
  /\ saved = [t \in Tasks |-> <<>>]
  /\ lineEnabled = FALSE /\ active = FALSE /\ needResched = FALSE

(* The instruction the CPU is at *)
At(op) == todo[current] # <<>> /\ Head(todo[current]).op = op
Arg == Head(todo[current]).lock
Continue == todo' = [todo EXCEPT ![current] = Tail(@)]

Save(by) == saved' = [saved EXCEPT ![current] = Append(@, [by |-> by, mask |-> masked])]

(* The mask the youngest save of that kind on this stack holds is put back. *)
Restore(by) ==
  LET stack == saved[current]
      k == CHOOSE k \in DOMAIN stack :
             /\ stack[k].by = by
             /\ \A j \in k + 1 .. Len(stack) : stack[j].by # by
  IN  /\ masked' = stack[k].mask
      /\ saved' = [saved EXCEPT ![current] = SubSeq(@, 1, k - 1) \o SubSeq(@, k + 1, Len(@))]

Branch ==
  /\ At("branch")
  /\ \E code \in Head(todo[current]).codes :
       todo' = [todo EXCEPT ![current] = code \o Tail(@)]
  /\ UNCHANGED <<masked, current, saved, lineEnabled, active, needResched, timerVars>>

(* disable_interrupts; Lock::lock *)
DisableInterrupts ==
  /\ At("disable") /\ Save("disable") /\ masked' = TRUE /\ Continue
  /\ UNCHANGED <<current, lineEnabled, active, needResched, timerVars>>

TakeLock ==
  /\ At("lock") /\ Save(Arg) /\ masked' = TRUE /\ Continue
  /\ UNCHANGED <<current, lineEnabled, active, needResched, timerVars>>

(* restore_interrupts; Drop for LockGuard; the return from an exception *)
RestoreInterrupts ==
  /\ \/ At("restore") /\ Restore("disable")
     \/ At("drop") /\ Restore(Arg)
     \/ At("eret") /\ Restore("trap")
  /\ Continue
  /\ UNCHANGED <<current, lineEnabled, active, needResched, timerVars>>

(* A whole locked statement, which nothing can come between *)
LockedStatement ==
  /\ At("touch") /\ Continue
  /\ UNCHANGED <<masked, current, saved, lineEnabled, active, needResched, timerVars>>

(* task_trampoline *)
Start ==
  /\ At("trampoline") /\ masked' = FALSE /\ Continue
  /\ UNCHANGED <<current, saved, lineEnabled, active, needResched, timerVars>>

(* enable_interrupts; enter_el0, with a clear SPSR *)
EnableInterrupts ==
  /\ At("enable") \/ At("enterEl0")
  /\ masked' = FALSE /\ Continue
  /\ UNCHANGED <<current, saved, lineEnabled, active, needResched, timerVars>>

(* switch, to another task that has not left for good, if there is one *)
Others == {t \in Tasks \ {current} : todo[t] = <<>> \/ Head(todo[t]).op # "gone"}
Switch ==
  /\ At("switch") /\ Continue
  /\ current' \in IF Others = {} THEN {current} ELSE Others
  /\ UNCHANGED <<masked, saved, lineEnabled, active, needResched, timerVars>>

(* gic::init, and gic::enable in timer::init *)
InitController ==
  /\ \/ At("gicInit") /\ lineEnabled' = FALSE
     \/ At("timerInit") /\ lineEnabled' = TRUE
  /\ active' = FALSE /\ Continue
  /\ UNCHANGED <<masked, current, saved, needResched, timerVars>>

RequestReschedule ==
  /\ At("resched") /\ needResched' = TRUE /\ Continue
  /\ UNCHANGED <<masked, current, saved, lineEnabled, active, timerVars>>

(* arm_next's sample, and the rest of on_tick *)
Sample == At("sample") /\ OnTick /\ Continue /\ UNCHANGED <<masked, current, saved, lineEnabled, active, needResched>>
Advance == At("rearm") /\ Rearm /\ Continue /\ UNCHANGED <<masked, current, saved, lineEnabled, active, needResched>>

EndOfInterrupt ==
  /\ At("eoi") /\ active' = FALSE /\ Continue
  /\ UNCHANGED <<masked, current, saved, lineEnabled, needResched, timerVars>>

PreemptIfNeeded ==
  /\ At("preempt") /\ needResched' = FALSE
  /\ todo' = [todo EXCEPT ![current] = (IF needResched THEN SwitchToNext ELSE <<>>) \o Tail(@)]
  /\ UNCHANGED <<masked, current, saved, lineEnabled, active, timerVars>>

(* The controller (external) signals nothing while a line of that priority is active. *)
Signalled == lineEnabled /\ ~active /\ count >= deadline

(* An IRQ between two instructions; vectors.S builds the frame. *)
TakeIrq ==
  /\ ~masked /\ Signalled
  /\ Save("trap") /\ masked' = TRUE
  /\ todo' = [todo EXCEPT ![current] = <<[op |-> "ack"], [op |-> "eret"]>> \o @]
  /\ UNCHANGED <<current, lineEnabled, active, needResched, timerVars>>

(* acknowledge, and what dispatch_irq does with the answer *)
Acknowledge ==
  /\ At("ack") /\ Signalled
  /\ active' = TRUE
  /\ todo' = [todo EXCEPT ![current] = Handler \o Tail(@)]
  /\ UNCHANGED <<masked, current, saved, lineEnabled, needResched, timerVars>>

(* The controller has withdrawn the interrupt: nothing to end *)
Spurious ==
  /\ At("ack") /\ Continue
  /\ UNCHANGED <<masked, current, saved, lineEnabled, active, needResched, timerVars>>

(* A kernel thread calls something, interrupts on. *)
Call ==
  /\ todo[current] = <<>> /\ current \notin UserTasks
  /\ \E code \in IF current = 0 THEN BootCalls ELSE KernelTaskCalls :
       todo' = [todo EXCEPT ![current] = code]
  /\ UNCHANGED <<masked, current, saved, lineEnabled, active, needResched, timerVars>>

(* EL0 traps, and its mask goes to SPSR. *)
Trap ==
  /\ todo[current] = <<>> /\ current \in UserTasks
  /\ \E code \in Syscalls : todo' = [todo EXCEPT ![current] = code \o Do("eret")]
  /\ Save("trap") /\ masked' = TRUE
  /\ UNCHANGED <<current, lineEnabled, active, needResched, timerVars>>

(* Time passes for the timer once it is set up. *)
Time == lineEnabled /\ Count /\ UNCHANGED irqVars

Execute ==
  \/ Branch \/ DisableInterrupts \/ TakeLock \/ RestoreInterrupts \/ LockedStatement
  \/ Start \/ EnableInterrupts \/ Switch \/ InitController
  \/ RequestReschedule \/ Sample \/ Advance \/ EndOfInterrupt \/ PreemptIfNeeded
  \/ Acknowledge \/ Spurious

Next == Execute \/ Call \/ Trap \/ TakeIrq \/ Time

(***************************************************************************)
(* The CPU runs on; it takes an interrupt that is signalled again and again *)
(* while it is unmasked; and the controller does not withdraw for ever.     *)
(***************************************************************************)
Spec ==
  /\ Init /\ [][Next]_vars
  /\ WF_vars(Execute) /\ SF_vars(TakeIrq) /\ SF_vars(Acknowledge)

-----------------------------------------------------------------------------
(* The boot thread has reached enable_interrupts and gone past it. *)
Live == \A k \in DOMAIN todo[0] : todo[0][k].op # "enable"

Fresh(t) == todo[t] # <<>> /\ Head(todo[t]).op = "trampoline"

(***************************************************************************)
(* The mask is put back exactly: the outermost save on every stack says     *)
(* interrupts were on and every inner one says they were off, and whoever   *)
(* has the CPU runs masked exactly while something on its own stack asks    *)
(* for it, whoever it got the CPU from.                                     *)
(***************************************************************************)
MaskFollowsTheStack ==
  Live =>
    /\ \A t \in Tasks : \A k \in DOMAIN saved[t] : saved[t][k].mask = (k > 1)
    /\ Fresh(current) \/ masked = (saved[current] # <<>>)

Locks(t) == {saved[t][k].by : k \in DOMAIN saved[t]} \ {"disable", "trap"}

(***************************************************************************)
(* A lock has no owner field: masking alone keeps it exclusive.  No task    *)
(* gives up the CPU with a guard alive, and no lock is asked for while a    *)
(* guard on it is alive, in any task, handlers included.                    *)
(***************************************************************************)
LocksExclusive ==
  /\ \A t \in Tasks \ {current} : Locks(t) = {}
  /\ At("lock") \/ At("touch") => Arg \notin Locks(current)

(***************************************************************************)
(* The heartbeat goes on: a deadline that has passed is eventually replaced *)
(* by one ahead, whatever the tasks call and whoever has the CPU.           *)
(***************************************************************************)
HeartbeatContinues == (lineEnabled /\ count >= deadline) ~> (count < deadline)

=============================================================================
