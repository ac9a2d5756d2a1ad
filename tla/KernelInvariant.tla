---------------------------- MODULE KernelInvariant ----------------------------
(***************************************************************************)
(* The inductive invariants of Kernel: Settled of every kernel, and IInv of *)
(* those whose spawned tasks all run at EL0, whose supervisor restarts only *)
(* stopped tasks and whose boot thread posts only to tasks that do not send *)
(* meanwhile.  IInv says, for every place a task can be resumed at, what    *)
(* the scheduler's table, the IPC table and the notification tables hold.   *)
(***************************************************************************)
EXTENDS Kernel

(* Program counters of the boot thread alone *)
Posting == {"posting", "waking", "asking"}

(* Nothing is left over in the tables from an earlier call of t. *)
NoTraces(t) ==
  /\ pending[t] = NoPending /\ outcome[t] = Zero /\ leaseCount[t] = 0
  /\ ~faultWaiters[t] /\ wanted[t] = {}

(* Not in a call: never run, at EL0 or, for the boot thread, in the kernel *)
OutsideCalls(t) ==
  pc[t] \in {"start", "run", "image"} \cup Posting =>
    /\ state[t] = "Runnable" /\ NoTraces(t)
    /\ space[t] = (t # KernelThread)
    /\ t = KernelThread => pc[t] # "start"
    /\ pc[t] = "image" => t = KernelThread /\ spawned \in Slots
    /\ pc[t] \in Posting => t = KernelThread

Stopped(t) ==
  pc[t] = "gone" =>
    state[t] \in {"None", "Zombie", "Dead", "Faulted"} /\ NoTraces(t)

(* In send: asleep with somebody to wait for, or awake with an outcome *)
InSend(t) ==
  pc[t] \in SendCall =>
    /\ space[t] /\ ~faultWaiters[t] /\ wanted[t] = {}
    /\ \/ /\ state[t] = "Blocked" /\ outcome[t] = Zero
          /\ pending[t].kind \in SendKinds
          /\ pending[t].target \in Slots \ {t}
          /\ state[pending[t].target] \in {"Runnable", "Blocked"}
       \/ /\ state[t] = "Runnable" /\ outcome[t].kind \in {"reply", "dead"}
          /\ pending[t] = NoPending /\ leaseCount[t] = 0

(* In recv: listening with nobody queued, or handed a message *)
InRecv(t) ==
  pc[t] = "recvPark" =>
    /\ space[t] /\ ~faultWaiters[t] /\ leaseCount[t] = 0
    /\ \/ /\ state[t] \in {"Runnable", "Blocked"} /\ outcome[t] = Zero
          /\ pending[t] = RecvWait /\ QueuedFor(t) = {}
          /\ state[t] = "Blocked" => posted[t] \cap wanted[t] \subseteq owed[t]
       \/ /\ state[t] = "Runnable" /\ outcome[t].kind = "message"
          /\ pending[t] = NoPending
          /\ outcome[t].from \in Slots /\ pending[outcome[t].from] = ReplyWait(t)

InFaultWait(t) ==
  pc[t] = "faultPark" =>
    /\ space[t] /\ faultWaiters[t] /\ wanted[t] = {} /\ leaseCount[t] = 0
    /\ pending[t] = NoPending /\ outcome[t] = Zero
    /\ state[t] \in {"Runnable", "Blocked"}
    /\ state[t] = "Blocked" => FaultedTasks = {}

(* No kernel task but the boot thread, so nobody is in a kernel task's code *)
UserTasksOnly(t) == pc[t] \notin {"finish", "blockPark"}

TaskConsistent(t) ==
  /\ OutsideCalls(t) /\ Stopped(t) /\ InSend(t) /\ InRecv(t)
  /\ InFaultWait(t) /\ UserTasksOnly(t)

(* Task 0 never leaves the run queue, so there is always a task to run. *)
BootThreadStays ==
  /\ state[KernelThread] = "Runnable" /\ ~space[KernelThread]
  /\ pc[KernelThread] \in {"run", "image"} \cup Posting
  /\ pc[KernelThread] = "image" => spawned \in Slots

(* Types, a boot thread that stays runnable, a CPU given to who may run *)
TypeInv == TypeOK /\ BootThreadStays /\ CurrentMayRun

(* One post at a time; once it has found a receiver, that task is not sending. *)
PostsAreOwed ==
  /\ \A t \in Slots : owed[t] # {} => BootPosts /\ pc[KernelThread] \in {"posting", "waking"}
  /\ \A t, u \in Slots : owed[t] # {} /\ owed[u] # {} => t = u
  /\ pc[KernelThread] = "waking" =>
       \A t \in Slots : owed[t] # {} => pc[t] \notin SendCall

IInv == TypeInv /\ PostsAreOwed /\ \A t \in Slots : TaskConsistent(t)

(***************************************************************************)
(* What every kernel keeps of a task, whatever it runs, restarts or posts:  *)
(* masks and fault waits last as long as the park that armed them, a task   *)
(* that has stopped is past its last call, only an EL0 task that has run    *)
(* has an entry or leases, and no posted bit is slept on.                   *)
(***************************************************************************)
Unarmed(t) ==
  /\ pc[t] # "recvPark" => wanted[t] = {}
  /\ pc[t] # "faultPark" => ~faultWaiters[t]

CodeOf(t) ==
  /\ state[t] \in {"None", "Zombie", "Dead", "Faulted"} => pc[t] \in {"gone", "finish"}
  /\ pc[t] \in SendCall \cup {"recvPark"} => space[t]
  /\ pc[t] \in {"finish", "blockPark"} => ~space[t]

NoEntry(t) ==
  ~space[t] \/ pc[t] \in {"start", "gone"} => pending[t] = NoPending /\ leaseCount[t] = 0

Answered(t) == state[t] = "Blocked" => posted[t] \cap wanted[t] \subseteq owed[t]

SettledTask(t) == Unarmed(t) /\ CodeOf(t) /\ NoEntry(t) /\ Answered(t)

Settled == \A t \in Slots : SettledTask(t)

(***************************************************************************)
(* Wherever the running task is, in a call or out of it, no task that has   *)
(* run outranks it, unless a switch is asked for, the boot thread is busy   *)
(* with something or a kernel task is on its way out.                       *)
(***************************************************************************)
CpuWellGiven ==
  ~needResched /\ current # KernelThread /\ pc[current] # "finish" =>
    \A t \in Slots : state[t] = "Runnable" /\ Outranks(t, current) => pc[t] = "start"

=============================================================================
