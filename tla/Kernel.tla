-------------------------------- MODULE Kernel --------------------------------
(***************************************************************************)
(* The running kernel: the scheduler, IPC, notifications and supervision    *)
(* over one task table, driven by EL0 tasks that may make any system call,  *)
(* fault or exit at any moment, by the boot thread and by interrupts.       *)
(***************************************************************************)
EXTENDS Supervision

CONSTANTS
  Kinds,         \* what the boot thread spawns: a subset of {"user", "kernel"}
  MaxSpawns,     \* bound: tasks spawned over the whole behaviour
  MaxFaults,     \* bound: faults taken over the whole behaviour
  HasSupervisor, \* whether the boot thread appoints a supervisor
  BootPosts,     \* whether the boot thread posts notifications itself
  PostsOnlyToReceivers  \* TRUE: a task sends nothing while the boot thread posts to it

ASSUME KernelAssumption ==
  /\ Kinds \subseteq {"user", "kernel"}
  /\ MaxSpawns \in Nat /\ MaxFaults \in Nat
  /\ HasSupervisor \in BOOLEAN /\ BootPosts \in BOOLEAN
  /\ PostsOnlyToReceivers \in BOOLEAN

VARIABLES
  owed,     \* [Slots -> SUBSET Bits]: the boot thread's post in progress, until
            \* it has woken its task or found that there is nobody to wake
  spawned,  \* the task whose image is still to be recorded, or NoTask
  spawns,   \* tasks spawned so far
  faults    \* faults taken so far

bootVars == <<owed, spawned, spawns, faults>>
vars == <<schedVars, notifyVars, ipcVars, superVars, bootVars>>

Init ==
  /\ SchedInit /\ NotifyInit /\ IpcInit /\ SuperInit
  /\ owed = [s \in Slots |-> {}]
  /\ spawned = NoTask /\ spawns = 0 /\ faults = 0

-----------------------------------------------------------------------------
(* What a task does at EL0 and when it is resumed inside a system call *)
Syscall(t) ==
  /\ \/ /\ PostsOnlyToReceivers => owed[t] = {}
        /\ \E u \in Slots, n \in 0 .. MaxLeases : SendToReceiver(t, u, n) \/ SendAndQueue(t, u, n)
     \/ \E mask \in SUBSET Bits : Recv(t, mask)
     \/ \E s \in Slots : Reply(t, s)
  /\ UNCHANGED <<superVars, bootVars>>

Resume(t) ==
  \/ Start(t) /\ UNCHANGED <<notifyVars, ipcVars, superVars, bootVars>>
  \/ (SendWoke(t) \/ SendReturn(t) \/ RecvReturn(t) \/ RecvAgain(t))
     /\ UNCHANGED <<superVars, bootVars>>
  \/ FaultWoke(t) /\ UNCHANGED bootVars
  \/ BlockReturn(t) /\ UNCHANGED <<notifyVars, ipcVars, superVars, bootVars>>

Exit(t) == ExitCurrent(t) /\ UNCHANGED bootVars

Fault(t) ==
  /\ faults < MaxFaults
  /\ FaultCurrent(t)
  /\ faults' = faults + 1
  /\ UNCHANGED <<owed, spawned, spawns>>

Supervise(t) ==
  /\ FaultWait(t) \/ \E s \in Slots : Restart(t, s)
  /\ UNCHANGED bootVars

Yield(t) == YieldNow(t) /\ UNCHANGED <<notifyVars, ipcVars, superVars, bootVars>>

(* What a kernel task does *)
KernelTask(t) ==
  \/ /\ BlockCurrent(t) \/ \E s \in Slots : Unblock(t, s)
     /\ UNCHANGED <<notifyVars, ipcVars, superVars, bootVars>>
  \/ /\ TaskFinished(t) \/ FinishLook(t) \/ FinishWake(t) \/ FinishLeave(t)
     /\ UNCHANGED bootVars

-----------------------------------------------------------------------------
(* What the boot thread does: start tasks, clear up after them, post, appoint *)
Spawn(p, kind) ==
  /\ spawns < MaxSpawns
  /\ SpawnIn(p, kind = "user")
  /\ spawns' = spawns + 1
  /\ spawned' = IF kind = "user" THEN FreeSlot ELSE NoTask
  /\ UNCHANGED <<notifyVars, ipcVars, superVars, owed, faults>>

SpawnDone ==
  /\ RecordImage(spawned)
  /\ spawned' = NoTask
  /\ UNCHANGED <<notifyVars, ipcVars, superVars, owed, spawns, faults>>

CleanUp ==
  /\ ReapZombies \/ ReleaseDead \/ \E s \in Slots : Kill(s)
  /\ UNCHANGED <<notifyVars, ipcVars, superVars, bootVars>>

BootPost ==
  /\ BootPosts
  /\ \E s \in Slots, b \in Bits :
       /\ state[s] # "None" /\ s # KernelThread  \* posts go to tasks the thread has spawned
       /\ PostBits(s, {b})
       /\ owed' = [owed EXCEPT ![s] = @ \cup {b}]
  /\ UNCHANGED <<ipcVars, superVars, spawned, spawns, faults>>

BootPostLook ==
  \E s \in Slots :
    /\ owed[s] # {} /\ PostLook(s, owed[s])
    /\ owed' = IF WakesOn(s, owed[s]) THEN owed ELSE [owed EXCEPT ![s] = {}]
    /\ UNCHANGED <<ipcVars, superVars, spawned, spawns, faults>>

BootPostWake ==
  \E s \in Slots :
    /\ owed[s] # {} /\ PostWake(s)
    /\ owed' = [owed EXCEPT ![s] = {}]
    /\ UNCHANGED <<ipcVars, superVars, spawned, spawns, faults>>

BootPostAsk == PostAsk /\ UNCHANGED <<ipcVars, superVars, bootVars>>

BootRoute ==
  \E i \in IntIds, s \in Slots, b \in Bits :
    /\ IsAlive(s) /\ space[s]      \* routes are set up for a driver just spawned
    /\ Route(i, s, {b}) /\ UNCHANGED <<ipcVars, superVars, bootVars>>

Appoint ==
  /\ HasSupervisor
  /\ \E s \in Slots : space[s] /\ SetSupervisor(s)
  /\ UNCHANGED bootVars

Interrupt(i) == Irq(i) /\ UNCHANGED <<ipcVars, superVars, bootVars>>

Next ==
  \/ \E t \in Slots : Syscall(t) \/ Resume(t) \/ Exit(t) \/ Fault(t)
                      \/ Supervise(t) \/ Yield(t) \/ KernelTask(t)
  \/ \E p \in Priorities, k \in Kinds : Spawn(p, k)
  \/ SpawnDone \/ CleanUp \/ BootRoute \/ Appoint
  \/ BootPost \/ BootPostLook \/ BootPostWake \/ BootPostAsk
  \/ \E i \in IntIds : Interrupt(i)

Spec == Init /\ [][Next]_vars

-----------------------------------------------------------------------------
(***************************************************************************)
(* Every table holds what its type says, whatever the tasks do: no lease    *)
(* count, cursor or slot number leaves its range.                           *)
(***************************************************************************)
TypeOK ==
  /\ state \in [Slots -> States]
  /\ priority \in [Slots -> Priorities \cup {IDLE}]
  /\ space \in [Slots -> BOOLEAN]
  /\ image \in [Slots -> BOOLEAN]
  /\ pc \in [Slots -> Points]
  /\ current \in Slots
  /\ needResched \in BOOLEAN
  /\ routes \in Seq(Routes)
  /\ posted \in [Slots -> SUBSET Bits]
  /\ wanted \in [Slots -> SUBSET Bits]
  /\ pending \in [Slots -> Pendings]
  /\ outcome \in [Slots -> Outcomes]
  /\ leaseCount \in [Slots -> 0 .. MaxLeases]
  /\ supervisor \in Slots \cup {NoTask}
  /\ faultWaiters \in [Slots -> BOOLEAN]
  /\ cursor \in 0 .. 2 * MAX_TASKS
  /\ owed \in [Slots -> SUBSET Bits]
  /\ spawned \in Slots \cup {NoTask}
  /\ spawns \in Nat
  /\ faults \in Nat

SendCall == {"sendWake", "sendPark"}
SendKinds == {"SendWait", "ReplyWait"}

(***************************************************************************)
(* The task on the CPU is runnable, or is a finished kernel task still      *)
(* settling its affairs: next_runnable never resumes a task that asked not  *)
(* to run, and no handler gives the CPU away to one.                        *)
(***************************************************************************)
CurrentMayRun ==
  \/ state[current] = "Runnable"
  \/ state[current] = "Zombie" /\ pc[current] = "finish"

(***************************************************************************)
(* Buffers are checked when send and recv are entered and used later        *)
(* without a second look, and a lease is checked only at send.  That is     *)
(* sound because whoever has a pending entry is off the CPU inside that     *)
(* very call with its address space in place, blocked if it is sending, and *)
(* because a lease never outlives the send that carried it.                 *)
(***************************************************************************)
BuffersHeld ==
  \A t \in Slots :
    /\ pending[t].kind \in SendKinds =>
         pc[t] \in SendCall /\ state[t] = "Blocked" /\ space[t]
    /\ pending[t].kind = "RecvWait" => pc[t] = "recvPark" /\ IsAlive(t) /\ space[t]
    /\ leaseCount[t] > 0 => pending[t].kind \in SendKinds

(***************************************************************************)
(* A blocked task always has an entry somebody else will act on: the mark,  *)
(* wake and park of send, recv and wait_for_fault lose no wakeup, and a     *)
(* receiver is never asleep while a sender is queued for it.                *)
(***************************************************************************)
SleeperCanBeWoken ==
  \A t \in Slots : state[t] = "Blocked" =>
    \/ pc[t] \in SendCall /\ pending[t].kind \in SendKinds
    \/ pc[t] = "recvPark" /\ pending[t] = RecvWait /\ QueuedFor(t) = {}
    \/ pc[t] = "faultPark" /\ faultWaiters[t]
    \/ pc[t] = "blockPark"

(***************************************************************************)
(* post racing recv: no task sleeps in recv with a bit it asked for already *)
(* posted, unless that very post is still under way: about to look who is   *)
(* to be woken, or about to wake the task it found.                         *)
(***************************************************************************)
NoMissedNotification ==
  \A t \in Slots : state[t] = "Blocked" => posted[t] \cap wanted[t] \subseteq owed[t]

(***************************************************************************)
(* fault_current racing wait_for_fault: the supervisor never sleeps while a *)
(* faulted task sits in the table.                                          *)
(***************************************************************************)
NoMissedFault ==
  \A t \in Slots : state[t] = "Blocked" /\ pc[t] = "faultPark" => FaultedTasks = {}

(***************************************************************************)
(* abandon: nobody waits on a task that has stopped, unless that task is on *)
(* the CPU and still releasing its senders.                                 *)
(***************************************************************************)
NobodyWaitsOnTheGone ==
  \A t \in Slots : pending[t].kind \in SendKinds =>
    IsAlive(pending[t].target) \/ Finishing(pending[t].target)

(***************************************************************************)
(* A task resumed inside send finds an answer or EDEAD, never the zeros of  *)
(* an empty outcome nor a message; one resumed in recv with its entry       *)
(* cleared finds a message whose sender is waiting for its reply.  Nobody   *)
(* else has an outcome, not even a task in a reused or restarted slot,      *)
(* though abandon leaves that of the task that is going.                    *)
(***************************************************************************)
OutcomeMatchesCall ==
  \A t \in Slots :
    /\ state[t] = "Runnable" /\ pc[t] \in SendCall => outcome[t].kind \in {"reply", "dead"}
    /\ state[t] = "Runnable" /\ pc[t] = "recvPark" /\ pending[t].kind = "None" =>
         outcome[t].kind = "message" /\ pending[outcome[t].from] = ReplyWait(t)
    /\ pc[t] \notin SendCall \cup {"recvPark"} => outcome[t] = Zero

(***************************************************************************)
(* While a task other than idle runs outside the kernel and no reschedule   *)
(* is pending, no task that has ever run and is runnable outranks it:       *)
(* unblock hands over at once.  (A task just spawned or restarted waits for *)
(* the next scheduling point; spawn and restart ask for none.)              *)
(***************************************************************************)
BestTaskRuns ==
  pc[current] = "run" /\ ~needResched /\ current # KernelThread =>
    \A t \in Slots : state[t] = "Runnable" /\ Outranks(t, current) => pc[t] = "start"

(***************************************************************************)
(* A task that has not run yet, in a reused slot or restarted after a       *)
(* fault, inherits no message, lease, fault wait or armed mask from whoever *)
(* had the slot before, though abandon, recv and wait_for_fault each clear  *)
(* only their own and a late wake of post can have ended a call early.      *)
(***************************************************************************)
FreshInstanceIsClean ==
  \A t \in Slots : pc[t] = "start" =>
    /\ pending[t] = NoPending /\ leaseCount[t] = 0
    /\ ~faultWaiters[t] /\ wanted[t] = {}

(***************************************************************************)
(* A written outcome reaches its reader: deliver_outcome clears pending, so *)
(* the EDEAD of a replier that exits afterwards cannot overwrite the reply. *)
(***************************************************************************)
UnreadOutcomeKept ==
  [][\A t \in Slots : outcome[t] # Zero => outcome'[t] \in {outcome[t], Zero}]_vars

(***************************************************************************)
(* Posted bits are taken only by their own task, in recv: neither another   *)
(* post nor an interrupt nor another task's call loses one.                 *)
(***************************************************************************)
PostedBitsKept ==
  [][\A t \in Slots : posted[t] \ posted'[t] # {} =>
       current = t /\ pc[t] \in {"run", "recvPark"} /\ pc'[t] = "run"]_vars

(***************************************************************************)
(* reap_zombies never releases the stack of the task whose stack the        *)
(* reaping runs on.                                                         *)
(***************************************************************************)
NoStackFreedUnderfoot ==
  [][\A t \in Slots : state[t] # "Dead" /\ state'[t] = "Dead" => t # current]_vars

-----------------------------------------------------------------------------
(***************************************************************************)
(* Message passing implements Rendezvous: what a task's call has come to is *)
(* read off its pending entry, and off its outcome once that is cleared.    *)
(***************************************************************************)
CallOf(t) ==
  CASE pending[t].kind = "SendWait"  -> [stage |-> "queued", peer |-> pending[t].target]
    [] pending[t].kind = "ReplyWait" -> [stage |-> "accepted", peer |-> pending[t].target]
    [] pc[t] \in SendCall /\ pending[t].kind = "None" ->
         [stage |-> IF outcome[t].kind = "reply" THEN "answered" ELSE "failed",
          peer |-> outcome[t].from]
    [] OTHER -> [stage |-> "idle", peer |-> "nobody"]

Abstract == INSTANCE Rendezvous WITH
  Tasks <- Slots,
  alive <- {t \in Slots : IsAlive(t)},
  call  <- [t \in Slots |-> CallOf(t)]

(* send, recv, reply and abandon keep the promise of Rendezvous. *)
CallsKeepTheirPromise == Abstract!Spec

-----------------------------------------------------------------------------
(***************************************************************************)
(* The CPU keeps executing the kernel code of the task it is on, and the    *)
(* timer, once due, stays pending until interrupts are unmasked.            *)
(***************************************************************************)
FairSpec ==
  /\ Spec
  /\ \A t \in Slots : WF_vars(Resume(t))
  /\ SF_vars(Interrupt(TIMER_INTID))

(***************************************************************************)
(* Round robin at the top: a task that stays runnable, with nobody runnable *)
(* above it, keeps getting the CPU however its peers block, yield or wake.  *)
(***************************************************************************)
TopLevelTakesTurns ==
  \A t \in Slots :
    <>[](state[t] = "Runnable" /\ \A u \in Slots : state[u] = "Runnable" => ~Outranks(u, t))
      => []<>(current = t)

(***************************************************************************)
(* "Among equals the one that has waited longest" (next_runnable): a task   *)
(* that stays runnable runs again and again if a peer of the same priority  *)
(* does.                                                                    *)
(***************************************************************************)
PeersTakeTurns ==
  \A t, u \in Slots :
    (/\ <>[](state[t] = "Runnable" /\ priority[t] = priority[u])
     /\ []<>(current = u))
      => []<>(current = t)

-----------------------------------------------------------------------------
(***************************************************************************)
(* clear: "Forget everything about a task, for a slot that is being         *)
(* reused."  A task that starts afresh has no notification posted to an     *)
(* earlier one.                                                             *)
(***************************************************************************)
FreshInstanceHasNoBits ==
  [][\A t \in Slots : pc[t] # "start" /\ pc'[t] = "start" => posted'[t] = {}]_vars

=============================================================================
