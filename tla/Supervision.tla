----------------------------- MODULE Supervision -----------------------------
(***************************************************************************)
(* How tasks end and come back (kernel/src/tasks.rs, syscall.rs): exit,     *)
(* fault, the end of a kernel task, the supervisor's fault_wait and restart.*)
(***************************************************************************)
EXTENDS Ipc

CONSTANT
  RestartsOnlyStopped   \* TRUE: the supervisor never asks to restart a live task

ASSUME SupervisionAssumption == RestartsOnlyStopped \in BOOLEAN

VARIABLES
  supervisor,    \* SUPERVISOR: a slot, or NoTask
  faultWaiters,  \* [Slots -> BOOLEAN]: FAULT_WAITERS
  cursor         \* how far the abandon of the kernel task on the CPU has got

superVars == <<supervisor, faultWaiters, cursor>>

SuperInit ==
  /\ supervisor = NoTask
  /\ faultWaiters = [s \in Slots |-> FALSE]
  /\ cursor = 0

(* first_faulted answers unless this is empty. *)
FaultedTasks == {s \in Slots : state[s] = "Faulted"}

(* exit_current: mark, release the senders without switching, leave for good *)
ExitCurrent(t) ==
  /\ InUser(t)
  /\ Abandon(t)
  /\ SwitchToNext(StateAfterAbandon([state EXCEPT ![t] = "Zombie"], t))
  /\ GoTo(t, "gone")
  /\ UNCHANGED <<priority, image, needResched, notifyVars, superVars>>

(* Variant: the first task woken takes the CPU, so the supervisor never hears. *)
FaultHandsOverEarly(t) ==
  /\ InUser(t)
  /\ Abandon(t)
  /\ LET released == StateAfterAbandon([state EXCEPT ![t] = "Faulted"], t)
     IN  SwitchToNext(IF WaitingOn(t) # {} THEN released
                      ELSE Woken(released, {s \in Slots : faultWaiters[s]}))
  /\ GoTo(t, "gone")
  /\ UNCHANGED <<priority, image, needResched, notifyVars, superVars>>

(* fault_current: as exit, and wake_fault_waiters before leaving *)
FaultCurrent(t) ==
  LET released == StateAfterAbandon([state EXCEPT ![t] = "Faulted"], t)
      told     == Woken(released, {s \in Slots : faultWaiters[s]})
  IN  /\ InUser(t)
      /\ Abandon(t)
      /\ SwitchToNext(told)
      /\ GoTo(t, "gone")
      /\ UNCHANGED <<priority, image, needResched, notifyVars, superVars>>

-----------------------------------------------------------------------------
(* set_supervisor, called by the kernel thread *)
SetSupervisor(s) ==
  /\ InKernelThread(KernelThread)
  /\ s # KernelThread /\ IsAlive(s)
  /\ supervisor' = s
  /\ UNCHANGED <<schedVars, notifyVars, ipcVars, faultWaiters, cursor>>

(***************************************************************************)
(* wait_for_fault: flag, mark and park while nobody is faulted.  With a     *)
(* faulted task in the table the call returns its number and changes        *)
(* nothing.                                                                 *)
(***************************************************************************)
ParkForFault(t) ==
  /\ faultWaiters' = [faultWaiters EXCEPT ![t] = TRUE]
  /\ SwitchToNext(Marked(state, t))
  /\ GoTo(t, "faultPark")

FaultWait(t) ==
  /\ InUser(t) /\ supervisor = t
  /\ FaultedTasks = {}
  /\ ParkForFault(t)
  /\ UNCHANGED <<priority, image, needResched, notifyVars, ipcVars, supervisor, cursor>>

FaultWoke(t) ==
  /\ current = t /\ pc[t] = "faultPark"
  /\ IF FaultedTasks = {}
     THEN ParkForFault(t)
     ELSE /\ faultWaiters' = [faultWaiters EXCEPT ![t] = FALSE]
          /\ StayOn(state)
          /\ GoTo(t, "run")
  /\ UNCHANGED <<priority, image, needResched, notifyVars, ipcVars, supervisor, cursor>>

(***************************************************************************)
(* restart: abandon comes first, before the task is known to be faulted.    *)
(* The old address space is replaced by a new one and the kernel stack is   *)
(* wound back to a never-run frame; nobody is asked to reschedule.          *)
(***************************************************************************)
Restart(t, s) ==
  LET st   == StateAfterAbandon(state, s)
      back == st[s] = "Faulted" /\ image[s]
  IN  /\ InUser(t) /\ supervisor = t
      /\ RestartsOnlyStopped => ~IsAlive(s)
      /\ Abandon(s)
      /\ state' = IF back THEN [st EXCEPT ![s] = "Runnable"] ELSE st
      /\ space' = IF back THEN [space EXCEPT ![s] = TRUE] ELSE space
      /\ pc' = IF back THEN [pc EXCEPT ![s] = "start"] ELSE pc
      /\ UNCHANGED <<priority, image, current, needResched, notifyVars, superVars>>

-----------------------------------------------------------------------------
(***************************************************************************)
(* task_finished: the end of a kernel task, with interrupts on.  It marks   *)
(* itself a zombie and walks the table in abandon, one locked section at a  *)
(* time; an interrupt that switches away in the middle is never resumed.    *)
(* cursor is twice the slot, plus one once that slot's outcome is written.  *)
(***************************************************************************)
TaskFinished(t) ==
  /\ InKernelThread(t) /\ t # KernelThread
  /\ state' = [state EXCEPT ![t] = "Zombie"]
  /\ GoTo(t, "finish")
  /\ cursor' = 0
  /\ UNCHANGED <<priority, space, image, current, needResched, notifyVars, ipcVars,
                 supervisor, faultWaiters>>

Finishing(t) == current = t /\ pc[t] = "finish"

FinishLook(t) ==
  LET slot == cursor \div 2
  IN  /\ Finishing(t) /\ cursor < 2 * MAX_TASKS /\ cursor % 2 = 0
      /\ IF slot \in WaitingOn(t)
         THEN DeliverOutcome(slot, Dead(t)) /\ cursor' = cursor + 1
         ELSE UNCHANGED ipcVars /\ cursor' = cursor + 2
      /\ UNCHANGED <<schedVars, notifyVars, supervisor, faultWaiters>>

FinishWake(t) ==
  /\ Finishing(t) /\ cursor % 2 = 1
  /\ state' = Woken(state, {cursor \div 2})
  /\ cursor' = cursor + 1
  /\ UNCHANGED <<priority, space, image, pc, current, needResched, notifyVars, ipcVars,
                 supervisor, faultWaiters>>

(* The last section of abandon, and the yield that never returns *)
FinishLeave(t) ==
  /\ Finishing(t) /\ cursor = 2 * MAX_TASKS
  /\ pending' = [pending EXCEPT ![t] = NoPending]
  /\ leaseCount' = [leaseCount EXCEPT ![t] = 0]
  /\ SwitchToNext(state)
  /\ GoTo(t, "gone")
  /\ UNCHANGED <<priority, image, needResched, notifyVars, outcome, superVars>>

=============================================================================
