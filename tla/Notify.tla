-------------------------------- MODULE Notify --------------------------------
(***************************************************************************)
(* Notifications (kernel/src/notify.rs) and the interrupt path that posts   *)
(* them (dispatch_irq in exceptions.rs, on_tick in timer.rs).  A posted bit *)
(* is a member of a set; posting twice is posting once.                     *)
(***************************************************************************)
EXTENDS Scheduler, Sequences

CONSTANTS
  Bits,         \* notification bits
  TIMER_INTID,  \* the timer's interrupt line
  Devices,      \* the other lines
  MAX_ROUTES    \* entries of the routing table

ASSUME NotifyAssumption ==
  /\ MAX_ROUTES \in Nat
  /\ TIMER_INTID \notin Devices

IntIds == {TIMER_INTID} \cup Devices

VARIABLES
  routes,  \* ROUTES: a list of [intid, task, bits], never shortened
  posted,  \* [Slots -> SUBSET Bits]: POSTED
  wanted   \* [Slots -> SUBSET Bits]: WANTED, empty when not parked in recv

notifyVars == <<routes, posted, wanted>>

Routes == [intid : IntIds, task : Slots, bits : SUBSET Bits]

NotifyInit ==
  /\ routes = <<>>
  /\ posted = [s \in Slots |-> {}]
  /\ wanted = [s \in Slots |-> {}]

(* on_irq: the first entry of the table for this line, if there is one *)
Routed(i) == {k \in DOMAIN routes : routes[k].intid = i}
RouteOf(i) == routes[CHOOSE k \in Routed(i) : \A j \in Routed(i) : k <= j]

(* Variant: post overwrites the bits already there. *)
PostedAfresh(s, bits) == [posted EXCEPT ![s] = bits]

(* Variant: post sets the bits and wakes nobody. *)
StateAfterSilentPost(s, bits) == state

(* post: set the bits; wake the task if it is parked for one of them.  In   *)
(* the interrupt path, where interrupts are masked, that is one step.       *)
PostedTo(s, bits) == [posted EXCEPT ![s] = @ \cup bits]
WakesOn(s, bits) == wanted[s] \cap bits # {}
StateAfterPost(s, bits) == IF WakesOn(s, bits) THEN Woken(state, {s}) ELSE state

(***************************************************************************)
(* post called by the kernel thread, with interrupts on, section by         *)
(* section: set the bits (POSTED's lock), look whether the task wants them  *)
(* (WANTED's lock, given up before the body of the if), wake it whatever it *)
(* is blocked on by then (the scheduler's lock), ask for a reschedule.      *)
(* Others may run between any two.  Never a switch, only a request for one. *)
(***************************************************************************)
PostBits(s, bits) ==
  /\ InKernelThread(KernelThread)
  /\ posted' = PostedTo(s, bits)
  /\ GoTo(KernelThread, "posting")
  /\ UNCHANGED <<state, priority, space, image, current, needResched, routes, wanted>>

PostLook(s, bits) ==
  /\ current = KernelThread /\ pc[KernelThread] = "posting"
  /\ GoTo(KernelThread, IF WakesOn(s, bits) THEN "waking" ELSE "run")
  /\ UNCHANGED <<state, priority, space, image, current, needResched, notifyVars>>

PostWake(s) ==
  /\ current = KernelThread /\ pc[KernelThread] = "waking"
  /\ state' = Woken(state, {s})
  /\ GoTo(KernelThread, "asking")
  /\ UNCHANGED <<priority, space, image, current, needResched, notifyVars>>

PostAsk ==
  /\ current = KernelThread /\ pc[KernelThread] = "asking"
  /\ needResched' = TRUE
  /\ GoTo(KernelThread, "run")
  /\ UNCHANGED <<state, priority, space, image, current, notifyVars>>

(* route, called by the kernel thread *)
Route(i, s, bits) ==
  /\ InKernelThread(KernelThread)
  /\ Len(routes) < MAX_ROUTES
  /\ routes' = Append(routes, [intid |-> i, task |-> s, bits |-> bits])
  /\ UNCHANGED <<schedVars, posted, wanted>>

(***************************************************************************)
(* dispatch_irq: tell the owner of the line, let the timer ask for a        *)
(* reschedule, end the interrupt, and only then switch if anybody asked     *)
(* (preempt_if_needed clears the request).  A spurious interrupt returns at *)
(* once and changes nothing.                                                *)
(***************************************************************************)
Irq(i) ==
  LET routed  == Routed(i) # {}
      r       == RouteOf(i)
      st      == IF routed THEN StateAfterPost(r.task, r.bits) ELSE state
      resched == \/ needResched
                 \/ routed /\ WakesOn(r.task, r.bits)
                 \/ i = TIMER_INTID
  IN  /\ InterruptsOn
      /\ posted' = IF routed THEN PostedTo(r.task, r.bits) ELSE posted
      /\ IF resched THEN SwitchToNext(st) ELSE StayOn(st)
      /\ needResched' = FALSE
      /\ UNCHANGED <<priority, image, pc, routes, wanted>>

=============================================================================
