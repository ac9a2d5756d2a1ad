--------------------------------- MODULE Timer ---------------------------------
(***************************************************************************)
(* The heartbeat (kernel/src/timer.rs): a free running counter, an absolute *)
(* deadline at which the timer raises its interrupt, and a handler that     *)
(* advances the deadline from the previous one.  The handler may be kept    *)
(* waiting by masked interrupts for any time, and the counter keeps running *)
(* while it works.                                                          *)
(***************************************************************************)
EXTENDS Integers

CONSTANTS
  INTERVAL,   \* counter ticks between interrupts
  MAX_COUNT   \* bound: how far the counter runs

ASSUME TimerAssumption == INTERVAL \in Nat \ {0} /\ MAX_COUNT \in Nat

VARIABLES
  count,     \* CNTPCT_EL0
  deadline,  \* CNTP_CVAL_EL0
  ticks,     \* TICKS
  next,      \* what arm_next is about to write, or 0 outside the handler
  behind     \* history: the handler has been a whole interval late

timerVars == <<count, deadline, ticks, next, behind>>

(* arm_first, with the counter at 0 *)
FirstDeadline == INTERVAL

(* init *)
TimerInit ==
  /\ count = 0
  /\ deadline = FirstDeadline
  /\ ticks = 0
  /\ next = 0
  /\ behind = FALSE

(* The counter (external) never stops. *)
Count ==
  /\ count < MAX_COUNT
  /\ count' = count + 1
  /\ UNCHANGED <<deadline, ticks, next, behind>>

(* Variant: the interval is counted from now. *)
DeadlineFromNow == count + INTERVAL

(* Variant: missed deadlines are walked through one at a time. *)
DeadlineUnskipped == deadline + INTERVAL

(* arm_next: one interval past the previous deadline, unless that is past too *)
NextDeadline ==
  IF deadline + INTERVAL <= count THEN count + INTERVAL ELSE deadline + INTERVAL

(* on_tick up to the sample of the counter in arm_next; the interrupt is level. *)
OnTick ==
  /\ next = 0 /\ count >= deadline
  /\ next' = NextDeadline
  /\ behind' = (behind \/ count - deadline >= INTERVAL)
  /\ UNCHANGED <<count, deadline, ticks>>

(* The rest of it: set_deadline, and one more tick *)
Rearm ==
  /\ next > 0
  /\ deadline' = next
  /\ ticks' = ticks + 1
  /\ next' = 0
  /\ UNCHANGED <<count, behind>>

TimerNext == Count \/ OnTick \/ Rearm

TimerSpec == TimerInit /\ [][TimerNext]_timerVars

-----------------------------------------------------------------------------
TimerTypeOK ==
  /\ count \in Nat /\ deadline \in Nat /\ ticks \in Nat /\ next \in Nat
  /\ behind \in BOOLEAN

(***************************************************************************)
(* Re-arming from the previous deadline: as long as the handler is never a  *)
(* whole interval late, its latency does not accumulate, and the n-th tick  *)
(* is due exactly n intervals after the start.                              *)
(***************************************************************************)
LatencyDoesNotAccumulate ==
  ~behind => deadline = (ticks + 1) * INTERVAL

(* The heartbeat never runs fast: ticks never outnumber elapsed intervals. *)
NeverFast == ticks * INTERVAL <= count

(***************************************************************************)
(* "Skip the missed ticks instead": however far behind it fell, the handler *)
(* asks for a moment that lies ahead of its sample of the counter, and no   *)
(* further than an interval.                                                *)
(***************************************************************************)
SkipsMissedTicks ==
  [][next = 0 /\ next' > 0 => next' > count /\ next' <= count + INTERVAL]_timerVars

=============================================================================
