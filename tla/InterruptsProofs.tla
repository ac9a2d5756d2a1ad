---------------------------- MODULE InterruptsProofs ----------------------------
(***************************************************************************)
(* The heartbeat neither drifts nor runs fast, for every interval and       *)
(* however late the handler is; the interrupt path drives the timer only    *)
(* through its handler, so that holds of the machine as a whole.  And masks *)
(* are put back, and locks kept exclusive, for any number of tasks.         *)
(***************************************************************************)
EXTENDS Interrupts, SequenceTheorems, TLAPS

-----------------------------------------------------------------------------
(* The timer on its own *)

(***************************************************************************)
(* The n-th deadline is never before n intervals have passed, and is there  *)
(* exactly while the handler has kept up; what the handler is about to      *)
(* write is at least an interval past the deadline that has just gone by.   *)
(***************************************************************************)
TimerInv ==
  /\ TimerTypeOK
  /\ (ticks + 1) * INTERVAL <= deadline
  /\ ~behind => deadline = (ticks + 1) * INTERVAL
  /\ next > 0 => /\ deadline <= count
                 /\ next >= deadline + INTERVAL
                 /\ ~behind => next = deadline + INTERVAL
  /\ ticks * INTERVAL <= count

(* One more interval in a multiple of it *)
LEMMA OneMore ==
  ASSUME NEW n \in Nat
  PROVE  /\ (n + 1) * INTERVAL = n * INTERVAL + INTERVAL
         /\ n * INTERVAL \in Nat
BY TimerAssumption

(* The inductive invariant holds when the timer is started. *)
LEMMA TimerInvInit == TimerInit => TimerInv
<1>1. 0 * INTERVAL = 0 /\ (0 + 1) * INTERVAL = INTERVAL
  BY TimerAssumption
<1> SUFFICES ASSUME TimerInit PROVE TimerInv
  OBVIOUS
<1>2. TimerTypeOK
  <2>1. behind \in BOOLEAN
    BY Zenon DEF TimerInit
  <2> QED BY <2>1, TimerAssumption DEF TimerInit, TimerTypeOK, FirstDeadline
<1>3. /\ count = 0 /\ deadline = INTERVAL /\ ticks = 0 /\ next = 0
  BY DEF TimerInit, FirstDeadline
<1> QED BY <1>1, <1>2, <1>3, TimerAssumption DEF TimerInv

(* Every step keeps it. *)
LEMMA TimerInvStep == TimerInv /\ [TimerNext]_timerVars => TimerInv'
<1> SUFFICES ASSUME TimerInv, [TimerNext]_timerVars PROVE TimerInv'
  OBVIOUS
<1> USE TimerAssumption
<1>1. (ticks + 1) * INTERVAL = ticks * INTERVAL + INTERVAL /\ ticks * INTERVAL \in Nat
  BY OneMore DEF TimerInv, TimerTypeOK
<1>2. CASE Count
  BY <1>1, <1>2 DEF TimerInv, TimerTypeOK, Count
<1>3. CASE OnTick
  <2>1. next' >= deadline + INTERVAL /\ next' \in Nat
    <3>1. /\ count \in Nat /\ deadline \in Nat /\ deadline <= count
          /\ next' = NextDeadline
      BY <1>3 DEF TimerInv, TimerTypeOK, OnTick
    <3> QED BY <3>1 DEF NextDeadline
  <2>2. ~behind' => ~behind /\ ~(count - deadline >= INTERVAL)
    BY <1>3, Zenon DEF OnTick
  <2>3. ~behind' => next' = deadline + INTERVAL
    BY <1>3, <2>2 DEF TimerInv, TimerTypeOK, OnTick, NextDeadline
  <2>4. behind' \in BOOLEAN
    BY <1>3, Zenon DEF OnTick
  <2>5. deadline <= count /\ UNCHANGED <<count, deadline, ticks>>
    BY <1>3 DEF OnTick, TimerInv, TimerTypeOK
  <2> QED BY <1>1, <2>1, <2>2, <2>3, <2>4, <2>5 DEF TimerInv, TimerTypeOK
<1>4. CASE Rearm
  <2>1. ticks' = ticks + 1 /\ deadline' = next /\ next' = 0 /\ UNCHANGED <<count, behind>>
    BY <1>4 DEF Rearm
  <2>2. (ticks' + 1) * INTERVAL = (ticks + 1) * INTERVAL + INTERVAL
    BY <2>1, OneMore DEF TimerInv, TimerTypeOK
  <2>3. /\ (ticks' + 1) * INTERVAL <= deadline'
        /\ ~behind' => deadline' = (ticks' + 1) * INTERVAL
        /\ ticks' * INTERVAL <= count'
    BY <1>1, <1>4, <2>1, <2>2 DEF Rearm, TimerInv, TimerTypeOK
  <2> QED BY <2>1, <2>3 DEF TimerInv, TimerTypeOK
<1>5. CASE UNCHANGED timerVars
  BY <1>5 DEF timerVars, TimerInv, TimerTypeOK
<1> QED BY <1>2, <1>3, <1>4, <1>5 DEF TimerNext

(* So it holds in every reachable state. *)
LEMMA TimerInvAlways == TimerSpec => []TimerInv
BY TimerInvInit, TimerInvStep, PTL DEF TimerSpec

(***************************************************************************)
(* on_tick: handler latency below an interval never shifts the heartbeat.   *)
(***************************************************************************)
THEOREM HeartbeatDoesNotDrift == TimerSpec => []LatencyDoesNotAccumulate
<1>1. TimerInv => LatencyDoesNotAccumulate
  BY DEF TimerInv, LatencyDoesNotAccumulate
<1> QED BY <1>1, TimerInvAlways, PTL

(***************************************************************************)
(* on_tick: ticks never outnumber the intervals that have passed, skipped   *)
(* ticks and late handlers included.                                        *)
(***************************************************************************)
THEOREM HeartbeatNeverFast == TimerSpec => []NeverFast
<1>1. TimerInv => NeverFast
  BY DEF TimerInv, NeverFast
<1> QED BY <1>1, TimerInvAlways, PTL

(***************************************************************************)
(* arm_next: the deadline asked for is ahead of the sample of the counter   *)
(* and within an interval of it.                                            *)
(***************************************************************************)
THEOREM DeadlineAhead == TimerSpec => SkipsMissedTicks
<1>1. TimerInv /\ [TimerNext]_timerVars =>
        [next = 0 /\ next' > 0 => next' > count /\ next' <= count + INTERVAL]_timerVars
  BY TimerAssumption DEF TimerInv, TimerTypeOK, TimerNext, Count, OnTick, Rearm, NextDeadline, timerVars
<1> QED BY <1>1, TimerInvAlways, PTL DEF TimerSpec, SkipsMissedTicks

-----------------------------------------------------------------------------
(* The timer in the machine *)

(* Outside on_tick and the passing of time, no instruction touches the timer. *)
LEMMA ExecuteTimerStep == Execute => [TimerNext]_timerVars
<1> SUFFICES ASSUME Execute PROVE [TimerNext]_timerVars
  OBVIOUS
<1>1. CASE Sample
  BY <1>1 DEF Sample, TimerNext
<1>2. CASE Advance
  BY <1>2 DEF Advance, TimerNext
<1>3. CASE Branch \/ DisableInterrupts \/ TakeLock \/ RestoreInterrupts \/ LockedStatement
  BY <1>3 DEF Branch, DisableInterrupts, TakeLock, RestoreInterrupts, LockedStatement
<1>4. CASE Start \/ EnableInterrupts \/ Switch \/ InitController \/ RequestReschedule
  BY <1>4 DEF Start, EnableInterrupts, Switch, InitController, RequestReschedule
<1>5. CASE EndOfInterrupt \/ PreemptIfNeeded \/ Acknowledge \/ Spurious
  BY <1>5 DEF EndOfInterrupt, PreemptIfNeeded, Acknowledge, Spurious
<1> QED BY <1>1, <1>2, <1>3, <1>4, <1>5 DEF Execute

(* The step simulation behind the refinement *)
LEMMA MachineTimerStep == [Next]_vars => [TimerNext]_timerVars
<1> SUFFICES ASSUME [Next]_vars PROVE [TimerNext]_timerVars
  OBVIOUS
<1>1. CASE Execute
  BY <1>1, ExecuteTimerStep
<1>2. CASE Call \/ Trap \/ TakeIrq
  BY <1>2 DEF Call, Trap, TakeIrq
<1>3. CASE Time
  BY <1>3 DEF Time, TimerNext
<1>4. CASE UNCHANGED vars
  BY <1>4 DEF vars
<1> QED BY <1>1, <1>2, <1>3, <1>4 DEF Next

(***************************************************************************)
(* The machine with its masks, locks, controller and tasks implements the   *)
(* timer on its own: on_tick (timer.rs) runs sample and re-arm in turn, and *)
(* nothing else in the kernel writes the compare register or TICKS.         *)
(***************************************************************************)
THEOREM MachineImplementsTimer == Spec => TimerSpec
<1>1. Init => TimerInit
  BY DEF Init
<1> QED BY <1>1, MachineTimerStep, PTL DEF Spec, TimerSpec

(***************************************************************************)
(* Whatever tasks call and however long they keep interrupts masked, the    *)
(* deadlines of the running machine do not drift (arm_next, timer.rs).      *)
(***************************************************************************)
THEOREM MachineDoesNotDrift == Spec => []LatencyDoesNotAccumulate
BY MachineImplementsTimer, HeartbeatDoesNotDrift, PTL

(***************************************************************************)
(* ... and its ticks never outnumber the intervals that have passed.        *)
(***************************************************************************)
THEOREM MachineNeverFast == Spec => []NeverFast
BY MachineImplementsTimer, HeartbeatNeverFast, PTL

-----------------------------------------------------------------------------
(***************************************************************************)
(* Masks and locks.  What a task has still to run is code put together from *)
(* pieces, and the masks it saved are on its stack; the two must fit.       *)
(***************************************************************************)
Code(c) == \E S : c \in Seq(S)

(* A step into code, and pieces put together in either grouping *)
LEMMA CodeFacts ==
  /\ Code(<<>>) /\ \A i : Code(<<i>>)
  /\ \A a, b : Code(a) /\ Code(b) => Code(a \o b)
  /\ \A a, b, k : Code(a) /\ Code(b) /\ Code(k) => (a \o b) \o k = a \o (b \o k)
  /\ \A a : Code(a) => a \o <<>> = a /\ <<>> \o a = a
<1>1. \A a, b, k : Code(a) /\ Code(b) /\ Code(k) =>
        \E S : a \in Seq(S) /\ b \in Seq(S) /\ k \in Seq(S)
  <2> SUFFICES ASSUME NEW a, NEW b, NEW k, Code(a), Code(b), Code(k)
               PROVE  \E S : a \in Seq(S) /\ b \in Seq(S) /\ k \in Seq(S)
    OBVIOUS
  <2>1. PICK S, T, U : a \in Seq(S) /\ b \in Seq(T) /\ k \in Seq(U)
    BY DEF Code
  <2> DEFINE V == S \cup T \cup U
  <2>2. S \subseteq V /\ T \subseteq V /\ U \subseteq V
    OBVIOUS
  <2>3. a \in Seq(V) /\ b \in Seq(V) /\ k \in Seq(V)
    <3> HIDE DEF V
    <3> QED BY <2>1, <2>2, SeqMonotonic
  <2> QED BY <2>3
<1>2. Code(<<>>) /\ \A i : Code(<<i>>)
  <2>1. \A i : <<i>> \in Seq({i})
    OBVIOUS
  <2> QED BY <2>1, EmptySeq DEF Code
<1>3. \A a, b : Code(a) /\ Code(b) => Code(a \o b)
  <2> SUFFICES ASSUME NEW a, NEW b, Code(a), Code(b) PROVE Code(a \o b)
    OBVIOUS
  <2>1. PICK S : a \in Seq(S) /\ b \in Seq(S)
    BY <1>1
  <2> QED BY <2>1, ConcatProperties DEF Code
<1>4. \A a, b, k : Code(a) /\ Code(b) /\ Code(k) => (a \o b) \o k = a \o (b \o k)
  BY <1>1, ConcatAssociative
<1>5. \A a : Code(a) => a \o <<>> = a /\ <<>> \o a = a
  BY ConcatEmptySeq DEF Code
<1> QED BY <1>2, <1>3, <1>4, <1>5

(* Three pieces of code, in either grouping *)
LEMMA Regroup ==
  ASSUME NEW a, NEW b, NEW k, Code(a), Code(b), Code(k)
  PROVE  (a \o b) \o k = a \o (b \o k)
<1> DEFINE LeftFirst(x, y, z) == (x \o y) \o z
           RightFirst(x, y, z) == x \o (y \o z)
<1>1. \A x, y, z : Code(x) /\ Code(y) /\ Code(z) => LeftFirst(x, y, z) = RightFirst(x, y, z)
  BY CodeFacts, Zenon
<1>2. LeftFirst(a, b, k) = RightFirst(a, b, k)
  <2> HIDE DEF LeftFirst, RightFirst
  <2> QED BY <1>1
<1> QED BY <1>2, Zenon

(* Two instructions, one after the other *)
LEMMA CodePair == ASSUME NEW i, NEW j PROVE <<i>> \o <<j>> = <<i, j>>
<1>1. PICK S : S = {i, j}
  OBVIOUS
<1>2. <<i>> \in Seq(S) /\ <<j>> \in Seq(S) /\ <<i, j>> \in Seq(S)
  BY <1>1
<1>3. Len(<<i>>) = 1 /\ Len(<<j>>) = 1 /\ Len(<<i, j>>) = 2
  OBVIOUS
<1>4. /\ <<i>> \o <<j>> \in Seq(S) /\ Len(<<i>> \o <<j>>) = 2
      /\ (<<i>> \o <<j>>)[1] = i /\ (<<i>> \o <<j>>)[2] = j
  BY <1>2, <1>3, ConcatProperties
<1>5. \A n \in 1 .. 2 : n = 1 \/ n = 2
  OBVIOUS
<1>6. \A n \in 1 .. 2 : (<<i>> \o <<j>>)[n] = <<i, j>>[n]
  BY <1>4, <1>5
<1> QED BY <1>2, <1>3, <1>4, <1>6, SeqEqual

(* A piece between two others *)
Grouped(x, a, y, k) == ((x \o a) \o y) \o k = x \o (a \o (y \o k))

(* ... in whichever order it is put together with them *)
LEMMA CodeGrouped ==
  ASSUME NEW x, NEW a, NEW y, NEW k, Code(x), Code(a), Code(y), Code(k)
  PROVE  Grouped(x, a, y, k)
<1> DEFINE Then(b, c) == b \o c
<1>1. \A b, c : Code(b) /\ Code(c) => Code(Then(b, c))
  BY CodeFacts
<1>2. \A b, c, d : Code(b) /\ Code(c) /\ Code(d) => Then(Then(b, c), d) = Then(b, Then(c, d))
  BY CodeFacts
<1> HIDE DEF Then
<1>3. Code(Then(x, a)) /\ Code(Then(y, k))
  BY <1>1
<1>4. Then(Then(Then(x, a), y), k) = Then(Then(x, a), Then(y, k))
  BY <1>2, <1>3
<1>5. Then(Then(x, a), Then(y, k)) = Then(x, Then(a, Then(y, k)))
  BY <1>2, <1>3
<1>6. Then(Then(Then(x, a), y), k) = Then(x, Then(a, Then(y, k)))
  BY <1>4, <1>5
<1> QED BY <1>6 DEF Then, Grouped

(* The instruction ahead, and the code behind it *)
LEMMA CodeAhead ==
  ASSUME NEW i, NEW k, Code(k)
  PROVE  /\ Code(<<i>> \o k) /\ <<i>> \o k # <<>>
         /\ Head(<<i>> \o k) = i /\ Tail(<<i>> \o k) = k
<1>1. PICK S : k \in Seq(S)
  BY DEF Code
<1>2. PICK T : T = S \cup {i}
  OBVIOUS
<1>3. k \in Seq(T) /\ <<i>> \in Seq(T)
  <2>1. S \subseteq T /\ i \in T
    BY <1>2
  <2> QED BY <1>1, <2>1, SeqMonotonic
<1>4. <<i>> \o k \in Seq(T) /\ Len(<<i>> \o k) = 1 + Len(k) /\ Len(k) \in Nat
  BY <1>3, ConcatProperties
<1>5. (<<i>> \o k)[1] = i /\ \A j \in 1 .. Len(k) : (<<i>> \o k)[j + 1] = k[j]
  BY <1>3, <1>4, ConcatProperties
<1>6. <<i>> \o k # <<>>
  BY <1>4
<1>7. /\ Tail(<<i>> \o k) \in Seq(T) /\ Len(Tail(<<i>> \o k)) = Len(k)
      /\ \A j \in 1 .. Len(k) : Tail(<<i>> \o k)[j] = (<<i>> \o k)[j + 1]
  BY <1>4, <1>6, HeadTailProperties
<1>8. Tail(<<i>> \o k) = k
  BY <1>3, <1>5, <1>7, SeqEqual
<1> QED BY <1>4, <1>5, <1>6, <1>8 DEF Code

(***************************************************************************)
(* Stacks of saved masks: the outermost says interrupts were on, each inner *)
(* one that they were off.                                                  *)
(***************************************************************************)
Guards ==
  {"SCHEDULER", "ALLOCATOR", "SWITCH_LOG", "EMPTY_SPACE", "POSTED", "WANTED", "TABLE",
   "FAULT_WAITERS", "CONSOLE", "ORDER", "ROUTES", "TICKS", "PROBE", "OTHER"}
Names == Guards \cup {"disable", "trap"}
Saves == [by : Names, mask : BOOLEAN]
Stacks == {B \in Seq(Saves) : \A k \in 1 .. Len(B) : B[k].mask <=> k > 1}

Push(B, by) == Append(B, [by |-> by, mask |-> (B # <<>>)])
Pop(B) == SubSeq(B, 1, Len(B) - 1)
Top(B) == B[Len(B)].by
Held(B) == {B[k].by : k \in 1 .. Len(B)} \ {"disable", "trap"}

(* A task with nothing saved holds no lock. *)
LEMMA NoSaves == <<>> \in Stacks /\ Held(<<>>) = {}
BY EmptySeq DEF Stacks, Held

(* A save says whether there was one before it, so the stack stays one. *)
LEMMA StackPush ==
  ASSUME NEW B \in Stacks, NEW by \in Names
  PROVE  /\ Push(B, by) \in Stacks /\ Push(B, by) # <<>>
         /\ Top(Push(B, by)) = by /\ Pop(Push(B, by)) = B
         /\ Held(Push(B, by)) = Held(B) \cup ({by} \ {"disable", "trap"})
<1> DEFINE e == [by |-> by, mask |-> (B # <<>>)]
           P == Append(B, e)
<1>1. B \in Seq(Saves) /\ e \in Saves /\ Len(B) \in Nat
  <2>1. (B # <<>>) \in BOOLEAN
    OBVIOUS
  <2> QED BY <2>1 DEF Stacks, Saves
<1>2. /\ P \in Seq(Saves) /\ P # <<>> /\ Len(P) = Len(B) + 1
      /\ \A k \in 1 .. Len(B) : P[k] = B[k]
      /\ P[Len(B) + 1] = e
  <2> HIDE DEF e
  <2> QED BY <1>1, AppendProperties
<1>3. e.by = by /\ (e.mask <=> B # <<>>)
  OBVIOUS
<1>4. B # <<>> <=> Len(B) + 1 > 1
  BY <1>1
<1> HIDE DEF P, e
<1>5. P \in Stacks
  <2>1. \A k \in 1 .. Len(P) : k \in 1 .. Len(B) \/ k = Len(B) + 1
    BY <1>1, <1>2
  <2>2. \A k \in 1 .. Len(P) : P[k].mask <=> k > 1
    BY <1>2, <1>3, <1>4, <2>1 DEF Stacks
  <2> QED BY <1>2, <2>2 DEF Stacks
<1>6. Top(P) = by
  BY <1>2, <1>3 DEF Top
<1>7. Pop(P) = B
  <2>1. Pop(P) = SubSeq(P, 1, Len(B))
    BY <1>1, <1>2 DEF Pop
  <2>2. \A k \in 1 .. Len(B) : P[k] \in Saves
    BY <1>1, <1>2
  <2>3. /\ SubSeq(P, 1, Len(B)) \in Seq(Saves) /\ Len(SubSeq(P, 1, Len(B))) = Len(B)
        /\ \A k \in 1 .. Len(B) : SubSeq(P, 1, Len(B))[k] = P[k]
    BY <1>1, <2>2, SubSeqProperties
  <2> QED BY <1>1, <1>2, <2>1, <2>3, SeqEqual
<1>8. {P[k].by : k \in 1 .. Len(P)} = {B[k].by : k \in 1 .. Len(B)} \cup {by}
  <2>1. \A k \in 1 .. Len(P) : k \in 1 .. Len(B) \/ k = Len(B) + 1
    BY <1>1, <1>2
  <2>2. \A k \in 1 .. Len(B) : k \in 1 .. Len(P)
    BY <1>1, <1>2
  <2>3. Len(B) + 1 \in 1 .. Len(P)
    BY <1>1, <1>2
  <2> QED BY <1>2, <1>3, <2>1, <2>2, <2>3
<1>9. Held(P) = Held(B) \cup ({by} \ {"disable", "trap"})
  BY <1>8 DEF Held
<1> QED BY <1>2, <1>5, <1>6, <1>7, <1>9 DEF Push, P, e

(* The last save says whether any are left when it is put back. *)
LEMMA StackPop ==
  ASSUME NEW B \in Stacks, B # <<>>
  PROVE  /\ Len(B) \in Nat \ {0} /\ B[Len(B)].by = Top(B)
         /\ B[Len(B)].mask \in BOOLEAN /\ (B[Len(B)].mask <=> Pop(B) # <<>>)
         /\ SubSeq(B, 1, Len(B) - 1) \o SubSeq(B, Len(B) + 1, Len(B)) = Pop(B)
<1>1. B \in Seq(Saves) /\ Len(B) \in Nat \ {0}
  BY EmptySeq DEF Stacks
<1>2. Len(B) \in 1 .. Len(B)
  BY <1>1
<1>3. B[Len(B)] \in Saves /\ (B[Len(B)].mask <=> Len(B) > 1)
  BY <1>1, <1>2 DEF Stacks
<1>4. \A k \in 1 .. Len(B) - 1 : B[k] \in Saves
  BY <1>1
<1>5. Pop(B) \in Seq(Saves) /\ Len(Pop(B)) = Len(B) - 1
  <2>1. PICK n \in Nat : n = Len(B) - 1
    BY <1>1
  <2>2. \A k \in 1 .. n : B[k] \in Saves
    BY <1>4, <2>1
  <2>3. SubSeq(B, 1, n) \in Seq(Saves) /\ Len(SubSeq(B, 1, n)) = n
    BY <2>1, <2>2, SubSeqProperties
  <2> QED BY <2>1, <2>3 DEF Pop
<1>6. Pop(B) # <<>> <=> Len(B) > 1
  BY <1>1, <1>5
<1>7. SubSeq(B, Len(B) + 1, Len(B)) = <<>>
  BY <1>1, SubSeqEmpty
<1>8. Pop(B) \o <<>> = Pop(B)
  BY <1>5, ConcatEmptySeq
<1> QED BY <1>1, <1>3, <1>6, <1>7, <1>8 DEF Top, Pop, Saves

-----------------------------------------------------------------------------
(***************************************************************************)
(* Code that fits a stack.  Fits says what an instruction asks of the stack *)
(* it finds: a lock is asked for only when no guard on it is alive, what is *)
(* put back is what was saved last, and the CPU is given up only without a  *)
(* guard and with interrupts masked.  After says where it leads.  What the  *)
(* boot thread does before interrupts are on, and where a task starts, is   *)
(* not among it.                                                            *)
(***************************************************************************)
Fits(i, B) ==
  /\ i.op \notin {"trampoline", "enable", "gicInit", "timerInit"}
  /\ i.op \in {"lock", "touch"} =>
       i.lock \in Guards /\ i.lock \notin Held(B)
  /\ i.op = "restore" => B # <<>> /\ Top(B) = "disable"
  /\ i.op = "drop" => B # <<>> /\ Top(B) = i.lock
  /\ i.op = "eret" => B # <<>> /\ Top(B) = "trap"
  /\ i.op \in {"switch", "preempt"} => B # <<>> /\ Held(B) = {}
  /\ i.op = "enterEl0" => B = <<>>

After(i, k, B) ==
  CASE i.op = "branch" -> {<<code \o k, B>> : code \in i.codes}
    [] i.op = "disable" -> {<<k, Push(B, "disable")>>}
    [] i.op = "lock" -> {<<k, Push(B, i.lock)>>}
    [] i.op \in {"restore", "drop", "eret"} -> {<<k, Pop(B)>>}
    [] i.op = "preempt" -> {<<k, B>>, <<SwitchToNext \o k, B>>}
    [] i.op = "ack" -> {<<k, B>>, <<Handler \o k, B>>}
    [] i.op = "gone" -> {}
    [] OTHER -> {<<k, B>>}

(* At the end of its code a task has nothing saved. *)
Ends(c, B) == c = <<>> => B = <<>>

(* Every way through the code fits: the largest set of pairs closed under After *)
Closed(S) ==
  \A c, B : <<c, B>> \in S =>
    /\ Code(c) /\ B \in Stacks
    /\ Ends(c, B)
    /\ c # <<>> => /\ Fits(Head(c), B) /\ Code(Tail(c))
                   /\ \A d, D : <<d, D>> \in After(Head(c), Tail(c), B) => <<d, D>> \in S

Good(c, B) == \E S : Closed(S) /\ <<c, B>> \in S

(* What good code does next fits, and what is left of it is good. *)
LEMMA GoodStep ==
  ASSUME NEW c, NEW B, Good(c, B)
  PROVE  /\ Code(c) /\ B \in Stacks /\ Ends(c, B)
         /\ c # <<>> => /\ Fits(Head(c), B) /\ Code(Tail(c))
                        /\ \A d, D : <<d, D>> \in After(Head(c), Tail(c), B) => Good(d, D)
<1>1. PICK S : Closed(S) /\ <<c, B>> \in S
  BY DEF Good
<1>2. Code(c) /\ B \in Stacks
  BY <1>1, Zenon DEF Closed
<1>4. Ends(c, B)
  BY <1>1, Zenon DEF Closed
<1>5. c # <<>> => Fits(Head(c), B) /\ Code(Tail(c))
  BY <1>1, Zenon DEF Closed
<1>3. ASSUME c # <<>>, NEW d, NEW D, <<d, D>> \in After(Head(c), Tail(c), B) PROVE Good(d, D)
  <2>1. <<d, D>> \in S
    BY <1>1, <1>3, Zenon DEF Closed
  <2> QED BY <1>1, <2>1 DEF Good
<1> QED BY <1>2, <1>3, <1>4, <1>5

(* There is nothing left to do, and no mask to put back. *)
LEMMA GoodEnd == Good(<<>>, <<>>)
<1>1. Closed({<<<<>>, <<>>>>})
  BY CodeFacts, NoSaves DEF Closed, Ends
<1> QED BY <1>1 DEF Good

(* An instruction that fits makes good code of good code. *)
LEMMA GoodIntro ==
  ASSUME NEW i, NEW k, Code(k), NEW B \in Stacks, Fits(i, B),
         \A p \in After(i, k, B) : \E d, D : p = <<d, D>> /\ Good(d, D)
  PROVE  Good(<<i>> \o k, B)
<1> DEFINE W(p) == CHOOSE S : Closed(S) /\ p \in S
           S == {<<<<i>> \o k, B>>} \cup UNION {W(p) : p \in After(i, k, B)}
<1>1. ASSUME NEW p \in After(i, k, B) PROVE Closed(W(p)) /\ p \in W(p)
  <2>1. \E T : Closed(T) /\ p \in T
    BY DEF Good
  <2> QED BY <2>1, Zenon
<1>2. /\ Code(<<i>> \o k) /\ <<i>> \o k # <<>>
      /\ Head(<<i>> \o k) = i /\ Tail(<<i>> \o k) = k
  BY CodeAhead
<1>3. \A p \in After(i, k, B) : p \in S
  BY <1>1
<1> HIDE DEF W
<1>4. Closed(S)
  <2> SUFFICES ASSUME NEW c, NEW C, <<c, C>> \in S
               PROVE  /\ Code(c) /\ C \in Stacks
                      /\ Ends(c, C)
                      /\ c # <<>> =>
                           /\ Fits(Head(c), C) /\ Code(Tail(c))
                           /\ \A d, D : <<d, D>> \in After(Head(c), Tail(c), C) => <<d, D>> \in S
    BY Zenon DEF Closed
  <2>1. CASE <<c, C>> = <<<<i>> \o k, B>>
    <3>1. c = <<i>> \o k /\ C = B
      BY <2>1
    <3> HIDE DEF S
    <3> QED BY <1>2, <1>3, <3>1 DEF Ends
  <2>2. CASE \E p \in After(i, k, B) : <<c, C>> \in W(p)
    <3>1. PICK p \in After(i, k, B) : <<c, C>> \in W(p)
      BY <2>2
    <3>2. Closed(W(p))
      BY <1>1
    <3>3. \A q : q \in W(p) => q \in S
      BY <3>1
    <3> HIDE DEF S
    <3> QED BY <3>1, <3>2, <3>3, Zenon DEF Closed
  <2> QED BY <2>1, <2>2
<1>5. <<<<i>> \o k, B>> \in S
  OBVIOUS
<1> HIDE DEF S
<1> QED BY <1>4, <1>5, Zenon DEF Good

-----------------------------------------------------------------------------
(* Code that leaves the stack as it found it, whatever comes after it *)
Neutral(a, B) == Code(a) /\ \A k : Good(k, B) => Good(a \o k, B)

(* No code at all, and neutral code after neutral code *)
LEMMA NeutralParts ==
  /\ \A B : Neutral(<<>>, B)
  /\ \A a, b, B : Neutral(a, B) /\ Neutral(b, B) => Neutral(a \o b, B)
<1>1. ASSUME NEW B PROVE Neutral(<<>>, B)
  BY CodeFacts, GoodStep DEF Neutral
<1>2. ASSUME NEW a, NEW b, NEW B, Neutral(a, B), Neutral(b, B) PROVE Neutral(a \o b, B)
  <2>1. Code(a) /\ Code(b) /\ Code(a \o b)
    BY <1>2, CodeFacts DEF Neutral
  <2>2. ASSUME NEW k, Good(k, B) PROVE Good((a \o b) \o k, B)
    <3>1. Good(a \o (b \o k), B)
      BY <1>2, <2>2 DEF Neutral
    <3>2. Code(a) /\ Code(b) /\ Code(k)
      BY <2>1, <2>2, GoodStep
    <3>3. (a \o b) \o k = a \o (b \o k)
      BY <3>2, Regroup, SMTT(60)
    <3> QED BY <3>1, <3>3
  <2> QED BY <2>1, <2>2 DEF Neutral
<1> QED BY <1>1, <1>2

(* An instruction that leads to the code behind it, the stack as it was *)
LEMMA NeutralInstruction ==
  ASSUME NEW i, NEW B, Fits(i, B), \A k : \A p \in After(i, k, B) : p = <<k, B>>
  PROVE  Neutral(<<i>>, B)
<1>1. ASSUME NEW k, Good(k, B) PROVE Good(<<i>> \o k, B)
  <2>1. Code(k) /\ B \in Stacks
    BY <1>1, GoodStep
  <2>2. \A p \in After(i, k, B) : \E d, D : p = <<d, D>> /\ Good(d, D)
    BY <1>1
  <2> QED BY <2>1, <2>2, GoodIntro
<1> QED BY <1>1, CodeFacts DEF Neutral

(* A branch whose every path is *)
LEMMA NeutralOneOf ==
  ASSUME NEW codes, NEW B, \A code \in codes : Neutral(code, B)
  PROVE  Neutral(OneOf(codes), B)
<1>1. PICK i : i = [op |-> "branch", codes |-> codes]
  OBVIOUS
<1>2. OneOf(codes) = <<i>> /\ i.op = "branch" /\ i.codes = codes
  BY <1>1 DEF OneOf
<1>3. ASSUME NEW k, Good(k, B) PROVE Good(<<i>> \o k, B)
  <2>1. Code(k) /\ B \in Stacks
    BY <1>3, GoodStep
  <2>2. Fits(i, B)
    BY <1>2 DEF Fits
  <2>3. After(i, k, B) = {<<code \o k, B>> : code \in codes}
    BY <1>2 DEF After
  <2>4. \A p \in After(i, k, B) : \E d, D : p = <<d, D>> /\ Good(d, D)
    <3>1. \A code \in codes : Good(code \o k, B)
      BY <1>3 DEF Neutral
    <3> QED BY <2>3, <3>1
  <2> QED BY <2>1, <2>2, <2>4, GoodIntro
<1> QED BY <1>2, <1>3, CodeFacts DEF Neutral

(* Code that may be left out *)
LEMMA NeutralOpt ==
  ASSUME NEW a, NEW B, Neutral(a, B)
  PROVE  Neutral(Opt(a), B)
<1>1. \A code \in {<<>>, a} : Neutral(code, B)
  BY NeutralParts
<1> QED BY <1>1, NeutralOneOf DEF Opt

(* One of two pieces of code *)
LEMMA NeutralEither ==
  ASSUME NEW a, NEW b, NEW B, Neutral(a, B), Neutral(b, B)
  PROVE  Neutral(OneOf({a, b}), B)
BY NeutralOneOf

(* A locked statement, for a lock with no guard alive *)
LEMMA NeutralTouch ==
  ASSUME NEW lock \in Guards, NEW B, lock \notin Held(B)
  PROVE  Neutral(Touch(lock), B)
<1>1. PICK i : i = [op |-> "touch", lock |-> lock]
  OBVIOUS
<1>2. Touch(lock) = <<i>> /\ i.op = "touch" /\ i.lock = lock
  BY <1>1 DEF Touch
<1>3. Fits(i, B)
  BY <1>2 DEF Fits
<1>4. \A k : After(i, k, B) = {<<k, B>>}
  BY <1>2 DEF After
<1> QED BY <1>2, <1>3, <1>4, NeutralInstruction

(* Instructions that have nothing to do with the stack *)
LEMMA NeutralDo ==
  ASSUME NEW op \in {"resched", "sample", "rearm", "eoi"}, NEW B
  PROVE  Neutral(Do(op), B)
<1>1. PICK i : i = [op |-> op]
  OBVIOUS
<1>2. Do(op) = <<i>> /\ i.op = op
  BY <1>1 DEF Do
<1>3. Fits(i, B)
  BY <1>2 DEF Fits
<1>4. \A k : After(i, k, B) = {<<k, B>>}
  BY <1>2 DEF After
<1> QED BY <1>2, <1>3, <1>4, NeutralInstruction

(* The CPU is given up masked, and with no guard alive. *)
LEMMA NeutralSwitch ==
  ASSUME NEW B, B # <<>>, Held(B) = {}
  PROVE  Neutral(Do("switch"), B)
<1>1. PICK i : i = [op |-> "switch"]
  OBVIOUS
<1>2. Do("switch") = <<i>> /\ i.op = "switch"
  BY <1>1 DEF Do
<1>3. Fits(i, B)
  BY <1>2 DEF Fits
<1>4. \A k : After(i, k, B) = {<<k, B>>}
  BY <1>2 DEF After
<1> QED BY <1>2, <1>3, <1>4, NeutralInstruction

(* Pieces between a save and what puts it back *)
LEMMA NeutralBetween ==
  ASSUME NEW i, NEW j, NEW a, NEW B, NEW by \in Names, Fits(i, B), Neutral(a, Push(B, by)),
         \A k : After(i, k, B) = {<<k, Push(B, by)>>},
         Push(B, by) # <<>> /\ Top(Push(B, by)) = by /\ Pop(Push(B, by)) = B => Fits(j, Push(B, by)),
         \A k : After(j, k, Push(B, by)) = {<<k, Pop(Push(B, by))>>}
  PROVE  Neutral((<<i>> \o a) \o <<j>>, B)
<1>1. Code(a) /\ Code(<<i>>) /\ Code(<<j>>) /\ Code(<<i>> \o a) /\ Code((<<i>> \o a) \o <<j>>)
  BY CodeFacts DEF Neutral
<1>2. ASSUME NEW k, Good(k, B) PROVE Good(((<<i>> \o a) \o <<j>>) \o k, B)
  <2>1. Code(k) /\ B \in Stacks
    BY <1>2, GoodStep
  <2>2. /\ Push(B, by) \in Stacks /\ Push(B, by) # <<>>
        /\ Top(Push(B, by)) = by /\ Pop(Push(B, by)) = B
    BY <2>1, StackPush
  <2>3. Good(<<j>> \o k, Push(B, by))
    <3>1. \A p \in After(j, k, Push(B, by)) : \E d, D : p = <<d, D>> /\ Good(d, D)
      BY <1>2, <2>2
    <3> QED BY <2>1, <2>2, <3>1, GoodIntro
  <2>4. Good(a \o (<<j>> \o k), Push(B, by))
    BY <2>3 DEF Neutral
  <2>5. Code(a \o (<<j>> \o k))
    BY <2>4, GoodStep
  <2>6. Good(<<i>> \o (a \o (<<j>> \o k)), B)
    <3>1. \A p \in After(i, a \o (<<j>> \o k), B) : \E d, D : p = <<d, D>> /\ Good(d, D)
      BY <2>4
    <3> QED BY <2>1, <2>5, <3>1, GoodIntro
  <2>7. ((<<i>> \o a) \o <<j>>) \o k = <<i>> \o (a \o (<<j>> \o k))
    <3>1. Grouped(<<i>>, a, <<j>>, k)
      BY <1>1, <2>1, CodeGrouped
    <3> QED BY <3>1 DEF Grouped
  <2> QED BY <2>6, <2>7
<1> QED BY <1>1, <1>2 DEF Neutral

(* A block under a guard, for a lock with no guard alive *)
LEMMA NeutralHold ==
  ASSUME NEW lock \in Guards, NEW B, lock \notin Held(B),
         NEW a, Neutral(a, Push(B, lock))
  PROVE  Neutral(Hold(lock, a), B)
<1> lock \in Names
  BY DEF Names
<1>1. PICK i, j : i = [op |-> "lock", lock |-> lock] /\ j = [op |-> "drop", lock |-> lock]
  OBVIOUS
<1>2. Hold(lock, a) = (<<i>> \o a) \o <<j>> /\ i.op = "lock" /\ i.lock = lock
      /\ j.op = "drop" /\ j.lock = lock
  BY <1>1 DEF Hold
<1>3. Fits(i, B)
  BY <1>2 DEF Fits
<1>4. \A k : After(i, k, B) = {<<k, Push(B, lock)>>}
  BY <1>2 DEF After
<1>5. \A C : C # <<>> /\ Top(C) = lock => Fits(j, C)
  BY <1>2 DEF Fits
<1>6. \A k, C : After(j, k, C) = {<<k, Pop(C)>>}
  BY <1>2 DEF After
<1>7. Neutral((<<i>> \o a) \o <<j>>, B)
  BY <1>3, <1>4, <1>5, <1>6, NeutralBetween
<1> QED BY <1>2, <1>7

(* disable_interrupts, and restore_interrupts with what it returned *)
LEMMA NeutralMasked ==
  ASSUME NEW B, NEW a, Neutral(a, Push(B, "disable"))
  PROVE  Neutral(Masked(a), B)
<1>1. PICK i, j : i = [op |-> "disable"] /\ j = [op |-> "restore"]
  OBVIOUS
<1>2. Masked(a) = (<<i>> \o a) \o <<j>> /\ i.op = "disable" /\ j.op = "restore"
  BY <1>1 DEF Masked, Do
<1>3. Fits(i, B)
  BY <1>2 DEF Fits
<1>4. \A k : After(i, k, B) = {<<k, Push(B, "disable")>>}
  BY <1>2 DEF After
<1>5. \A C : C # <<>> /\ Top(C) = "disable" => Fits(j, C)
  BY <1>2 DEF Fits
<1>6. \A k, C : After(j, k, C) = {<<k, Pop(C)>>}
  BY <1>2 DEF After
<1>7. Neutral((<<i>> \o a) \o <<j>>, B)
  <2>1. PICK by \in Names : by = "disable"
    BY DEF Names
  <2>2. Neutral(a, Push(B, by)) /\ \A k : After(i, k, B) = {<<k, Push(B, by)>>}
    BY <1>4, <2>1
  <2>3. \A C : C # <<>> /\ Top(C) = by => Fits(j, C)
    BY <1>5, <2>1
  <2> QED BY <1>3, <1>6, <2>1, <2>2, <2>3, NeutralBetween
<1> QED BY <1>2, <1>7

-----------------------------------------------------------------------------
(***************************************************************************)
(* The operations of the kernel.  Quiet code may run whenever no guard is   *)
(* alive; parking code may give up the CPU and so needs a mask saved too.   *)
(***************************************************************************)
Free(B) == B \in Stacks /\ Held(B) = {}
Quiet(a) == \A B : Free(B) => Neutral(a, B)
Parking(a) == \A B : Free(B) /\ B # <<>> => Neutral(a, B)

(* A stack without guards is still without them after a mask is saved. *)
LEMMA FreePush ==
  ASSUME NEW B, Free(B)
  PROVE  /\ Free(Push(B, "disable")) /\ Push(B, "disable") # <<>>
         /\ Free(Push(B, "trap")) /\ Push(B, "trap") # <<>>
         /\ \A lock \in Guards : Held(Push(B, lock)) = {lock} /\ Push(B, lock) \in Stacks
<1>1. \A by \in Names : /\ Push(B, by) \in Stacks /\ Push(B, by) # <<>>
                        /\ Held(Push(B, by)) = {by} \ {"disable", "trap"}
  BY StackPush DEF Free
<1>2. \A lock \in Guards : lock \in Names /\ {lock} \ {"disable", "trap"} = {lock}
  BY DEF Guards, Names
<1>3. "disable" \in Names /\ "trap" \in Names
  BY DEF Names
<1> QED BY <1>1, <1>2, <1>3 DEF Free

(* What may run on any stack without guards may run on a masked one. *)
LEMMA QuietParks == ASSUME NEW a, Quiet(a) PROVE Parking(a)
BY DEF Quiet, Parking

(* Quiet code after quiet code *)
LEMMA QuietJoin ==
  ASSUME NEW a, NEW b, Quiet(a), Quiet(b)
  PROVE  Quiet(a \o b)
BY NeutralParts, Zenon DEF Quiet

(* Parking code after parking code *)
LEMMA ParkingJoin ==
  ASSUME NEW a, NEW b, Parking(a), Parking(b)
  PROVE  Parking(a \o b)
BY NeutralParts, Zenon DEF Parking

(* A choice between quiet pieces of code *)
LEMMA QuietBranches ==
  /\ Quiet(<<>>)
  /\ \A a : Quiet(a) => Quiet(Opt(a))
  /\ \A a : Parking(a) => Parking(Opt(a))
  /\ \A a, b : Quiet(a) /\ Quiet(b) => Quiet(OneOf({a, b}))
  /\ \A a, b : Parking(a) /\ Parking(b) => Parking(OneOf({a, b}))
<1>1. Quiet(<<>>)
  BY NeutralParts DEF Quiet
<1>2. \A a, B : Neutral(a, B) => Neutral(Opt(a), B)
  BY NeutralOpt
<1>3. \A a, b, B : Neutral(a, B) /\ Neutral(b, B) => Neutral(OneOf({a, b}), B)
  BY NeutralEither
<1> QED BY <1>1, <1>2, <1>3, Zenon DEF Quiet, Parking

(* Between disable_interrupts and restore_interrupts code may park. *)
LEMMA QuietMasked == ASSUME NEW a, Parking(a) PROVE Quiet(Masked(a))
<1> SUFFICES ASSUME NEW B, Free(B) PROVE Neutral(Masked(a), B)
  BY DEF Quiet
<1>1. Neutral(a, Push(B, "disable"))
  BY FreePush DEF Parking
<1> QED BY <1>1, NeutralMasked

(* A locked statement, when no guard is alive *)
LEMMA QuietTouch == ASSUME NEW lock \in Guards PROVE Quiet(Touch(lock))
BY NeutralTouch DEF Quiet, Free

(* One lock inside another, and the other way round nowhere *)
LEMMA QuietNested ==
  ASSUME NEW outer \in Guards, NEW inner \in Guards, outer # inner
  PROVE  /\ Quiet(Hold(outer, Touch(inner))) /\ Quiet(Hold(outer, Opt(Touch(inner))))
<1> SUFFICES ASSUME NEW B, Free(B)
             PROVE  Neutral(Hold(outer, Touch(inner)), B) /\ Neutral(Hold(outer, Opt(Touch(inner))), B)
  BY DEF Quiet
<1>1. Held(Push(B, outer)) = {outer} /\ outer \notin Held(B)
  BY FreePush DEF Free
<1>2. Neutral(Touch(inner), Push(B, outer))
  BY <1>1, NeutralTouch
<1>3. Neutral(Opt(Touch(inner)), Push(B, outer))
  BY <1>2, NeutralOpt
<1> QED BY <1>1, <1>2, <1>3, NeutralHold

(* Every static is locked on its own somewhere. *)
LEMMA QuietStatics ==
  /\ Quiet(Touch("SCHEDULER")) /\ Quiet(Touch("ALLOCATOR")) /\ Quiet(Touch("SWITCH_LOG"))
  /\ Quiet(Touch("EMPTY_SPACE")) /\ Quiet(Touch("POSTED")) /\ Quiet(Touch("WANTED"))
  /\ Quiet(Touch("TABLE")) /\ Quiet(Touch("FAULT_WAITERS")) /\ Quiet(Touch("CONSOLE"))
  /\ Quiet(Touch("ORDER")) /\ Quiet(Touch("ROUTES")) /\ Quiet(Lookup)
  /\ Quiet(Hold("SCHEDULER", Touch("SWITCH_LOG")))
  /\ Quiet(Hold("TABLE", Opt(Touch("SCHEDULER"))))
  /\ Quiet(Do("resched")) /\ Quiet(Do("sample")) /\ Quiet(Do("eoi"))
  /\ Parking(Do("switch"))
<1>1. {"SCHEDULER", "ALLOCATOR", "SWITCH_LOG", "EMPTY_SPACE", "POSTED", "WANTED", "TABLE",
       "FAULT_WAITERS", "CONSOLE", "ORDER", "ROUTES"} \subseteq Guards
  BY DEF Guards
<1>2. \A lock \in Guards : Quiet(Touch(lock))
  BY QuietTouch
<1>3. Quiet(Hold("SCHEDULER", Touch("SWITCH_LOG"))) /\ Quiet(Hold("TABLE", Opt(Touch("SCHEDULER"))))
  BY <1>1, QuietNested
<1>4. Quiet(Do("resched")) /\ Quiet(Do("sample")) /\ Quiet(Do("eoi"))
  BY NeutralDo DEF Quiet
<1>5. Parking(Do("switch"))
  BY NeutralSwitch DEF Parking, Free
<1> QED BY <1>1, <1>2, <1>3, <1>4, <1>5 DEF Lookup

(* tasks.rs: reaping, switching, parking, waking *)
LEMMA ReapCode == Quiet(ReapZombies)
<1>1. Quiet(Touch("SCHEDULER") \o Touch("ALLOCATOR"))
  BY QuietStatics, QuietJoin
<1>2. Quiet(Opt(Touch("SCHEDULER") \o Touch("ALLOCATOR")))
  BY <1>1, QuietBranches
<1> QED BY <1>2, QuietStatics, QuietJoin DEF ReapZombies

(* switch_to_next, yield_now, and parking after a wait is recorded *)
LEMMA SwitchCode == Parking(SwitchToNext) /\ Quiet(YieldNow) /\ Parking(Park)
<1>1. Quiet(Hold("SCHEDULER", Touch("SWITCH_LOG")) \o Opt(Touch("EMPTY_SPACE")))
  BY QuietStatics, QuietBranches, QuietJoin
<1>2. Parking(Hold("SCHEDULER", Touch("SWITCH_LOG")) \o Opt(Touch("EMPTY_SPACE")) \o Do("switch"))
  BY <1>1, QuietStatics, QuietParks, ParkingJoin
<1>3. Parking(Touch("SCHEDULER")) /\ Parking(ReapZombies) /\ Parking(Lookup)
  BY QuietStatics, ReapCode, QuietParks
<1>4. Parking(SwitchToNext)
  BY <1>2, <1>3, QuietBranches, ParkingJoin DEF SwitchToNext
<1>5. Parking(Park)
  BY <1>3, <1>4, QuietBranches, ParkingJoin DEF Park
<1> QED BY <1>4, <1>5, QuietMasked DEF YieldNow

(* block_current, unblock, post and spawn_in *)
LEMMA WakeCode == Quiet(BlockCurrent) /\ Quiet(Unblock) /\ Quiet(Post) /\ Quiet(SpawnIn)
<1>1. Parking(Lookup) /\ Parking(Park) /\ Parking(Opt(SwitchToNext))
  BY QuietStatics, QuietParks, QuietBranches, SwitchCode
<1>2. Parking(Lookup \o Park) /\ Parking(Lookup \o Opt(SwitchToNext))
  BY <1>1, ParkingJoin
<1>3. Quiet(BlockCurrent) /\ Quiet(Unblock)
  BY <1>2, QuietMasked DEF BlockCurrent, Unblock
<1>4. Quiet(Touch("POSTED") \o Touch("WANTED")) /\ Quiet(Lookup \o Do("resched"))
  BY QuietStatics, QuietJoin
<1>5. Quiet(Post)
  BY <1>4, QuietBranches, QuietJoin DEF Post
<1>6. Quiet(SpawnIn)
  BY QuietStatics, QuietJoin DEF SpawnIn
<1> QED BY <1>3, <1>5, <1>6

(* ipc.rs *)
LEMMA DeliverCode ==
  /\ Quiet(Deliver) /\ Quiet(FinishSender) /\ Quiet(Reply) /\ Quiet(Borrow) /\ Quiet(Abandon)
<1>1. Quiet(Deliver) /\ Quiet(FinishSender)
  BY QuietStatics, QuietJoin, WakeCode DEF Deliver, FinishSender
<1>2. Quiet(Deliver \o Opt(FinishSender)) /\ Quiet(Opt(Deliver))
  BY <1>1, QuietBranches, QuietJoin
<1>3. Quiet(Touch("TABLE") \o Opt(Deliver \o Opt(FinishSender))) /\ Quiet(Touch("TABLE") \o Opt(Deliver))
  BY <1>2, QuietStatics, QuietBranches, QuietJoin
<1>4. /\ Quiet(Masked(Touch("TABLE") \o Opt(Deliver \o Opt(FinishSender))))
      /\ Quiet(Masked(Touch("TABLE") \o Opt(Deliver)))
  BY <1>3, QuietParks, QuietMasked
<1>5. Quiet(Reply) /\ Quiet(Borrow)
  BY <1>4, QuietStatics, QuietJoin DEF Reply, Borrow
<1>6. Quiet(Opt(Touch("TABLE") \o Lookup))
  BY QuietStatics, QuietJoin, QuietBranches
<1>7. Quiet(Touch("TABLE") \o Opt(Touch("TABLE") \o Lookup))
  BY <1>6, QuietStatics, QuietJoin
<1>8. Quiet(Abandon)
  BY <1>7, QuietStatics, QuietJoin DEF Abandon
<1> QED BY <1>1, <1>5, <1>8

(* send, along each of its paths *)
LEMMA SendCode == Quiet(Send)
<1>1. /\ Parking(Lookup) /\ Parking(Touch("TABLE")) /\ Parking(Unblock) /\ Parking(Park)
      /\ Parking(Deliver)
  BY QuietStatics, WakeCode, SwitchCode, DeliverCode, QuietParks
<1>2. Parking(Lookup \o Touch("TABLE") \o Unblock \o Park \o Touch("TABLE"))
  <2>1. Parking(Lookup \o Touch("TABLE"))
    BY <1>1, ParkingJoin
  <2>2. Parking(Lookup \o Touch("TABLE") \o Unblock)
    BY <1>1, <2>1, ParkingJoin
  <2>3. Parking(Lookup \o Touch("TABLE") \o Unblock \o Park)
    BY <1>1, <2>2, ParkingJoin
  <2> QED BY <1>1, <2>3, ParkingJoin
<1>3. Parking(Deliver \o OneOf({Touch("TABLE"),
                                Lookup \o Touch("TABLE") \o Unblock \o Park \o Touch("TABLE")}))
  BY <1>1, <1>2, QuietBranches, ParkingJoin
<1>4. Parking(Touch("TABLE") \o Lookup \o Park \o Touch("TABLE"))
  <2>1. Parking(Touch("TABLE") \o Lookup)
    BY <1>1, ParkingJoin
  <2>2. Parking(Touch("TABLE") \o Lookup \o Park)
    BY <1>1, <2>1, ParkingJoin
  <2> QED BY <1>1, <2>2, ParkingJoin
<1>5. Parking(Touch("TABLE") \o
        OneOf({Deliver \o OneOf({Touch("TABLE"),
                                 Lookup \o Touch("TABLE") \o Unblock \o Park \o Touch("TABLE")}),
               Touch("TABLE") \o Lookup \o Park \o Touch("TABLE")}))
  BY <1>1, <1>3, <1>4, QuietBranches, ParkingJoin
<1> QED BY <1>5, QuietMasked, QuietStatics, QuietJoin DEF Send

(* recv, along each of its paths *)
LEMMA RecvCode == Quiet(Recv)
<1> DEFINE look == Touch("POSTED") \o BestSender
           failed == Touch("TABLE") \o Deliver \o FinishSender
           taken == Touch("TABLE") \o Deliver \o Touch("TABLE")
<1>1. /\ Parking(Lookup) /\ Parking(Touch("TABLE")) /\ Parking(Touch("WANTED"))
      /\ Parking(Touch("POSTED")) /\ Parking(Park)
  BY QuietStatics, SwitchCode, QuietParks
<1>2. Parking(RecvPark)
  <2>1. Parking(Touch("WANTED") \o Touch("TABLE"))
    BY <1>1, ParkingJoin
  <2>2. Parking(Touch("WANTED") \o Touch("TABLE") \o Lookup)
    BY <1>1, <2>1, ParkingJoin
  <2>3. Parking(Touch("WANTED") \o Touch("TABLE") \o Lookup \o Park)
    BY <1>1, <2>2, ParkingJoin
  <2>4. Parking(Touch("WANTED") \o Touch("TABLE") \o Lookup \o Park \o Touch("WANTED"))
    BY <1>1, <2>3, ParkingJoin
  <2> QED BY <1>1, <2>4, ParkingJoin DEF RecvPark
<1>3. Parking(look)
  <2>1. Quiet(BestSender)
    BY QuietStatics DEF BestSender, Lookup
  <2> QED BY <2>1, QuietStatics, QuietJoin, QuietParks
<1>4. Parking(failed) /\ Parking(taken)
  <2>1. Quiet(Touch("TABLE") \o Deliver)
    BY QuietStatics, DeliverCode, QuietJoin
  <2>2. Quiet(failed) /\ Quiet(taken)
    BY <2>1, QuietStatics, DeliverCode, QuietJoin
  <2> QED BY <2>2, QuietParks
<1> HIDE DEF look, failed, taken
<1>5. Parking(OneOf({RecvPark, failed})) /\ Parking(OneOf({RecvPark, taken}))
  BY <1>2, <1>4, QuietBranches
<1>6. Parking(look \o OneOf({RecvPark, failed})) /\ Parking(look \o OneOf({RecvPark, taken}))
  BY <1>3, <1>5, ParkingJoin
<1>7. /\ Parking(Opt(look \o OneOf({RecvPark, failed})))
      /\ Parking(OneOf({Touch("POSTED"), look \o OneOf({RecvPark, taken})}))
  BY <1>1, <1>6, QuietBranches
<1>8. Parking(Opt(look \o OneOf({RecvPark, failed}))
                \o OneOf({Touch("POSTED"), look \o OneOf({RecvPark, taken})}))
  BY <1>7, ParkingJoin
<1>9. Quiet(Lookup \o Masked(Opt(look \o OneOf({RecvPark, failed}))
                \o OneOf({Touch("POSTED"), look \o OneOf({RecvPark, taken})})))
  BY <1>8, QuietMasked, QuietStatics, QuietJoin
<1> QED BY <1>9 DEF Recv, look, failed, taken

(* Supervision: wait_for_fault and restart *)
LEMMA SupervisorCode == Quiet(WaitForFault) /\ Quiet(Restart)
<1>1. Parking(Lookup) /\ Parking(Touch("FAULT_WAITERS")) /\ Parking(Park)
  BY QuietStatics, SwitchCode, QuietParks
<1>2. Parking(Lookup \o Lookup \o Touch("FAULT_WAITERS") \o Lookup \o Park \o Touch("FAULT_WAITERS"))
  <2>1. Parking(Lookup \o Lookup)
    BY <1>1, ParkingJoin
  <2>2. Parking(Lookup \o Lookup \o Touch("FAULT_WAITERS"))
    BY <1>1, <2>1, ParkingJoin
  <2>3. Parking(Lookup \o Lookup \o Touch("FAULT_WAITERS") \o Lookup)
    BY <1>1, <2>2, ParkingJoin
  <2>4. Parking(Lookup \o Lookup \o Touch("FAULT_WAITERS") \o Lookup \o Park)
    BY <1>1, <2>3, ParkingJoin
  <2> QED BY <1>1, <2>4, ParkingJoin
<1>3. Quiet(WaitForFault)
  BY <1>1, <1>2, QuietBranches, ParkingJoin, QuietMasked DEF WaitForFault
<1>4. Quiet(Opt(Touch("ALLOCATOR") \o Lookup)) /\ Quiet(Abandon \o Lookup)
  BY QuietStatics, DeliverCode, QuietJoin, QuietBranches
<1>5. Quiet(Restart)
  BY <1>4, QuietJoin DEF Restart
<1> QED BY <1>3, <1>5

-----------------------------------------------------------------------------
(* Code that takes the stack from B to C *)
Leads(a, B, C) == Code(a) /\ \A k : Good(k, C) => Good(a \o k, B)

(* Code that leads from one stack to another, one piece after the other *)
LEMMA LeadsJoin ==
  ASSUME NEW a, NEW b, NEW B, NEW C, Leads(a, B, C), Neutral(b, C)
  PROVE  Leads(a \o b, B, C)
<1>1. Code(a) /\ Code(b) /\ Code(a \o b)
  BY CodeFacts DEF Leads, Neutral
<1>2. ASSUME NEW k, Good(k, C) PROVE Good((a \o b) \o k, B)
  <2>1. Good(a \o (b \o k), B)
    BY <1>2 DEF Leads, Neutral
  <2>2. Code(k)
    BY <1>2, GoodStep
  <2>3. (a \o b) \o k = a \o (b \o k)
    BY <1>1, <2>2, Regroup
  <2> QED BY <2>1, <2>3
<1> QED BY <1>1, <1>2 DEF Leads

(* A task that has left is not run again, whatever it has saved. *)
LEMMA GoneCode ==
  ASSUME NEW k, Code(k), NEW B \in Stacks
  PROVE  Good(Do("gone") \o k, B)
<1>1. PICK i : i = [op |-> "gone"]
  OBVIOUS
<1>2. Do("gone") = <<i>> /\ i.op = "gone"
  BY <1>1 DEF Do
<1>3. Fits(i, B)
  BY <1>2 DEF Fits
<1>4. After(i, k, B) = {}
  BY <1>2 DEF After
<1> QED BY <1>2, <1>3, <1>4, GoodIntro

(* exit_current and fault_current: masked for good, and gone at the switch *)
LEMMA LeaveCode == Quiet(Leave) /\ Quiet(TaskFinished) /\ Quiet(FaultCurrent)
<1>1. ASSUME NEW B, Free(B) PROVE Neutral(Leave, B)
  <2> DEFINE C == Push(B, "disable")
             body == Do("disable") \o ReapZombies \o Hold("SCHEDULER", Touch("SWITCH_LOG"))
                       \o Opt(Touch("EMPTY_SPACE")) \o Do("switch")
  <2>1. Free(C) /\ C # <<>> /\ C \in Stacks
    BY <1>1, FreePush DEF Free
  <2>2. Leads(Do("disable"), B, C)
    <3>1. PICK i : i = [op |-> "disable"]
      OBVIOUS
    <3>2. Do("disable") = <<i>> /\ i.op = "disable"
      BY <3>1 DEF Do
    <3>3. Fits(i, B) /\ \A k : After(i, k, B) = {<<k, C>>}
      BY <3>2 DEF Fits, After
    <3>4. ASSUME NEW k, Good(k, C) PROVE Good(<<i>> \o k, B)
      <4>1. Code(k) /\ B \in Stacks
        BY <1>1, <3>4, GoodStep DEF Free
      <4>2. \A p \in After(i, k, B) : \E d, D : p = <<d, D>> /\ Good(d, D)
        <5> HIDE DEF C
        <5> QED BY <3>3, <3>4
      <4> QED BY <3>3, <4>1, <4>2, GoodIntro
    <3> QED BY <3>2, <3>4, CodeFacts DEF Leads
  <2> HIDE DEF C
  <2>3. /\ Neutral(ReapZombies, C) /\ Neutral(Hold("SCHEDULER", Touch("SWITCH_LOG")), C)
        /\ Neutral(Opt(Touch("EMPTY_SPACE")), C) /\ Neutral(Do("switch"), C)
    BY <2>1, ReapCode, QuietStatics, QuietBranches DEF Quiet, Parking
  <2>4. Leads(body, B, C)
    <3>1. Leads(Do("disable") \o ReapZombies, B, C)
      BY <2>2, <2>3, LeadsJoin
    <3>2. Leads(Do("disable") \o ReapZombies \o Hold("SCHEDULER", Touch("SWITCH_LOG")), B, C)
      BY <2>3, <3>1, LeadsJoin
    <3>3. Leads(Do("disable") \o ReapZombies \o Hold("SCHEDULER", Touch("SWITCH_LOG"))
                  \o Opt(Touch("EMPTY_SPACE")), B, C)
      BY <2>3, <3>2, LeadsJoin
    <3> QED BY <2>3, <3>3, LeadsJoin
  <2> HIDE DEF body
  <2>5. Code(body) /\ Code(Do("gone"))
    BY <2>4, CodeFacts DEF Leads, Do
  <2>6. ASSUME NEW k, Good(k, B) PROVE Good((body \o Do("gone")) \o k, B)
    <3>1. Code(k)
      BY <2>6, GoodStep
    <3>2. Good(body \o (Do("gone") \o k), B)
      BY <2>1, <2>4, <3>1, GoneCode DEF Leads
    <3>3. (body \o Do("gone")) \o k = body \o (Do("gone") \o k)
      BY <2>5, <3>1, CodeFacts
    <3> QED BY <3>2, <3>3
  <2>7. Neutral(body \o Do("gone"), B)
    BY <2>5, <2>6, CodeFacts DEF Neutral
  <2> QED BY <2>7 DEF Leave, body
<1>2. Quiet(Leave)
  BY <1>1 DEF Quiet
<1>3. Quiet(Lookup \o Abandon)
  BY QuietStatics, DeliverCode, QuietJoin
<1>4. Quiet(TaskFinished)
  BY <1>2, <1>3, QuietJoin DEF TaskFinished
<1>5. Quiet(Lookup \o Touch("CONSOLE"))
  BY QuietStatics, QuietJoin
<1>6. Quiet(Lookup \o Touch("CONSOLE") \o Abandon)
  BY <1>5, DeliverCode, QuietJoin
<1>7. Quiet(Lookup \o Touch("CONSOLE") \o Abandon \o Touch("FAULT_WAITERS"))
  BY <1>6, QuietStatics, QuietJoin
<1>8. Quiet(Lookup \o Touch("CONSOLE") \o Abandon \o Touch("FAULT_WAITERS") \o Opt(Lookup))
  BY <1>7, QuietStatics, QuietBranches, QuietJoin
<1>9. Quiet(FaultCurrent)
  BY <1>2, <1>8, QuietJoin DEF FaultCurrent
<1> QED BY <1>2, <1>4, <1>9

(* dispatch_irq: it takes its locks in the trap of whoever was running. *)
LEMMA HandlerCode == Parking(Handler)
<1>1. Parking(Do("preempt"))
  <2> SUFFICES ASSUME NEW B, Free(B), B # <<>> PROVE Neutral(Do("preempt"), B)
    BY DEF Parking
  <2>1. PICK i : i = [op |-> "preempt"]
    OBVIOUS
  <2>2. Do("preempt") = <<i>> /\ i.op = "preempt"
    BY <2>1 DEF Do
  <2>3. Fits(i, B)
    BY <2>2 DEF Fits, Free
  <2>4. \A k : After(i, k, B) = {<<k, B>>, <<SwitchToNext \o k, B>>}
    BY <2>2 DEF After
  <2>5. ASSUME NEW k, Good(k, B) PROVE Good(<<i>> \o k, B)
    <3>1. Good(SwitchToNext \o k, B)
      BY <2>5, SwitchCode DEF Parking, Neutral
    <3>2. Code(k) /\ B \in Stacks
      BY <2>5, GoodStep
    <3>3. \A p \in After(i, k, B) : \E d, D : p = <<d, D>> /\ Good(d, D)
      BY <2>4, <2>5, <3>1
    <3> QED BY <2>3, <3>2, <3>3, GoodIntro
  <2> QED BY <2>2, <2>5, CodeFacts DEF Neutral
<1>2. Quiet(Hold("TICKS", Do("rearm")))
  <2> SUFFICES ASSUME NEW B, Free(B) PROVE Neutral(Hold("TICKS", Do("rearm")), B)
    BY DEF Quiet
  <2>1. Neutral(Do("rearm"), Push(B, "TICKS"))
    BY NeutralDo
  <2>2. "TICKS" \in Guards /\ "TICKS" \notin Held(B)
    BY DEF Guards, Free
  <2> QED BY <2>1, <2>2, NeutralHold
<1>3. Quiet(Touch("ROUTES") \o Opt(Post))
  BY QuietStatics, WakeCode, QuietBranches, QuietJoin
<1>4. Quiet(Touch("ROUTES") \o Opt(Post) \o Do("sample"))
  BY <1>3, QuietStatics, QuietJoin
<1>5. Quiet(Touch("ROUTES") \o Opt(Post) \o Do("sample") \o Hold("TICKS", Do("rearm")))
  BY <1>2, <1>4, QuietJoin
<1>6. Quiet(Touch("ROUTES") \o Opt(Post) \o Do("sample") \o Hold("TICKS", Do("rearm"))
              \o Do("resched"))
  BY <1>5, QuietStatics, QuietJoin
<1>7. Quiet(Touch("ROUTES") \o Opt(Post) \o Do("sample") \o Hold("TICKS", Do("rearm"))
              \o Do("resched") \o Do("eoi"))
  BY <1>6, QuietStatics, QuietJoin
<1> QED BY <1>1, <1>7, QuietParks, ParkingJoin DEF Handler

(* Everything a kernel thread or EL0 can call *)
LEMMA CallsQuiet ==
  /\ \A code \in BootCalls : Quiet(code)
  /\ \A code \in KernelTaskCalls : Quiet(code)
  /\ \A code \in Syscalls : Quiet(code)
<1>1. Quiet(Masked(SpawnIn \o SpawnIn))
  <2>1. Quiet(SpawnIn \o SpawnIn)
    BY WakeCode, QuietJoin
  <2> QED BY <2>1, QuietParks, QuietMasked
<1>2. \A code \in BootCalls : Quiet(code)
  BY <1>1, SwitchCode, WakeCode, DeliverCode, ReapCode, QuietStatics DEF BootCalls
<1>3. \A code \in KernelTaskCalls : Quiet(code)
  BY SwitchCode, WakeCode, QuietStatics, LeaveCode DEF KernelTaskCalls
<1>4. \A code \in Syscalls : Quiet(code)
  BY SwitchCode, SendCode, RecvCode, DeliverCode, SupervisorCode, QuietStatics, QuietBranches,
     LeaveCode DEF Syscalls
<1> QED BY <1>2, <1>3, <1>4

(* The frame of an exception, and what it returns to *)
Trapped == Push(<<>>, "trap")

(* What the stack is after a trap from EL0 or an interrupt *)
LEMMA TrapFacts ==
  /\ Free(<<>>) /\ Free(Trapped) /\ Trapped # <<>>
  /\ \A k : Good(k, <<>>) => Good(Do("eret") \o k, Trapped)
<1>1. Free(<<>>) /\ Free(Trapped) /\ Trapped # <<>>
  BY NoSaves, FreePush DEF Free, Trapped
<1>2. Trapped \in Stacks /\ Top(Trapped) = "trap" /\ Pop(Trapped) = <<>>
  <2>1. "trap" \in Names
    BY DEF Names
  <2> QED BY <2>1, NoSaves, StackPush DEF Trapped
<1>3. PICK i : i = [op |-> "eret"]
  OBVIOUS
<1>4. Do("eret") = <<i>> /\ i.op = "eret"
  BY <1>3 DEF Do
<1>5. Fits(i, Trapped) /\ \A k : After(i, k, Trapped) = {<<k, <<>>>>}
  BY <1>1, <1>2, <1>4 DEF Fits, After
<1>6. ASSUME NEW k, Good(k, <<>>) PROVE Good(<<i>> \o k, Trapped)
  <2>1. Code(k)
    BY <1>6, GoodStep
  <2>2. \A p \in After(i, k, Trapped) : \E d, D : p = <<d, D>> /\ Good(d, D)
    BY <1>5, <1>6
  <2> QED BY <1>2, <1>5, <2>1, <2>2, GoodIntro
<1> QED BY <1>1, <1>4, <1>6

(* What a call, a trap and an interrupt put in front of a task *)
LEMMA EntryCode ==
  /\ \A code : Quiet(code) => Good(code, <<>>) /\ Good(code \o Do("eret"), Trapped)
  /\ \A k : Good(k, <<>>) => Good(<<[op |-> "ack"], [op |-> "eret"]>> \o k, Trapped)
<1>1. ASSUME NEW code, Quiet(code) PROVE Good(code, <<>>) /\ Good(code \o Do("eret"), Trapped)
  <2>1. Neutral(code, <<>>) /\ Neutral(code, Trapped)
    BY <1>1, TrapFacts DEF Quiet
  <2>2. Good(Do("eret"), Trapped)
    <3>1. Good(Do("eret") \o <<>>, Trapped)
      BY GoodEnd, TrapFacts
    <3>2. Do("eret") \o <<>> = Do("eret")
      BY CodeFacts DEF Do
    <3> QED BY <3>1, <3>2
  <2>3. Good(code \o <<>>, <<>>)
    BY <2>1, GoodEnd DEF Neutral
  <2>4. code \o <<>> = code
    BY <2>1, CodeFacts DEF Neutral
  <2>5. Good(code, <<>>)
    BY <2>3, <2>4
  <2>6. Good(code \o Do("eret"), Trapped)
    BY <2>1, <2>2 DEF Neutral
  <2> QED BY <2>5, <2>6
<1>2. ASSUME NEW k, Good(k, <<>>)
      PROVE  Good(<<[op |-> "ack"], [op |-> "eret"]>> \o k, Trapped)
  <2>1. PICK i, j : i = [op |-> "ack"] /\ j = [op |-> "eret"]
    OBVIOUS
  <2>2. Code(k) /\ Good(<<j>> \o k, Trapped)
    BY <1>2, <2>1, TrapFacts, GoodStep DEF Do
  <2>3. Code(<<j>> \o k) /\ Trapped \in Stacks
    BY <2>2, GoodStep
  <2>4. Good(Handler \o (<<j>> \o k), Trapped)
    BY <2>2, HandlerCode, TrapFacts DEF Parking, Neutral
  <2>5. i.op = "ack"
    BY <2>1
  <2>6. Fits(i, Trapped)
    BY <2>5 DEF Fits
  <2>7. After(i, <<j>> \o k, Trapped)
          = {<<<<j>> \o k, Trapped>>, <<Handler \o (<<j>> \o k), Trapped>>}
    BY <2>5 DEF After
  <2>8. \A p \in After(i, <<j>> \o k, Trapped) : \E d, D : p = <<d, D>> /\ Good(d, D)
    BY <2>2, <2>4, <2>7
  <2>9. Good(<<i>> \o (<<j>> \o k), Trapped)
    BY <2>3, <2>6, <2>8, GoodIntro
  <2>10. <<i>> \o (<<j>> \o k) = <<i, j>> \o k
    <3>1. Code(<<i>>) /\ Code(<<j>>)
      BY CodeFacts
    <3>2. (<<i>> \o <<j>>) \o k = <<i>> \o (<<j>> \o k)
      BY <2>2, <3>1, CodeFacts
    <3>3. <<i>> \o <<j>> = <<i, j>>
      BY CodePair
    <3> QED BY <3>2, <3>3
  <2> QED BY <2>1, <2>9, <2>10
<1> QED BY <1>1, <1>2

-----------------------------------------------------------------------------
(***************************************************************************)
(* The inductive invariant once interrupts are on.  Whoever does not have   *)
(* the CPU has not started, or gave it up with a mask to put back and no    *)
(* guard alive; whoever has it runs code that fits its stack, masked        *)
(* exactly while there is something on that stack.                          *)
(***************************************************************************)
MachineType ==
  /\ current \in Tasks /\ masked \in BOOLEAN
  /\ todo = [t \in Tasks |-> todo[t]] /\ saved = [t \in Tasks |-> saved[t]]

Waiting(t) == saved[t] = <<>> /\ \E k : Good(k, <<>>) /\ todo[t] = Do("trampoline") \o k

Parked(t) ==
  \/ Waiting(t)
  \/ Good(todo[t], saved[t]) /\ Free(saved[t]) /\ saved[t] # <<>>

Running ==
  \/ Waiting(current) /\ masked
  \/ Good(todo[current], saved[current]) /\ (masked <=> saved[current] # <<>>)

LiveInv == Running /\ \A t \in Tasks \ {current} : Parked(t)

(* A task not yet started stands before its trampoline. *)
LEMMA WaitingHead ==
  ASSUME NEW t, Waiting(t)
  PROVE  /\ todo[t] # <<>> /\ Head(todo[t]).op = "trampoline"
         /\ Good(Tail(todo[t]), <<>>) /\ saved[t] = <<>>
<1>1. PICK k : Good(k, <<>>) /\ todo[t] = Do("trampoline") \o k /\ saved[t] = <<>>
  BY DEF Waiting
<1>2. PICK i : i = [op |-> "trampoline"]
  OBVIOUS
<1>3. Do("trampoline") = <<i>> /\ i.op = "trampoline"
  BY <1>2 DEF Do
<1>4. Code(k)
  BY <1>1, GoodStep
<1>5. todo[t] # <<>> /\ Head(todo[t]) = i /\ Tail(todo[t]) = k
  BY <1>1, <1>3, <1>4, CodeAhead
<1> QED BY <1>1, <1>3, <1>5

(* The save that is put back is the last one. *)
LEMMA RestoreTop ==
  ASSUME NEW B \in Seq(Saves), NEW by, saved[current] = B, B # <<>>, Top(B) = by, Restore(by)
  PROVE  masked' = B[Len(B)].mask
         /\ saved' = [saved EXCEPT ![current] =
                        SubSeq(B, 1, Len(B) - 1) \o SubSeq(B, Len(B) + 1, Len(B))]
<1>1. Len(B) \in Nat \ {0} /\ DOMAIN B = 1 .. Len(B) /\ Len(B) \in DOMAIN B
  BY EmptySeq, LenProperties
<1> DEFINE Youngest(k) == B[k].by = by /\ \A j \in k + 1 .. Len(B) : B[j].by # by
<1>2. Youngest(Len(B))
  <2>1. \A j : j \notin Len(B) + 1 .. Len(B)
    BY <1>1
  <2> QED BY <2>1 DEF Top
<1>3. ASSUME NEW k \in DOMAIN B, Youngest(k) PROVE k = Len(B)
  <2>1. k \in 1 .. Len(B) /\ (k # Len(B) => Len(B) \in k + 1 .. Len(B))
    BY <1>1
  <2> QED BY <1>3, <2>1 DEF Top
<1>4. (CHOOSE k \in DOMAIN B : Youngest(k)) = Len(B)
  BY <1>1, <1>2, <1>3
<1> QED BY <1>4 DEF Restore

(* A step of the task that has the CPU, to code and a stack that fit *)
LEMMA StepCurrent ==
  ASSUME MachineType, LiveInv, NEW d, NEW D, Good(d, D),
         todo' = [todo EXCEPT ![current] = d], saved' = [saved EXCEPT ![current] = D],
         current' = current, masked' \in BOOLEAN, masked' <=> D # <<>>
  PROVE  MachineType' /\ LiveInv'
<1>1. MachineType' /\ todo'[current] = d /\ saved'[current] = D
  BY DEF MachineType
<1>2. Running'
  BY <1>1 DEF Running
<1>3. \A t \in Tasks \ {current} : todo'[t] = todo[t] /\ saved'[t] = saved[t]
  BY DEF MachineType
<1>4. \A t \in Tasks \ {current'} : Parked(t)'
  BY <1>3 DEF LiveInv, Parked, Waiting
<1> QED BY <1>1, <1>2, <1>4 DEF LiveInv

(* Interrupts are on: what an instruction does to the invariant *)
LEMMA ExecuteLive ==
  ASSUME MachineType, LiveInv, Execute
  PROVE  MachineType' /\ LiveInv'
<1> DEFINE c == todo[current]
           B == saved[current]
<1>1. c # <<>>
  BY DEF Execute, At, Branch, DisableInterrupts, TakeLock, RestoreInterrupts, LockedStatement,
         Start, EnableInterrupts, Switch, InitController, RequestReschedule, Sample, Advance,
         EndOfInterrupt, PreemptIfNeeded, Acknowledge, Spurious
<1>2. CASE Waiting(current) /\ masked
  <2>1. Head(c).op = "trampoline" /\ Good(Tail(c), <<>>) /\ B = <<>>
    BY <1>2, WaitingHead
  <2>2. Start
    BY <2>1 DEF Execute, At, Branch, DisableInterrupts, TakeLock, RestoreInterrupts,
         LockedStatement, EnableInterrupts, Switch, InitController, RequestReschedule, Sample,
         Advance, EndOfInterrupt, PreemptIfNeeded, Acknowledge, Spurious
  <2>3. /\ todo' = [todo EXCEPT ![current] = Tail(c)] /\ saved' = saved
        /\ current' = current /\ masked' = FALSE
    BY <2>2 DEF Start, Continue
  <2>4. saved' = [saved EXCEPT ![current] = <<>>]
    BY <2>1, <2>3 DEF MachineType
  <2> QED BY <2>1, <2>3, <2>4, StepCurrent
<1>3. CASE Good(c, B) /\ (masked <=> B # <<>>)
  <2>1. /\ Fits(Head(c), B) /\ Code(Tail(c)) /\ B \in Stacks
        /\ \A d, D : <<d, D>> \in After(Head(c), Tail(c), B) => Good(d, D)
    BY <1>1, <1>3, GoodStep
  <2>2. PICK i, k : i = Head(c) /\ k = Tail(c)
    OBVIOUS
  <2>3. saved = [saved EXCEPT ![current] = B]
    BY DEF MachineType
  <2>4. \A op : At(op) => i.op = op
    BY <2>2 DEF At
  <2>5. Continue => todo' = [todo EXCEPT ![current] = k]
    BY <2>2 DEF Continue
  <2>6. (B # <<>>) = masked
    BY <1>3 DEF MachineType
  <2>7. i.op \notin {"trampoline", "enable", "gicInit", "timerInit"}
    BY <2>1, <2>2 DEF Fits
  <2>8. CASE Branch
    <3>1. At("branch") /\ current' = current /\ masked' = masked /\ saved' = saved
      BY <2>8 DEF Branch
    <3>2. PICK code \in i.codes : todo' = [todo EXCEPT ![current] = code \o k]
      BY <2>2, <2>8 DEF Branch
    <3>3. <<code \o k, B>> \in After(i, k, B)
      BY <2>4, <3>1, <3>2 DEF After
    <3>4. Good(code \o k, B)
      BY <2>1, <2>2, <3>3
    <3> QED BY <1>3, <2>3, <3>1, <3>2, <3>4, StepCurrent DEF MachineType
  <2>9. CASE DisableInterrupts \/ TakeLock
    <3>1. PICK by \in Names : /\ saved' = [saved EXCEPT ![current] = Push(B, by)]
                              /\ After(i, k, B) = {<<k, Push(B, by)>>}
      <4>1. CASE DisableInterrupts
        <5>1. i.op = "disable" /\ Save("disable")
          BY <2>4, <4>1 DEF DisableInterrupts
        <5>2. saved' = [saved EXCEPT ![current] = Push(B, "disable")]
          BY <2>6, <5>1 DEF Save, Push
        <5>3. After(i, k, B) = {<<k, Push(B, "disable")>>} /\ "disable" \in Names
          BY <5>1 DEF After, Names
        <5> QED BY <5>2, <5>3
      <4>2. CASE TakeLock
        <5>1. i.op = "lock" /\ Save(i.lock)
          BY <2>2, <2>4, <4>2 DEF TakeLock, Arg
        <5>2. saved' = [saved EXCEPT ![current] = Push(B, i.lock)]
          BY <2>6, <5>1 DEF Save, Push
        <5>3. After(i, k, B) = {<<k, Push(B, i.lock)>>} /\ i.lock \in Names
          BY <2>1, <2>2, <5>1 DEF After, Fits, Names
        <5> QED BY <5>2, <5>3
      <4> QED BY <2>9, <4>1, <4>2
    <3>2. /\ todo' = [todo EXCEPT ![current] = k] /\ current' = current /\ masked' = TRUE
      BY <2>5, <2>9 DEF DisableInterrupts, TakeLock
    <3>3. Good(k, Push(B, by)) /\ Push(B, by) # <<>>
      BY <2>1, <2>2, <3>1, StackPush
    <3> QED BY <3>1, <3>2, <3>3, StepCurrent
  <2>10. CASE RestoreInterrupts
    <3>1. PICK by : B # <<>> /\ Top(B) = by /\ Restore(by) /\ i.op \in {"restore", "drop", "eret"}
      BY <2>1, <2>2, <2>4, <2>10 DEF RestoreInterrupts, Fits, Arg
    <3>2. masked' = B[Len(B)].mask /\ saved' = [saved EXCEPT ![current] = Pop(B)]
      <4>1. B \in Seq(Saves)
        BY <2>1 DEF Stacks
      <4>2. SubSeq(B, 1, Len(B) - 1) \o SubSeq(B, Len(B) + 1, Len(B)) = Pop(B)
        BY <2>1, <3>1, StackPop
      <4> QED BY <3>1, <4>1, <4>2, RestoreTop
    <3>3. masked' \in BOOLEAN /\ (masked' <=> Pop(B) # <<>>)
      BY <2>1, <3>1, <3>2, StackPop
    <3>4. todo' = [todo EXCEPT ![current] = k] /\ current' = current
      BY <2>5, <2>10 DEF RestoreInterrupts
    <3>5. After(i, k, B) = {<<k, Pop(B)>>}
      BY <3>1 DEF After
    <3>6. Good(k, Pop(B))
      BY <2>1, <2>2, <3>5
    <3> QED BY <3>2, <3>3, <3>4, <3>6, StepCurrent
  <2>11. CASE \/ LockedStatement \/ RequestReschedule \/ Sample \/ Advance \/ EndOfInterrupt
              \/ Spurious
    <3>1. /\ todo' = [todo EXCEPT ![current] = k]
          /\ current' = current /\ masked' = masked /\ saved' = saved
      BY <2>5, <2>11 DEF LockedStatement, RequestReschedule, Sample, Advance, EndOfInterrupt, Spurious
    <3>2. i.op \in {"touch", "resched", "sample", "rearm", "eoi", "ack"}
      BY <2>4, <2>11 DEF LockedStatement, RequestReschedule, Sample, Advance, EndOfInterrupt, Spurious
    <3>3. <<k, B>> \in After(i, k, B)
      BY <3>2 DEF After
    <3>4. Good(k, B)
      BY <2>1, <2>2, <3>3
    <3> QED BY <1>3, <2>3, <3>1, <3>4, StepCurrent DEF MachineType
  <2>12. CASE EnableInterrupts
    <3>1. i.op = "enterEl0" /\ B = <<>>
      BY <2>1, <2>2, <2>4, <2>7, <2>12 DEF EnableInterrupts, Fits
    <3>2. /\ todo' = [todo EXCEPT ![current] = k]
          /\ current' = current /\ masked' = FALSE /\ saved' = saved
      BY <2>5, <2>12 DEF EnableInterrupts
    <3>3. <<k, B>> \in After(i, k, B)
      BY <3>1 DEF After
    <3>4. Good(k, B)
      BY <2>1, <2>2, <3>3
    <3> QED BY <2>3, <3>1, <3>2, <3>4, StepCurrent
  <2>13. CASE PreemptIfNeeded
    <3>1. PICK first \in {<<>>, SwitchToNext} : todo' = [todo EXCEPT ![current] = first \o k]
      BY <2>2, <2>13 DEF PreemptIfNeeded
    <3>2. i.op = "preempt" /\ current' = current /\ masked' = masked /\ saved' = saved
      BY <2>4, <2>13 DEF PreemptIfNeeded
    <3>3. <<k, B>> \in After(i, k, B) /\ <<SwitchToNext \o k, B>> \in After(i, k, B)
      BY <3>2 DEF After
    <3>4. <<>> \o k = k
      BY <2>1, <2>2, CodeFacts
    <3>5. Good(first \o k, B)
      BY <2>1, <2>2, <3>1, <3>3, <3>4
    <3> QED BY <1>3, <2>3, <3>1, <3>2, <3>5, StepCurrent DEF MachineType
  <2>14. CASE Acknowledge
    <3>1. /\ todo' = [todo EXCEPT ![current] = Handler \o k] /\ i.op = "ack"
          /\ current' = current /\ masked' = masked /\ saved' = saved
      BY <2>2, <2>4, <2>14 DEF Acknowledge
    <3>2. <<Handler \o k, B>> \in After(i, k, B)
      BY <3>1 DEF After
    <3>3. Good(Handler \o k, B)
      BY <2>1, <2>2, <3>2
    <3> QED BY <1>3, <2>3, <3>1, <3>3, StepCurrent DEF MachineType
  <2>15. CASE Switch
    <3>1. /\ todo' = [todo EXCEPT ![current] = k] /\ i.op = "switch"
          /\ masked' = masked /\ saved' = saved /\ current' \in Tasks
      <4>1. Others \subseteq Tasks
        BY DEF Others
      <4> QED BY <2>4, <2>5, <2>15, <4>1 DEF Switch, MachineType
    <3>2. <<k, B>> \in After(i, k, B) /\ B # <<>> /\ Free(B)
      BY <2>1, <2>2, <3>1 DEF After, Fits, Free
    <3>3. Good(k, B) /\ masked
      BY <1>3, <2>1, <2>2, <3>2
    <3>4. \A t \in Tasks : Parked(t)'
      <4>1. \A t \in Tasks \ {current} : todo'[t] = todo[t] /\ saved'[t] = saved[t]
        BY <3>1 DEF MachineType
      <4>2. \A t \in Tasks \ {current} : Parked(t)'
        BY <4>1 DEF LiveInv, Parked, Waiting
      <4>3. todo'[current] = k /\ saved'[current] = B
        BY <3>1 DEF MachineType
      <4>4. PICK t : t = current
        OBVIOUS
      <4>5. Parked(t)'
        BY <3>2, <3>3, <4>3, <4>4 DEF Parked
      <4> QED BY <4>2, <4>4, <4>5
    <3>5. Parked(current)'
      BY <3>1, <3>4
    <3>6. Running'
      BY <3>1, <3>3, <3>5 DEF Running, Parked
    <3>7. MachineType'
      BY <3>1 DEF MachineType
    <3> QED BY <3>4, <3>6, <3>7 DEF LiveInv
  <2>16. ~Start /\ ~InitController
    BY <2>4, <2>7 DEF Start, InitController
  <2> QED BY <2>8, <2>9, <2>10, <2>11, <2>12, <2>13, <2>14, <2>15, <2>16 DEF Execute
<1> QED BY <1>2, <1>3 DEF LiveInv, Running

(* ... and what a call, a trap and an interrupt do *)
LEMMA EnterLive ==
  ASSUME MachineType, LiveInv, Call \/ Trap \/ TakeIrq
  PROVE  MachineType' /\ LiveInv'
<1> DEFINE c == todo[current]
           B == saved[current]
<1>1. Good(c, B) /\ (masked <=> B # <<>>) /\ B = <<>> /\ ~masked
  <2>1. CASE Waiting(current) /\ masked
    BY <2>1, WaitingHead DEF Call, Trap, TakeIrq
  <2>2. CASE Good(c, B) /\ (masked <=> B # <<>>)
    BY <2>2, GoodStep DEF Call, Trap, TakeIrq, Ends
  <2> QED BY <2>1, <2>2 DEF LiveInv, Running
<1>2. CASE Call
  <2>1. PICK code : todo' = [todo EXCEPT ![current] = code] /\ Quiet(code)
    BY <1>2, CallsQuiet DEF Call
  <2>2. current' = current /\ masked' = masked /\ saved' = saved
    BY <1>2 DEF Call
  <2>3. saved' = [saved EXCEPT ![current] = <<>>]
    BY <1>1, <2>2 DEF MachineType
  <2>4. Good(code, <<>>)
    BY <2>1, EntryCode
  <2> QED BY <1>1, <2>1, <2>2, <2>3, <2>4, StepCurrent DEF MachineType
<1>3. Save("trap") => saved' = [saved EXCEPT ![current] = Trapped]
  <2>1. (B # <<>>) = masked
    BY <1>1 DEF MachineType
  <2> QED BY <1>1, <2>1 DEF Save, Push, Trapped
<1>4. CASE Trap
  <2>1. PICK code : todo' = [todo EXCEPT ![current] = code \o Do("eret")] /\ Quiet(code)
    BY <1>4, CallsQuiet DEF Trap
  <2>2. /\ current' = current /\ masked' = TRUE /\ saved' = [saved EXCEPT ![current] = Trapped]
    BY <1>3, <1>4 DEF Trap
  <2>3. Good(code \o Do("eret"), Trapped)
    BY <2>1, EntryCode
  <2> QED BY <2>1, <2>2, <2>3, TrapFacts, StepCurrent
<1>5. CASE TakeIrq
  <2>1. /\ todo' = [todo EXCEPT ![current] = <<[op |-> "ack"], [op |-> "eret"]>> \o c]
        /\ current' = current /\ masked' = TRUE /\ saved' = [saved EXCEPT ![current] = Trapped]
    BY <1>3, <1>5 DEF TakeIrq
  <2>2. PICK d : d = <<[op |-> "ack"], [op |-> "eret"]>> \o c
    OBVIOUS
  <2>3. Good(d, Trapped)
    BY <1>1, <2>2, EntryCode
  <2>4. todo' = [todo EXCEPT ![current] = d]
    BY <2>1, <2>2
  <2> QED BY <2>1, <2>3, <2>4, TrapFacts, StepCurrent
<1> QED BY <1>2, <1>4, <1>5

-----------------------------------------------------------------------------
(***************************************************************************)
(* The boot thread, until it turns interrupts on: its one probe of a lock   *)
(* runs with interrupts on, and nothing is enabled that could use that.     *)
(***************************************************************************)
Rest9 == Do("enable")
Rest8 == Do("timerInit") \o Rest9
Rest7 == Do("gicInit") \o Rest8
Rest6 == Do("restore") \o Rest7
Rest5 == <<[op |-> "drop", lock |-> "PROBE"]>> \o Rest6
Rest4 == Touch("OTHER") \o Rest5
Rest3 == <<[op |-> "lock", lock |-> "PROBE"]>> \o Rest4
Rest2 == Do("enable") \o Rest3
Rest1 == Do("disable") \o Rest2

ProbeMask == [by |-> "disable", mask |-> TRUE]
ProbeGuard == [by |-> "PROBE", mask |-> FALSE]

BootAt(rest, stack, mask) == todo[0] = rest /\ saved[0] = stack /\ masked = mask

BootInv ==
  /\ current = 0 /\ \A t \in Tasks \ {0} : Waiting(t)
  /\ \/ /\ lineEnabled = FALSE
        /\ \/ BootAt(Rest1, <<>>, TRUE)
           \/ BootAt(Rest2, <<ProbeMask>>, TRUE)
           \/ BootAt(Rest3, <<ProbeMask>>, FALSE)
           \/ BootAt(Rest4, <<ProbeMask, ProbeGuard>>, TRUE)
           \/ BootAt(Rest5, <<ProbeMask, ProbeGuard>>, TRUE)
           \/ BootAt(Rest6, <<ProbeMask>>, FALSE)
           \/ BootAt(Rest7, <<>>, TRUE)
           \/ BootAt(Rest8, <<>>, TRUE)
     \/ BootAt(Rest9, <<>>, TRUE)

(* c begins with i, and k is behind it. *)
Begins(c, i, k) == c # <<>> /\ Head(c) = i /\ Tail(c) = k

(* Boot, cut into its instructions *)
LEMMA BootCode ==
  /\ Boot = Rest1
  /\ Begins(Rest1, [op |-> "disable"], Rest2) /\ Begins(Rest2, [op |-> "enable"], Rest3)
  /\ Begins(Rest3, [op |-> "lock", lock |-> "PROBE"], Rest4)
  /\ Begins(Rest4, [op |-> "touch", lock |-> "OTHER"], Rest5)
  /\ Begins(Rest5, [op |-> "drop", lock |-> "PROBE"], Rest6)
  /\ Begins(Rest6, [op |-> "restore"], Rest7) /\ Begins(Rest7, [op |-> "gicInit"], Rest8)
  /\ Begins(Rest8, [op |-> "timerInit"], Rest9) /\ Begins(Rest9, [op |-> "enable"], <<>>)
<1>1. Code(Rest9) /\ Begins(Rest9, [op |-> "enable"], <<>>)
  <2>1. Rest9 = <<[op |-> "enable"]>> \o <<>>
    BY CodeFacts DEF Rest9, Do
  <2> QED BY <2>1, CodeFacts, CodeAhead DEF Begins
<1>2. \A i, k : Code(k) => Code(<<i>> \o k) /\ Begins(<<i>> \o k, i, k)
  BY CodeAhead DEF Begins
<1>3. Code(Rest8) /\ Begins(Rest8, [op |-> "timerInit"], Rest9)
  BY <1>1, <1>2 DEF Rest8, Do
<1>4. Code(Rest7) /\ Begins(Rest7, [op |-> "gicInit"], Rest8)
  BY <1>2, <1>3 DEF Rest7, Do
<1>5. Code(Rest6) /\ Begins(Rest6, [op |-> "restore"], Rest7)
  BY <1>2, <1>4 DEF Rest6, Do
<1>6. Code(Rest5) /\ Begins(Rest5, [op |-> "drop", lock |-> "PROBE"], Rest6)
  BY <1>2, <1>5 DEF Rest5
<1>7. Code(Rest4) /\ Begins(Rest4, [op |-> "touch", lock |-> "OTHER"], Rest5)
  BY <1>2, <1>6 DEF Rest4, Touch
<1>8. Code(Rest3) /\ Begins(Rest3, [op |-> "lock", lock |-> "PROBE"], Rest4)
  BY <1>2, <1>7 DEF Rest3
<1>9. Code(Rest2) /\ Begins(Rest2, [op |-> "enable"], Rest3)
  BY <1>2, <1>8 DEF Rest2, Do
<1>10. Code(Rest1) /\ Begins(Rest1, [op |-> "disable"], Rest2)
  BY <1>2, <1>9 DEF Rest1, Do
<1>11. Boot = Rest1
  <2> DEFINE D == Do("disable")
             E == Do("enable")
             L == <<[op |-> "lock", lock |-> "PROBE"]>>
             T == Touch("OTHER")
             G == <<[op |-> "drop", lock |-> "PROBE"]>>
             R == Do("restore")
             I == Do("gicInit")
             U == Do("timerInit")
  <2>1. Code(D) /\ Code(E) /\ Code(L) /\ Code(T) /\ Code(G) /\ Code(R) /\ Code(I) /\ Code(U)
    BY CodeFacts DEF Do, Touch
  <2>2. Boot = ((((D \o (E \o ((L \o T) \o G))) \o R) \o I) \o U) \o E
    BY DEF Boot, Masked, Hold
  <2>3. Rest1 = D \o (E \o (L \o (T \o (G \o (R \o (I \o (U \o E)))))))
    BY DEF Rest1, Rest2, Rest3, Rest4, Rest5, Rest6, Rest7, Rest8, Rest9
  <2> HIDE DEF D, E, L, T, G, R, I, U
  <2> DEFINE Then(a, b) == a \o b
  <2>4. \A a, b : Code(a) /\ Code(b) => Code(Then(a, b))
    BY CodeFacts
  <2>5. \A a, b, k : Code(a) /\ Code(b) /\ Code(k) => Then(Then(a, b), k) = Then(a, Then(b, k))
    BY CodeFacts
  <2> HIDE DEF Then
  <2>6. Then(Then(Then(Then(Then(D, Then(E, Then(Then(L, T), G))), R), I), U), E)
          = Then(D, Then(E, Then(L, Then(T, Then(G, Then(R, Then(I, Then(U, E))))))))
    <3>1. PICK x : x = Then(Then(L, T), G) /\ Code(x)
      BY <2>1, <2>4
    <3>2. PICK y : y = Then(U, E) /\ Code(y)
      BY <2>1, <2>4
    <3>3. PICK z : z = Then(I, y) /\ Code(z)
      BY <2>1, <2>4, <3>2
    <3>4. PICK w : w = Then(R, z) /\ Code(w)
      BY <2>1, <2>4, <3>3
    <3>5. PICK v : v = Then(D, Then(E, x)) /\ Code(v) /\ Code(Then(E, x))
      BY <2>1, <2>4, <3>1
    <3>6. Then(Then(Then(Then(v, R), I), U), E) = Then(v, w)
      <4>1. Code(Then(v, R)) /\ Code(Then(Then(v, R), I))
        BY <2>1, <2>4, <3>5
      <4>2. Then(Then(Then(Then(v, R), I), U), E) = Then(Then(Then(v, R), I), y)
        BY <2>1, <2>5, <3>2, <4>1
      <4>3. Then(Then(Then(v, R), I), y) = Then(Then(v, R), z)
        BY <2>1, <2>5, <3>2, <3>3, <4>1
      <4>4. Then(Then(v, R), z) = Then(v, w)
        BY <2>1, <2>5, <3>3, <3>4, <3>5
      <4> QED BY <4>2, <4>3, <4>4
    <3>7. Then(v, w) = Then(D, Then(Then(E, x), w)) /\ Then(Then(E, x), w) = Then(E, Then(x, w))
      BY <2>1, <2>5, <3>1, <3>4, <3>5
    <3>8. Then(x, w) = Then(L, Then(T, Then(G, w)))
      <4>1. Code(Then(L, T)) /\ Code(Then(G, w))
        BY <2>1, <2>4, <3>4
      <4>2. Then(x, w) = Then(Then(L, T), Then(G, w))
        BY <2>1, <2>5, <3>1, <3>4, <4>1
      <4>3. Then(Then(L, T), Then(G, w)) = Then(L, Then(T, Then(G, w)))
        BY <2>1, <2>5, <4>1
      <4> QED BY <4>2, <4>3
    <3> QED BY <3>1, <3>2, <3>3, <3>4, <3>5, <3>6, <3>7, <3>8
  <2> QED BY <2>2, <2>3, <2>6 DEF Then
<1> QED BY <1>1, <1>3, <1>4, <1>5, <1>6, <1>7, <1>8, <1>9, <1>10, <1>11

(* The two saves of the probe, put back in turn *)
LEMMA ProbeSaves ==
  /\ <<ProbeMask>> \in Seq(Saves) /\ <<ProbeMask>> # <<>> /\ Top(<<ProbeMask>>) = "disable"
  /\ <<ProbeMask>>[Len(<<ProbeMask>>)].mask = TRUE
  /\ SubSeq(<<ProbeMask>>, 1, Len(<<ProbeMask>>) - 1)
       \o SubSeq(<<ProbeMask>>, Len(<<ProbeMask>>) + 1, Len(<<ProbeMask>>)) = <<>>
  /\ <<ProbeMask, ProbeGuard>> \in Seq(Saves) /\ <<ProbeMask, ProbeGuard>> # <<>>
  /\ Top(<<ProbeMask, ProbeGuard>>) = "PROBE"
  /\ <<ProbeMask, ProbeGuard>>[Len(<<ProbeMask, ProbeGuard>>)].mask = FALSE
  /\ SubSeq(<<ProbeMask, ProbeGuard>>, 1, Len(<<ProbeMask, ProbeGuard>>) - 1)
       \o SubSeq(<<ProbeMask, ProbeGuard>>, Len(<<ProbeMask, ProbeGuard>>) + 1,
                 Len(<<ProbeMask, ProbeGuard>>)) = <<ProbeMask>>
  /\ Append(<<>>, ProbeMask) = <<ProbeMask>>
  /\ Append(<<ProbeMask>>, ProbeGuard) = <<ProbeMask, ProbeGuard>>
<1>1. PICK x \in Saves, y \in Saves : x = ProbeMask /\ y = ProbeGuard
  BY DEF Saves, Names, Guards, ProbeMask, ProbeGuard
<1>2. x.by = "disable" /\ x.mask = TRUE /\ y.by = "PROBE" /\ y.mask = FALSE
  BY <1>1 DEF ProbeMask, ProbeGuard
<1>3. /\ <<x>> \in Seq(Saves) /\ <<x>> # <<>> /\ Len(<<x>>) = 1 /\ <<x>>[1] = x
      /\ <<x, y>> \in Seq(Saves) /\ <<x, y>> # <<>> /\ Len(<<x, y>>) = 2
      /\ <<x, y>>[1] = x /\ <<x, y>>[2] = y
  OBVIOUS
<1>4. SubSeq(<<x>>, 1, 0) = <<>> /\ SubSeq(<<x>>, 2, 1) = <<>> /\ SubSeq(<<x, y>>, 3, 2) = <<>>
  BY SubSeqEmpty
<1>5. SubSeq(<<x, y>>, 1, 1) = <<x>>
  <2>1. \A n \in 1 .. 1 : n = 1
    OBVIOUS
  <2>2. \A n \in 1 .. 1 : <<x, y>>[n] \in Saves
    BY <1>3, <2>1
  <2>3. /\ SubSeq(<<x, y>>, 1, 1) \in Seq(Saves) /\ Len(SubSeq(<<x, y>>, 1, 1)) = 1
        /\ SubSeq(<<x, y>>, 1, 1)[1] = x
    BY <1>3, <2>2, SubSeqProperties
  <2> QED BY <1>3, <2>1, <2>3, SeqEqual
<1>6. <<>> \o <<>> = <<>> /\ <<x>> \o <<>> = <<x>>
  BY CodeFacts
<1>7. Append(<<>>, x) = <<x>> /\ Append(<<x>>, y) = <<x, y>>
  <2>1. Append(<<>>, x) = <<>> \o <<x>> /\ Append(<<x>>, y) = <<x>> \o <<y>>
    BY <1>3, EmptySeq, AppendIsConcat
  <2>2. <<>> \o <<x>> = <<x>> /\ <<x>> \o <<y>> = <<x, y>>
    BY CodeFacts, CodePair
  <2> QED BY <2>1, <2>2
<1>8. /\ Top(<<x>>) = "disable" /\ <<x>>[Len(<<x>>)].mask = TRUE
      /\ Top(<<x, y>>) = "PROBE" /\ <<x, y>>[Len(<<x, y>>)].mask = FALSE
  BY <1>2, <1>3 DEF Top
<1>9. SubSeq(<<x>>, 1, Len(<<x>>) - 1) \o SubSeq(<<x>>, Len(<<x>>) + 1, Len(<<x>>)) = <<>>
  <2>1. Len(<<x>>) - 1 = 0 /\ Len(<<x>>) + 1 = 2
    BY <1>3
  <2> QED BY <1>3, <1>4, <1>6, <2>1
<1>10. SubSeq(<<x, y>>, 1, Len(<<x, y>>) - 1) \o SubSeq(<<x, y>>, Len(<<x, y>>) + 1, Len(<<x, y>>))
         = <<x>>
  <2>1. Len(<<x, y>>) - 1 = 1 /\ Len(<<x, y>>) + 1 = 3
    BY <1>3
  <2> QED BY <1>3, <1>4, <1>5, <1>6, <2>1
<1> QED BY <1>1, <1>3, <1>7, <1>8, <1>9, <1>10

(* Which instruction the boot thread is at decides what it does. *)
LEMMA BootExecutes ==
  ASSUME current = 0, NEW i, NEW k, Begins(todo[0], i, k), Execute
  PROVE  /\ i.op = "disable" => DisableInterrupts
         /\ i.op = "enable" => EnableInterrupts
         /\ i.op = "lock" => TakeLock
         /\ i.op = "touch" => LockedStatement
         /\ i.op \in {"drop", "restore"} => RestoreInterrupts
         /\ i.op \in {"gicInit", "timerInit"} => InitController
         /\ \A op : At(op) <=> i.op = op
         /\ Arg = i.lock
         /\ Continue => todo' = [todo EXCEPT ![0] = k]
<1>1. \A op : At(op) <=> i.op = op
  BY DEF At, Begins
<1>2. Arg = i.lock
  BY DEF Arg, Begins
<1>3. Continue => todo' = [todo EXCEPT ![0] = k]
  BY DEF Continue, Begins
<1>4. /\ i.op = "disable" => DisableInterrupts
      /\ i.op = "enable" => EnableInterrupts
      /\ i.op = "lock" => TakeLock
      /\ i.op = "touch" => LockedStatement
      /\ i.op \in {"drop", "restore"} => RestoreInterrupts
      /\ i.op \in {"gicInit", "timerInit"} => InitController
  BY <1>1 DEF Execute, Branch, DisableInterrupts, TakeLock, RestoreInterrupts, LockedStatement,
         Start, EnableInterrupts, Switch, InitController, RequestReschedule, Sample, Advance,
         EndOfInterrupt, PreemptIfNeeded, Acknowledge, Spurious
<1> QED BY <1>1, <1>2, <1>3, <1>4

(* One instruction further *)
LEMMA BootMove ==
  ASSUME MachineType, BootInv, NEW k, NEW B, NEW m \in BOOLEAN,
         todo' = [todo EXCEPT ![0] = k], saved' = [saved EXCEPT ![0] = B],
         current' = current, masked' = m
  PROVE  /\ MachineType' /\ BootAt(k, B, m)' /\ current' = 0
         /\ \A t \in Tasks \ {0} : Waiting(t)'
<1>1. 0 \in Tasks
  BY DEF Tasks
<1>2. MachineType' /\ BootAt(k, B, m)'
  BY <1>1 DEF MachineType, BootAt
<1>3. \A t \in Tasks \ {0} : todo'[t] = todo[t] /\ saved'[t] = saved[t]
  BY DEF MachineType
<1> QED BY <1>2, <1>3 DEF BootInv, Waiting

(* An instruction of the boot thread keeps to its path, or ends it. *)
LEMMA BootStep ==
  ASSUME MachineType, BootInv, Execute
  PROVE  MachineType' /\ (BootInv' \/ LiveInv')
<1> USE BootMove
<1>1. current = 0 /\ saved = [saved EXCEPT ![0] = saved[0]]
  BY DEF MachineType, BootInv
<1>2. CASE lineEnabled = FALSE /\ BootAt(Rest1, <<>>, TRUE)
  <2>1. PICK i : Begins(todo[0], i, Rest2) /\ i.op = "disable"
    BY <1>2, BootCode DEF BootAt
  <2>2. DisableInterrupts /\ todo' = [todo EXCEPT ![0] = Rest2]
    <3>1. DisableInterrupts
      BY <1>1, <2>1, BootExecutes
    <3>2. Continue
      BY <3>1 DEF DisableInterrupts
    <3> QED BY <1>1, <2>1, <3>1, <3>2, BootExecutes
  <2>3. saved' = [saved EXCEPT ![0] = <<ProbeMask>>]
    BY <1>1, <1>2, <2>2, ProbeSaves DEF DisableInterrupts, Save, BootAt, ProbeMask
  <2>4. current' = current /\ masked' = TRUE /\ lineEnabled' = FALSE
    BY <1>2, <2>2 DEF DisableInterrupts
  <2>5. MachineType' /\ BootAt(Rest2, <<ProbeMask>>, TRUE)' /\ current' = 0
        /\ \A t \in Tasks \ {0} : Waiting(t)'
    BY <2>2, <2>3, <2>4
  <2> QED BY <2>4, <2>5 DEF BootInv
<1>3. CASE lineEnabled = FALSE /\ BootAt(Rest2, <<ProbeMask>>, TRUE)
  <2>1. PICK i : Begins(todo[0], i, Rest3) /\ i.op = "enable"
    BY <1>3, BootCode DEF BootAt
  <2>2. EnableInterrupts /\ todo' = [todo EXCEPT ![0] = Rest3]
    <3>1. EnableInterrupts
      BY <1>1, <2>1, BootExecutes
    <3>2. Continue
      BY <3>1 DEF EnableInterrupts
    <3> QED BY <1>1, <2>1, <3>1, <3>2, BootExecutes
  <2>3. saved' = [saved EXCEPT ![0] = <<ProbeMask>>]
    BY <1>1, <1>3, <2>2 DEF EnableInterrupts, BootAt
  <2>4. current' = current /\ masked' = FALSE /\ lineEnabled' = FALSE
    BY <1>3, <2>2 DEF EnableInterrupts
  <2>5. MachineType' /\ BootAt(Rest3, <<ProbeMask>>, FALSE)' /\ current' = 0
        /\ \A t \in Tasks \ {0} : Waiting(t)'
    BY <2>2, <2>3, <2>4
  <2> QED BY <2>4, <2>5 DEF BootInv
<1>4. CASE lineEnabled = FALSE /\ BootAt(Rest3, <<ProbeMask>>, FALSE)
  <2>1. PICK i : Begins(todo[0], i, Rest4) /\ i.op = "lock" /\ i.lock = "PROBE"
    BY <1>4, BootCode DEF BootAt
  <2>2. TakeLock /\ todo' = [todo EXCEPT ![0] = Rest4] /\ Arg = "PROBE"
    <3>1. TakeLock
      BY <1>1, <2>1, BootExecutes
    <3>2. Continue
      BY <3>1 DEF TakeLock
    <3> QED BY <1>1, <2>1, <3>1, <3>2, BootExecutes
  <2>3. saved' = [saved EXCEPT ![0] = <<ProbeMask, ProbeGuard>>]
    BY <1>1, <1>4, <2>2, ProbeSaves DEF TakeLock, Save, BootAt, ProbeGuard
  <2>4. current' = current /\ masked' = TRUE /\ lineEnabled' = FALSE
    BY <1>4, <2>2 DEF TakeLock
  <2>5. MachineType' /\ BootAt(Rest4, <<ProbeMask, ProbeGuard>>, TRUE)' /\ current' = 0
        /\ \A t \in Tasks \ {0} : Waiting(t)'
    BY <2>2, <2>3, <2>4
  <2> QED BY <2>4, <2>5 DEF BootInv
<1>5. CASE lineEnabled = FALSE /\ BootAt(Rest4, <<ProbeMask, ProbeGuard>>, TRUE)
  <2>1. PICK i : Begins(todo[0], i, Rest5) /\ i.op = "touch" /\ i.lock = "OTHER"
    BY <1>5, BootCode DEF BootAt
  <2>2. LockedStatement /\ todo' = [todo EXCEPT ![0] = Rest5]
    <3>1. LockedStatement
      BY <1>1, <2>1, BootExecutes
    <3>2. Continue
      BY <3>1 DEF LockedStatement
    <3> QED BY <1>1, <2>1, <3>1, <3>2, BootExecutes
  <2>3. saved' = [saved EXCEPT ![0] = <<ProbeMask, ProbeGuard>>]
    BY <1>1, <1>5, <2>2 DEF LockedStatement, BootAt
  <2>4. current' = current /\ masked' = TRUE /\ lineEnabled' = FALSE
    BY <1>5, <2>2 DEF LockedStatement, BootAt
  <2>5. MachineType' /\ BootAt(Rest5, <<ProbeMask, ProbeGuard>>, TRUE)' /\ current' = 0
        /\ \A t \in Tasks \ {0} : Waiting(t)'
    BY <2>2, <2>3, <2>4
  <2> QED BY <2>4, <2>5 DEF BootInv
<1>6. CASE lineEnabled = FALSE /\ BootAt(Rest5, <<ProbeMask, ProbeGuard>>, TRUE)
  <2>1. PICK i : Begins(todo[0], i, Rest6) /\ i.op = "drop" /\ i.lock = "PROBE"
    BY <1>6, BootCode DEF BootAt
  <2>2. RestoreInterrupts /\ todo' = [todo EXCEPT ![0] = Rest6] /\ Restore("PROBE")
    <3>1. RestoreInterrupts
      BY <1>1, <2>1, BootExecutes
    <3>2. Continue
      BY <3>1 DEF RestoreInterrupts
    <3> QED BY <1>1, <2>1, <3>1, <3>2, BootExecutes DEF RestoreInterrupts
  <2>3. PICK B \in Seq(Saves) : B = <<ProbeMask, ProbeGuard>>
    BY ProbeSaves
  <2>4. saved[current] = B /\ B # <<>> /\ Top(B) = "PROBE"
    BY <1>1, <1>6, <2>3, ProbeSaves DEF BootAt
  <2>5. masked' = FALSE /\ saved' = [saved EXCEPT ![0] = <<ProbeMask>>]
    BY <1>1, <2>2, <2>3, <2>4, RestoreTop, ProbeSaves
  <2>6. current' = current /\ lineEnabled' = FALSE
    BY <1>6, <2>2 DEF RestoreInterrupts
  <2>7. MachineType' /\ BootAt(Rest6, <<ProbeMask>>, FALSE)' /\ current' = 0
        /\ \A t \in Tasks \ {0} : Waiting(t)'
    BY <2>2, <2>5, <2>6
  <2> QED BY <2>6, <2>7 DEF BootInv
<1>7. CASE lineEnabled = FALSE /\ BootAt(Rest6, <<ProbeMask>>, FALSE)
  <2>1. PICK i : Begins(todo[0], i, Rest7) /\ i.op = "restore"
    BY <1>7, BootCode DEF BootAt
  <2>2. RestoreInterrupts /\ todo' = [todo EXCEPT ![0] = Rest7] /\ Restore("disable")
    <3>1. RestoreInterrupts
      BY <1>1, <2>1, BootExecutes
    <3>2. Continue
      BY <3>1 DEF RestoreInterrupts
    <3> QED BY <1>1, <2>1, <3>1, <3>2, BootExecutes DEF RestoreInterrupts
  <2>3. PICK B \in Seq(Saves) : B = <<ProbeMask>>
    BY ProbeSaves
  <2>4. saved[current] = B /\ B # <<>> /\ Top(B) = "disable"
    BY <1>1, <1>7, <2>3, ProbeSaves DEF BootAt
  <2>5. masked' = TRUE /\ saved' = [saved EXCEPT ![0] = <<>>]
    BY <1>1, <2>2, <2>3, <2>4, RestoreTop, ProbeSaves
  <2>6. current' = current /\ lineEnabled' = FALSE
    BY <1>7, <2>2 DEF RestoreInterrupts
  <2>7. MachineType' /\ BootAt(Rest7, <<>>, TRUE)' /\ current' = 0
        /\ \A t \in Tasks \ {0} : Waiting(t)'
    BY <2>2, <2>5, <2>6
  <2> QED BY <2>6, <2>7 DEF BootInv
<1>8. CASE lineEnabled = FALSE /\ BootAt(Rest7, <<>>, TRUE)
  <2>1. PICK i : Begins(todo[0], i, Rest8) /\ i.op = "gicInit"
    BY <1>8, BootCode DEF BootAt
  <2>2. InitController /\ todo' = [todo EXCEPT ![0] = Rest8] /\ lineEnabled' = FALSE
    <3>1. InitController
      BY <1>1, <2>1, BootExecutes
    <3>2. Continue
      BY <3>1 DEF InitController
    <3>3. At("gicInit") /\ ~At("timerInit")
      BY <1>1, <2>1, BootExecutes
    <3>4. lineEnabled' = FALSE
      BY <3>1, <3>3 DEF InitController
    <3> QED BY <1>1, <2>1, <3>1, <3>2, <3>4, BootExecutes
  <2>3. saved' = [saved EXCEPT ![0] = <<>>]
    BY <1>1, <1>8, <2>2 DEF InitController, BootAt
  <2>4. current' = current /\ masked' = TRUE
    BY <1>8, <2>2 DEF InitController, BootAt
  <2>5. MachineType' /\ BootAt(Rest8, <<>>, TRUE)' /\ current' = 0
        /\ \A t \in Tasks \ {0} : Waiting(t)'
    BY <2>2, <2>3, <2>4
  <2> QED BY <2>2, <2>5 DEF BootInv
<1>9. CASE lineEnabled = FALSE /\ BootAt(Rest8, <<>>, TRUE)
  <2>1. PICK i : Begins(todo[0], i, Rest9) /\ i.op = "timerInit"
    BY <1>9, BootCode DEF BootAt
  <2>2. InitController /\ todo' = [todo EXCEPT ![0] = Rest9]
    <3>1. InitController
      BY <1>1, <2>1, BootExecutes
    <3>2. Continue
      BY <3>1 DEF InitController
    <3> QED BY <1>1, <2>1, <3>1, <3>2, BootExecutes DEF InitController
  <2>3. saved' = [saved EXCEPT ![0] = <<>>]
    BY <1>1, <1>9, <2>2 DEF InitController, BootAt
  <2>4. current' = current /\ masked' = TRUE
    BY <1>9, <2>2 DEF InitController, BootAt
  <2>5. MachineType' /\ BootAt(Rest9, <<>>, TRUE)' /\ current' = 0
        /\ \A t \in Tasks \ {0} : Waiting(t)'
    BY <2>2, <2>3, <2>4
  <2> QED BY <2>5 DEF BootInv
<1>10. CASE BootAt(Rest9, <<>>, TRUE)
  <2>1. PICK i : Begins(todo[0], i, <<>>) /\ i.op = "enable"
    BY <1>10, BootCode DEF BootAt
  <2>2. EnableInterrupts /\ todo' = [todo EXCEPT ![0] = <<>>]
    <3>1. EnableInterrupts
      BY <1>1, <2>1, BootExecutes
    <3>2. Continue
      BY <3>1 DEF EnableInterrupts
    <3> QED BY <1>1, <2>1, <3>1, <3>2, BootExecutes
  <2>3. saved' = [saved EXCEPT ![0] = <<>>]
    BY <1>1, <1>10, <2>2 DEF EnableInterrupts, BootAt
  <2>4. current' = current /\ masked' = FALSE
    BY <2>2 DEF EnableInterrupts
  <2>5. MachineType' /\ BootAt(<<>>, <<>>, FALSE)' /\ current' = 0
        /\ \A t \in Tasks \ {0} : Waiting(t)'
    BY <2>2, <2>3, <2>4
  <2>6. todo'[current'] = <<>> /\ saved'[current'] = <<>> /\ masked' = FALSE
    BY <2>5 DEF BootAt
  <2>7. Running'
    BY <2>6, GoodEnd DEF Running
  <2>8. \A t \in Tasks \ {current'} : Parked(t)'
    BY <2>5 DEF Parked
  <2> QED BY <2>5, <2>7, <2>8 DEF LiveInv
<1> QED BY <1>2, <1>3, <1>4, <1>5, <1>6, <1>7, <1>8, <1>9, <1>10 DEF BootInv

(* The boot thread has code ahead of it, and no interrupt comes in between. *)
LEMMA BootAlone ==
  ASSUME MachineType, BootInv
  PROVE  ~Call /\ ~Trap /\ ~TakeIrq
<1>1. current = 0 /\ todo[0] # <<>>
  BY BootCode DEF BootInv, BootAt, Begins
<1>2. masked \/ lineEnabled = FALSE
  BY DEF BootInv, BootAt
<1> QED BY <1>1, <1>2 DEF Call, Trap, TakeIrq, Signalled

MachineInv == MachineType /\ (BootInv \/ LiveInv)

(* The start: the boot thread at the top of its path, nobody else started *)
LEMMA MachineInit == Init => MachineInv
<1> SUFFICES ASSUME Init PROVE MachineInv
  OBVIOUS
<1>1. MachineType
  BY DEF Init, MachineType, Tasks
<1>2. todo[0] = Boot /\ saved[0] = <<>> /\ masked = TRUE /\ lineEnabled = FALSE
  <2>1. 0 \in Tasks
    BY DEF Tasks
  <2>2. todo[0] = Boot
    BY <2>1, SlotAssumption DEF Init
  <2> QED BY <2>1, <2>2 DEF Init
<1>3. BootAt(Rest1, <<>>, TRUE)
  BY <1>2, BootCode DEF BootAt
<1>4. Good(Do("enterEl0"), <<>>)
  <2>1. PICK i : i = [op |-> "enterEl0"]
    OBVIOUS
  <2>2. i.op = "enterEl0"
    BY <2>1
  <2>3. Fits(i, <<>>)
    BY <2>2 DEF Fits
  <2>4. After(i, <<>>, <<>>) = {<<<<>>, <<>>>>}
    BY <2>2 DEF After
  <2>5. Good(<<i>> \o <<>>, <<>>)
    BY <2>3, <2>4, GoodEnd, GoodIntro, CodeFacts, NoSaves
  <2>6. <<i>> \o <<>> = <<i>>
    BY CodeFacts
  <2> QED BY <2>1, <2>5, <2>6 DEF Do
<1>5. ASSUME NEW t \in Tasks \ {0} PROVE Waiting(t)
  <2>1. saved[t] = <<>>
    BY DEF Init
  <2>2. CASE t \in KernelTasks
    <3>1. todo[t] = Do("trampoline")
      BY <2>2, SlotAssumption DEF Init
    <3>2. Do("trampoline") = Do("trampoline") \o <<>>
      BY CodeFacts DEF Do
    <3> QED BY <2>1, <3>1, <3>2, GoodEnd DEF Waiting
  <2>3. CASE t \in UserTasks
    <3>1. todo[t] = Do("trampoline") \o Do("enterEl0")
      BY <2>3, SlotAssumption DEF Init
    <3> QED BY <1>4, <2>1, <3>1 DEF Waiting
  <2> QED BY <2>2, <2>3 DEF Tasks
<1>6. current = 0
  BY DEF Init
<1> QED BY <1>1, <1>2, <1>3, <1>5, <1>6 DEF MachineInv, BootInv

(* Every step keeps it. *)
LEMMA MachineStep ==
  ASSUME MachineInv, [Next]_vars PROVE MachineInv'
<1>1. CASE Execute
  BY <1>1, BootStep, ExecuteLive DEF MachineInv
<1>2. CASE Call \/ Trap \/ TakeIrq
  BY <1>2, BootAlone, EnterLive DEF MachineInv
<1>3. CASE Time \/ UNCHANGED vars
  <2>1. UNCHANGED <<masked, current, todo, saved, lineEnabled>>
    BY <1>3 DEF Time, vars, irqVars
  <2>2. MachineType' /\ (BootInv => BootInv') /\ (LiveInv => LiveInv')
    <3>1. MachineType'
      BY <2>1 DEF MachineInv, MachineType
    <3>2. \A t : Waiting(t)' <=> Waiting(t)
      BY <2>1 DEF Waiting
    <3>3. \A t : Parked(t)' <=> Parked(t)
      BY <2>1, <3>2 DEF Parked
    <3>4. Running' <=> Running
      BY <2>1 DEF Running, Waiting
    <3>5. BootInv => BootInv'
      BY <2>1, <3>2 DEF BootInv, BootAt
    <3> QED BY <2>1, <3>1, <3>3, <3>4, <3>5 DEF LiveInv
  <2> QED BY <2>2 DEF MachineInv
<1> QED BY <1>1, <1>2, <1>3 DEF Next

(* The invariant of masks and locks, for any number of tasks *)
THEOREM MachineInvariant == Spec => []MachineInv
<1>1. Init => MachineInv
  BY MachineInit
<1>2. MachineInv /\ [Next]_vars => MachineInv'
  BY MachineStep
<1> QED BY <1>1, <1>2, PTL DEF Spec

-----------------------------------------------------------------------------
(* What the run calls the locks of a task are the guards on its stack. *)
LEMMA LocksAreHeld ==
  ASSUME NEW t, NEW B \in Seq(Saves), saved[t] = B PROVE Locks(t) = Held(B)
<1>1. DOMAIN B = 1 .. Len(B)
  BY LenProperties
<1> QED BY <1>1 DEF Locks, Held

(* The locks of somebody who does not have the CPU *)
LEMMA ParkedHoldsNothing ==
  ASSUME NEW t, Parked(t) PROVE Locks(t) = {} /\ saved[t] \in Stacks
<1>1. PICK B : B = saved[t] /\ B \in Stacks /\ Held(B) = {}
  BY NoSaves DEF Parked, Waiting, Free
<1>2. B \in Seq(Saves)
  BY <1>1 DEF Stacks
<1> QED BY <1>1, <1>2, LocksAreHeld

(* The locks of the probe *)
LEMMA ProbeHeld == Held(<<ProbeMask>>) = {} /\ Held(<<ProbeMask, ProbeGuard>>) = {"PROBE"}
<1>1. PICK x, y : x = ProbeMask /\ y = ProbeGuard
  OBVIOUS
<1>2. x.by = "disable" /\ y.by = "PROBE"
  BY <1>1 DEF ProbeMask, ProbeGuard
<1>3. Len(<<x>>) = 1 /\ <<x>>[1] = x /\ Len(<<x, y>>) = 2 /\ <<x, y>>[1] = x /\ <<x, y>>[2] = y
  OBVIOUS
<1>4. (\A k \in 1 .. 1 : k = 1) /\ (\A k \in 1 .. 2 : k = 1 \/ k = 2) /\ 1 \in 1 .. 1 /\ 1 \in 1 .. 2
      /\ 2 \in 1 .. 2
  OBVIOUS
<1>5. {<<x>>[k].by : k \in 1 .. 1} = {"disable"}
  BY <1>2, <1>3, <1>4
<1>6. {<<x, y>>[k].by : k \in 1 .. 2} = {"disable", "PROBE"}
  BY <1>2, <1>3, <1>4
<1> QED BY <1>1, <1>3, <1>5, <1>6 DEF Held

(***************************************************************************)
(* Masking alone makes the locks of sync.rs exclusive, whatever the tasks   *)
(* call, wherever an interrupt comes and whoever is switched to: nobody     *)
(* gives up the CPU with a guard alive, and no code asks for a lock while a *)
(* guard on it is alive.                                                    *)
(***************************************************************************)
THEOREM LocksStayExclusive == Spec => []LocksExclusive
<1>1. ASSUME MachineInv PROVE LocksExclusive
  <2>1. CASE BootInv
    <3>1. current = 0 /\ \A t \in Tasks \ {current} : Locks(t) = {}
      BY <2>1, ParkedHoldsNothing DEF BootInv, Parked
    <3>2. PICK i, k : Begins(todo[0], i, k) /\
                      (i.op \in {"lock", "touch"} =>
                         \/ BootAt(Rest3, <<ProbeMask>>, FALSE) /\ i.lock = "PROBE"
                         \/ BootAt(Rest4, <<ProbeMask, ProbeGuard>>, TRUE) /\ i.lock = "OTHER")
      <4>1. CASE BootAt(Rest3, <<ProbeMask>>, FALSE)
        BY <4>1, BootCode DEF BootAt
      <4>2. CASE BootAt(Rest4, <<ProbeMask, ProbeGuard>>, TRUE)
        BY <4>2, BootCode DEF BootAt
      <4>3. CASE todo[0] \in {Rest1, Rest2, Rest5, Rest6, Rest7, Rest8, Rest9}
        <5>1. PICK i, k : Begins(todo[0], i, k) /\ i.op \in
                {"disable", "enable", "drop", "restore", "gicInit", "timerInit"}
          BY <4>3, BootCode
        <5> QED BY <5>1
      <4> QED BY <2>1, <4>1, <4>2, <4>3 DEF BootInv, BootAt
    <3>3. At("lock") \/ At("touch") => i.op \in {"lock", "touch"} /\ Arg = i.lock
      BY <3>1, <3>2 DEF At, Arg, Begins
    <3>4. ASSUME At("lock") \/ At("touch") PROVE Arg \notin Locks(current)
      <4>1. CASE BootAt(Rest3, <<ProbeMask>>, FALSE) /\ i.lock = "PROBE"
        BY <3>1, <3>3, <3>4, <4>1, LocksAreHeld, ProbeHeld, ProbeSaves DEF BootAt
      <4>2. CASE BootAt(Rest4, <<ProbeMask, ProbeGuard>>, TRUE) /\ i.lock = "OTHER"
        BY <3>1, <3>3, <3>4, <4>2, LocksAreHeld, ProbeHeld, ProbeSaves DEF BootAt
      <4> QED BY <3>2, <3>3, <3>4, <4>1, <4>2
    <3> QED BY <3>1, <3>4 DEF LocksExclusive
  <2>2. CASE LiveInv
    <3>1. \A t \in Tasks \ {current} : Locks(t) = {}
      BY <2>2, ParkedHoldsNothing DEF LiveInv
    <3>2. ASSUME At("lock") \/ At("touch") PROVE Arg \notin Locks(current)
      <4>1. todo[current] # <<>> /\ Head(todo[current]).op \in {"lock", "touch"}
        BY <3>2 DEF At
      <4>2. ~Waiting(current)
        BY <4>1, WaitingHead
      <4>3. Good(todo[current], saved[current])
        BY <2>2, <4>2 DEF LiveInv, Running
      <4>4. Fits(Head(todo[current]), saved[current]) /\ saved[current] \in Stacks
        BY <4>1, <4>3, GoodStep
      <4>5. Arg \notin Held(saved[current])
        BY <4>1, <4>4 DEF Fits, Arg
      <4>6. saved[current] \in Seq(Saves)
        BY <4>4 DEF Stacks
      <4> QED BY <4>5, <4>6, LocksAreHeld
    <3> QED BY <3>1, <3>2 DEF LocksExclusive
  <2> QED BY <1>1, <2>1, <2>2 DEF MachineInv
<1> QED BY <1>1, MachineInvariant, PTL

(* An instruction ahead is still ahead when another comes before it. *)
LEMMA EnableAhead ==
  ASSUME NEW i, NEW k, Code(k),
         i.op = "enable" \/ \E n \in DOMAIN k : k[n].op = "enable"
  PROVE  \E n \in DOMAIN (<<i>> \o k) : (<<i>> \o k)[n].op = "enable"
<1>1. PICK S : k \in Seq(S)
  BY DEF Code
<1>2. PICK T : T = S \cup {i}
  OBVIOUS
<1>3. k \in Seq(T) /\ <<i>> \in Seq(T)
  <2>1. S \subseteq T /\ i \in T
    BY <1>2
  <2> QED BY <1>1, <2>1, SeqMonotonic
<1>4. <<i>> \o k \in Seq(T) /\ Len(<<i>> \o k) = 1 + Len(k) /\ Len(k) \in Nat
  BY <1>3, ConcatProperties
<1>5. (<<i>> \o k)[1] = i /\ \A j \in 1 .. Len(k) : (<<i>> \o k)[j + 1] = k[j]
  BY <1>3, <1>4, ConcatProperties
<1>6. DOMAIN k = 1 .. Len(k) /\ DOMAIN (<<i>> \o k) = 1 .. 1 + Len(k)
  BY <1>3, <1>4, LenProperties
<1>7. CASE i.op = "enable"
  <2>1. 1 \in DOMAIN (<<i>> \o k)
    BY <1>4, <1>6
  <2> QED BY <1>5, <1>7, <2>1
<1>8. CASE \E n \in DOMAIN k : k[n].op = "enable"
  <2>1. PICK n \in 1 .. Len(k) : k[n].op = "enable"
    BY <1>6, <1>8
  <2>2. n + 1 \in DOMAIN (<<i>> \o k)
    BY <1>4, <1>6
  <2> QED BY <1>5, <2>1, <2>2
<1> QED BY <1>7, <1>8

(* The boot thread has not gone past enable_interrupts. *)
LEMMA BootNotLive == ASSUME BootInv PROVE ~Live
<1> DEFINE Ahead(c) == Code(c) /\ \E n \in DOMAIN c : c[n].op = "enable"
<1>1. ASSUME NEW i, NEW k, Ahead(k) PROVE Ahead(<<i>> \o k)
  BY <1>1, EnableAhead, CodeAhead
<1>2. Ahead(Rest9)
  <2>1. PICK i : i = [op |-> "enable"]
    OBVIOUS
  <2>2. \E n \in DOMAIN (<<i>> \o <<>>) : (<<i>> \o <<>>)[n].op = "enable"
    BY <2>1, EnableAhead, CodeFacts
  <2>3. <<i>> \o <<>> = <<i>> /\ Code(<<i>>)
    BY CodeFacts
  <2> QED BY <2>1, <2>2, <2>3 DEF Rest9, Do
<1> HIDE DEF Ahead
<1>3. Ahead(Rest8) /\ Ahead(Rest7) /\ Ahead(Rest6)
  BY <1>1, <1>2 DEF Rest6, Rest7, Rest8, Do
<1>4. Ahead(Rest5) /\ Ahead(Rest4) /\ Ahead(Rest3)
  BY <1>1, <1>3 DEF Rest5, Rest4, Rest3, Touch
<1>5. Ahead(Rest2) /\ Ahead(Rest1)
  BY <1>1, <1>4 DEF Rest2, Rest1, Do
<1>6. Ahead(todo[0])
  BY <1>2, <1>3, <1>4, <1>5 DEF BootInv, BootAt
<1> QED BY <1>6 DEF Live, Ahead

(***************************************************************************)
(* Every mask is put back exactly, for any number of tasks and any nesting  *)
(* of guards, disable_interrupts and trap frames: whoever has the CPU runs  *)
(* masked exactly while its own stack asks for it.                          *)
(***************************************************************************)
THEOREM MaskIsPutBack == Spec => []MaskFollowsTheStack
<1>1. ASSUME MachineInv PROVE MaskFollowsTheStack
  <2> SUFFICES ASSUME Live
               PROVE  /\ \A t \in Tasks : \A k \in DOMAIN saved[t] : saved[t][k].mask = (k > 1)
                      /\ Fresh(current) \/ masked = (saved[current] # <<>>)
    BY DEF MaskFollowsTheStack
  <2>1. MachineType /\ LiveInv
    BY <1>1, BootNotLive DEF MachineInv
  <2>2. ASSUME NEW t \in Tasks PROVE saved[t] \in Stacks
    <3>1. CASE t # current
      BY <2>1, <3>1, ParkedHoldsNothing DEF LiveInv
    <3>2. CASE t = current
      BY <2>1, <3>2, NoSaves, GoodStep DEF LiveInv, Running, Waiting
    <3> QED BY <3>1, <3>2
  <2>3. ASSUME NEW t \in Tasks, NEW k \in DOMAIN saved[t] PROVE saved[t][k].mask = (k > 1)
    <3>1. PICK B : B = saved[t] /\ B \in Stacks
      BY <2>2
    <3>2. B \in Seq(Saves) /\ DOMAIN B = 1 .. Len(B)
      BY <3>1, LenProperties DEF Stacks
    <3>3. B[k].mask \in BOOLEAN /\ (B[k].mask <=> k > 1)
      <4>1. k \in 1 .. Len(B) /\ B[k] \in Saves
        BY <2>3, <3>1, <3>2
      <4> QED BY <3>1, <4>1 DEF Stacks, Saves
    <3>4. B[k].mask = (k > 1)
      <4>1. CASE k > 1
        <5>1. (k > 1) = TRUE
          BY <4>1
        <5> QED BY <3>3, <4>1, <5>1
      <4>2. CASE ~(k > 1)
        <5>1. (k > 1) = FALSE
          BY <4>2
        <5> QED BY <3>3, <4>2, <5>1
      <4> QED BY <4>1, <4>2
    <3> QED BY <3>1, <3>4
  <2>4. Fresh(current) \/ masked = (saved[current] # <<>>)
    <3>1. CASE Waiting(current)
      BY <3>1, WaitingHead DEF Fresh
    <3>2. CASE masked <=> saved[current] # <<>>
      BY <2>1, <3>2, Zenon DEF MachineType
    <3> QED BY <2>1, <3>1, <3>2 DEF LiveInv, Running
  <2> QED BY <2>3, <2>4
<1> QED BY <1>1, MachineInvariant, PTL

=============================================================================
