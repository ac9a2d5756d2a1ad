--------------------------------- MODULE Ipc ---------------------------------
(***************************************************************************)
(* Synchronous message passing (kernel/src/ipc.rs): send blocks until the   *)
(* target replies, recv waits for a message or a notification, whichever is *)
(* first, reply answers one waiting sender, and abandon releases whoever    *)
(* was waiting on a task that is going away.                                *)
(*                                                                         *)
(* An early return (bad length, unreadable buffer, EINVAL, EDEAD, EFAULT)   *)
(* changes nothing, so it is a stuttering step; the guards below are the    *)
(* negations of those returns.                                              *)
(***************************************************************************)
EXTENDS Notify

CONSTANT MaxLeases   \* the most leases a modelled send carries

ASSUME IpcAssumption == MaxLeases \in Nat

VARIABLES
  pending,    \* [Slots -> Pendings]: what a blocked task is blocked on
  outcome,    \* [Slots -> Outcomes]: what a woken task is about to be told
  leaseCount  \* [Slots -> 0..MaxLeases]: how many regions its send lends

ipcVars == <<pending, outcome, leaseCount>>

Pendings == [kind : {"None", "SendWait", "ReplyWait", "RecvWait"},
             target : Slots \cup {NoTask}]
NoPending == [kind |-> "None", target |-> NoTask]
RecvWait == [kind |-> "RecvWait", target |-> NoTask]
SendWait(u) == [kind |-> "SendWait", target |-> u]
ReplyWait(u) == [kind |-> "ReplyWait", target |-> u]

(***************************************************************************)
(* The code keeps three words and their reader knows from the call it is in *)
(* how to read them.  Here the words carry who wrote them and as what:      *)
(* "zero" is Outcome::default(), "message" a delivered message, "reply" an  *)
(* answer and "dead" the EDEAD of abandon.                                  *)
(***************************************************************************)
Outcomes == [kind : {"zero", "message", "reply", "dead"}, from : Slots \cup {NoTask}]
Zero == [kind |-> "zero", from |-> NoTask]
Message(s) == [kind |-> "message", from |-> s]
Answer(s) == [kind |-> "reply", from |-> s]
Dead(s) == [kind |-> "dead", from |-> s]

IpcInit ==
  /\ pending = [s \in Slots |-> NoPending]
  /\ outcome = [s \in Slots |-> Zero]
  /\ leaseCount = [s \in Slots |-> 0]

(* Senders queued for u, and best_sender: best priority, then lowest slot *)
QueuedFor(u) == {s \in Slots : pending[s] = SendWait(u)}
BestSender(u) ==
  CHOOSE s \in QueuedFor(u) :
    \A v \in QueuedFor(u) : Outranks(s, v) \/ (priority[s] = priority[v] /\ s <= v)

-----------------------------------------------------------------------------
(***************************************************************************)
(* send, target already waiting: copy, leave the run queue, hand the target *)
(* its message, wake it, and park.  The wake gives the CPU away at once if  *)
(* the target is the better task, and the park follows when the sender next *)
(* runs; otherwise the park is reached immediately.                         *)
(***************************************************************************)
SendToReceiver(t, u, n) ==
  /\ InUser(t)
  /\ u # t /\ IsAlive(u) /\ pending[u].kind = "RecvWait"
  /\ pending' = [pending EXCEPT ![u] = NoPending, ![t] = ReplyWait(u)]
  /\ outcome' = [outcome EXCEPT ![u] = Message(t)]
  /\ leaseCount' = [leaseCount EXCEPT ![t] = n]
  /\ LET marked == Marked(state, t)
     IN  /\ SwitchToNext(Woken(marked, {u}))
         /\ GoTo(t, IF marked[u] = "Blocked" /\ Outranks(u, t)
                    THEN "sendWake" ELSE "sendPark")
  /\ UNCHANGED <<priority, image, needResched, notifyVars>>

(* send, nobody listening yet: wait to be collected. *)
SendAndQueue(t, u, n) ==
  /\ InUser(t)
  /\ u # t /\ IsAlive(u) /\ pending[u].kind # "RecvWait"
  /\ pending' = [pending EXCEPT ![t] = SendWait(u)]
  /\ leaseCount' = [leaseCount EXCEPT ![t] = n]
  /\ SwitchToNext(Marked(state, t))
  /\ GoTo(t, "sendPark")
  /\ UNCHANGED <<priority, image, needResched, notifyVars, outcome>>

(* The last lines of send: collect the outcome and return to EL0. *)
TakeOutcome(t) ==
  /\ outcome' = [outcome EXCEPT ![t] = Zero]
  /\ GoTo(t, "run")

(* Variant: park without asking whether there is still something to wait for. *)
SendWokeParksAnyway(t) ==
  /\ current = t /\ pc[t] = "sendWake"
  /\ SwitchToNext(Marked(state, t))
  /\ GoTo(t, "sendPark")
  /\ UNCHANGED <<priority, image, needResched, notifyVars, ipcVars>>

(* Back from the wake in send: park, if there is still something to wait for. *)
SendWoke(t) ==
  /\ current = t /\ pc[t] = "sendWake"
  /\ IF state[t] = "Blocked"
     THEN SwitchToNext(state) /\ GoTo(t, "sendPark") /\ UNCHANGED outcome
     ELSE StayOn(state) /\ TakeOutcome(t)
  /\ UNCHANGED <<priority, image, needResched, notifyVars, pending, leaseCount>>

SendReturn(t) ==
  /\ current = t /\ pc[t] = "sendPark"
  /\ TakeOutcome(t)
  /\ UNCHANGED <<state, priority, space, image, current, needResched,
                 notifyVars, pending, leaseCount>>

-----------------------------------------------------------------------------
(***************************************************************************)
(* One turn of the loop in recv: a notification first, then the best queued *)
(* sender, else park.  Only parking writes the caller's own pending entry   *)
(* (own is what the turn finds there).  deliver() cannot fail here: both    *)
(* buffers were checked when their owners entered the kernel, and an entry  *)
(* goes when its owner's address space does.                                *)
(***************************************************************************)
CollectNotification(t, mask, own) ==
  /\ posted[t] \cap mask # {}
  /\ posted' = [posted EXCEPT ![t] = @ \ mask]
  /\ wanted' = [wanted EXCEPT ![t] = {}]
  /\ pending' = [pending EXCEPT ![t] = own]
  /\ StayOn(state)
  /\ GoTo(t, "run")

CollectMessage(t, mask, own) ==
  /\ posted[t] \cap mask = {} /\ QueuedFor(t) # {}
  /\ pending' = [pending EXCEPT ![BestSender(t)] = ReplyWait(t), ![t] = own]
  /\ wanted' = [wanted EXCEPT ![t] = {}]
  /\ StayOn(state)
  /\ GoTo(t, "run")
  /\ UNCHANGED posted

ParkInRecv(t, mask) ==
  /\ posted[t] \cap mask = {} /\ QueuedFor(t) = {}
  /\ wanted' = [wanted EXCEPT ![t] = mask]
  /\ pending' = [pending EXCEPT ![t] = RecvWait]
  /\ SwitchToNext(Marked(state, t))
  /\ GoTo(t, "recvPark")
  /\ UNCHANGED posted

RecvTurn(t, mask, own) ==
  /\ \/ CollectNotification(t, mask, own)
     \/ CollectMessage(t, mask, own)
     \/ ParkInRecv(t, mask)
  /\ UNCHANGED <<priority, image, needResched, routes, outcome, leaseCount>>

Recv(t, mask) == InUser(t) /\ RecvTurn(t, mask, pending[t])

(***************************************************************************)
(* Woken in recv: disarm.  A sender clears pending as it delivers, so an    *)
(* entry still set means something else did the waking: clear it and go     *)
(* round again.                                                             *)
(***************************************************************************)
RecvReturn(t) ==
  /\ current = t /\ pc[t] = "recvPark"
  /\ pending[t].kind = "None"
  /\ wanted' = [wanted EXCEPT ![t] = {}]
  /\ TakeOutcome(t)
  /\ UNCHANGED <<state, priority, space, image, current, needResched,
                 routes, posted, pending, leaseCount>>

RecvAgain(t) ==
  /\ current = t /\ pc[t] = "recvPark"
  /\ pending[t].kind # "None"
  /\ RecvTurn(t, wanted[t], NoPending)

-----------------------------------------------------------------------------
(* Variant: the sender is left to clear its own entry. *)
DeliverKeepsPending(s, out) ==
  /\ outcome' = [outcome EXCEPT ![s] = out]
  /\ leaseCount' = [leaseCount EXCEPT ![s] = 0]
  /\ UNCHANGED pending

(* Variant: the leases outlive the send. *)
DeliverKeepsLeases(s, out) ==
  /\ outcome' = [outcome EXCEPT ![s] = out]
  /\ pending' = [pending EXCEPT ![s] = NoPending]
  /\ UNCHANGED leaseCount

(* Variant: one lease is given back instead of all of them. *)
DeliverReturnsOneLease(s, out) ==
  /\ outcome' = [outcome EXCEPT ![s] = out]
  /\ pending' = [pending EXCEPT ![s] = NoPending]
  /\ leaseCount' = [leaseCount EXCEPT ![s] = @ - 1]

(* deliver_outcome: pending is cleared by the waker, not by the sender. *)
DeliverOutcome(s, out) ==
  /\ outcome' = [outcome EXCEPT ![s] = out]
  /\ pending' = [pending EXCEPT ![s] = NoPending]
  /\ leaseCount' = [leaseCount EXCEPT ![s] = 0]

(* Variant: any task may answer a waiting sender. *)
ReplyFromAnybody(t, s) ==
  /\ InUser(t)
  /\ pending[s].kind = "ReplyWait"
  /\ DeliverOutcome(s, Answer(t))
  /\ WakeAndYield(state, t, s)
  /\ UNCHANGED <<priority, image, pc, needResched, notifyVars>>

(* reply: only the task that received the message, only while it is waited on *)
Reply(t, s) ==
  /\ InUser(t)
  /\ pending[s] = ReplyWait(t)
  /\ DeliverOutcome(s, Answer(t))
  /\ WakeAndYield(state, t, s)
  /\ UNCHANGED <<priority, image, pc, needResched, notifyVars>>

(* Variant: senders whose message was already collected are forgotten. *)
WaitingOnQueuedOnly(gone) == {s \in Slots \ {gone} : pending[s] = SendWait(gone)}

(* Everybody whose message is queued at gone or being worked on by it *)
WaitingOn(gone) ==
  {s \in Slots \ {gone} : pending[s] \in {SendWait(gone), ReplyWait(gone)}}

(* Variant: the senders are woken with nothing to read. *)
AbandonLeavesOutcome(gone) ==
  LET W == WaitingOn(gone)
  IN  /\ pending' = [s \in Slots |-> IF s \in W \cup {gone} THEN NoPending ELSE pending[s]]
      /\ leaseCount' = [s \in Slots |-> IF s \in W \cup {gone} THEN 0 ELSE leaseCount[s]]
      /\ UNCHANGED outcome

(* Variant: the task that is going is taken to have no entry of its own. *)
AbandonSparesItself(gone) ==
  LET W == WaitingOn(gone)
  IN  /\ outcome' = [s \in Slots |-> IF s \in W THEN Dead(gone) ELSE outcome[s]]
      /\ pending' = [s \in Slots |-> IF s \in W THEN NoPending ELSE pending[s]]
      /\ leaseCount' = [s \in Slots |-> IF s \in W THEN 0 ELSE leaseCount[s]]

(* abandon: its writes to the IPC table, and to the scheduler's *)
Abandon(gone) ==
  LET W == WaitingOn(gone)
  IN  /\ outcome' = [s \in Slots |-> IF s \in W THEN Dead(gone) ELSE outcome[s]]
      /\ pending' = [s \in Slots |-> IF s \in W \cup {gone} THEN NoPending ELSE pending[s]]
      /\ leaseCount' = [s \in Slots |-> IF s \in W \cup {gone} THEN 0 ELSE leaseCount[s]]
StateAfterAbandon(st, gone) == Woken(st, WaitingOn(gone))

=============================================================================
