------------------------------ MODULE Rendezvous ------------------------------
(***************************************************************************)
(* What message passing promises its callers, with no scheduler in sight.   *)
(* A call to another task is queued or accepted at once, is answered at     *)
(* most once and only by the task that accepted it, fails exactly when its  *)
(* target departs before answering, and then returns.                       *)
(***************************************************************************)
CONSTANTS Tasks

VARIABLES
  alive,  \* the tasks that can be called
  call    \* [Tasks -> Calls]: the call each task is making

Calls == [stage : {"idle"}, peer : {"nobody"}]
         \cup [stage : {"queued", "accepted", "answered", "failed"}, peer : Tasks]

NoCall == [stage |-> "idle", peer |-> "nobody"]
At(stage, u) == [stage |-> stage, peer |-> u]

Init ==
  /\ alive \in SUBSET Tasks
  /\ call = [t \in Tasks |-> NoCall]

(* t calls u; if u was listening, u has the message at once. *)
Call(t, u, stage) ==
  /\ t # u /\ {t, u} \subseteq alive
  /\ call[t] = NoCall
  /\ stage = "accepted" => call[u] = NoCall
  /\ call' = [call EXCEPT ![t] = At(stage, u)]
  /\ UNCHANGED alive

(* u, not in a call of its own, takes a queued message. *)
Accept(u, t) ==
  /\ u \in alive /\ call[u] = NoCall
  /\ call[t] = At("queued", u)
  /\ call' = [call EXCEPT ![t] = At("accepted", u)]
  /\ UNCHANGED alive

Answer(u, t) ==
  /\ u \in alive /\ call[u] = NoCall
  /\ call[t] = At("accepted", u)
  /\ call' = [call EXCEPT ![t] = At("answered", u)]
  /\ UNCHANGED alive

Return(t) ==
  /\ t \in alive
  /\ call[t].stage \in {"answered", "failed"}
  /\ call' = [call EXCEPT ![t] = NoCall]
  /\ UNCHANGED alive

(* u departs; every call it has not answered fails, and no other does. *)
Depart(u) ==
  /\ u \in alive /\ call[u] = NoCall
  /\ alive' = alive \ {u}
  /\ call' = [t \in Tasks |->
                IF call[t] \in {At("queued", u), At("accepted", u)}
                THEN At("failed", u) ELSE call[t]]

(* u arrives, in no call and called by nobody. *)
Arrive(u) ==
  /\ u \notin alive /\ call[u] = NoCall
  /\ \A t \in Tasks : call[t] \notin {At("queued", u), At("accepted", u)}
  /\ alive' = alive \cup {u}
  /\ UNCHANGED call

(* A step moves one call on, or one task in or out. *)
Next ==
  \/ \E t \in Tasks :
       /\ call'[t] # call[t]
       /\ \/ Return(t)
          \/ \E u \in Tasks : \/ Call(t, u, "queued") \/ Call(t, u, "accepted")
                              \/ Accept(u, t) \/ Answer(u, t)
  \/ /\ alive' # alive
     /\ \E u \in Tasks : Depart(u) \/ Arrive(u)

Spec == Init /\ [][Next]_<<alive, call>>

=============================================================================
