------------------------- MODULE PriorityScheduler -------------------------
(***************************************************************************)
(* What the scheduler promises, without queues, levels being served or     *)
(* flags: whenever the processor is given away - at a timer switch, or     *)
(* because the running task went to sleep - it goes to a ready task of the *)
(* highest priority present.  Waking a task, or changing a priority, never *)
(* takes the processor away by itself.                                     *)
(***************************************************************************)
EXTENDS Integers

CONSTANTS Task, Priority, Main, Idle

VARIABLES ready, prio, current

vars == <<ready, prio, current>>

Highest(tasks, p) == {t \in tasks : \A u \in tasks : p[u] <= p[t]}

Init ==
  /\ ready = {Main, Idle}
  /\ prio \in [Task -> Priority]
  /\ current = Main

Wake(t) ==
  /\ t \notin ready
  /\ ready' = ready \cup {t}
  /\ \E p \in Priority : prio' = [prio EXCEPT ![t] = p]
  /\ UNCHANGED current

Reprioritize(t) ==
  /\ t \in ready
  /\ \E p \in Priority : prio' = [prio EXCEPT ![t] = p]
  /\ UNCHANGED <<ready, current>>

Block(t) ==
  /\ t \in ready
  /\ ready' = ready \ {t}
  /\ IF t = current THEN current' \in Highest(ready', prio)
                    ELSE UNCHANGED current
  /\ UNCHANGED prio

Preempt ==
  /\ current' \in Highest(ready, prio)
  /\ UNCHANGED <<ready, prio>>

Next ==
  \/ \E t \in Task \ {Idle} : Wake(t) \/ Reprioritize(t) \/ Block(t)
  \/ Preempt

Spec == Init /\ [][Next]_vars
=============================================================================
