----------------------------- MODULE EventRing -----------------------------
(***************************************************************************)
(* The event ring of usb/xhci/ring.cpp, written by the controller and read *)
(* by ProcessEvents in the main task.  The driver tells a new event from   *)
(* an old one by its cycle bit; the controller learns from the dequeue     *)
(* pointer (ERDP) which slots it may use again.                            *)
(*                                                                         *)
(* ERDP also holds the Event Handler Busy bit: the controller sets it with *)
(* an interrupt and sends no other while it is set; writing 1 clears it.   *)
(* WriteDequeuePointer never names the bit: it writes back what it read.   *)
(* IMOD keeps its value after reset, which moderates interrupts: the       *)
(* controller may send one at once or hold it back for a while.            *)
(***************************************************************************)
EXTENDS Integers, Sequences

CONSTANTS
  Events,        \* what the event TRBs say
  EvBufSize      \* buf_size_, slots of the only segment

NoEvent == "none"

ASSUME EventsAssumption == NoEvent \notin Events
ASSUME EventRingAssumption == EvBufSize \in Nat /\ EvBufSize >= 2

VARIABLES
  ev_buf,        \* buf_: of each TRB, its content and its cycle bit
  enqueue,       \* the controller's position in the ring
  pcs,           \* its producer cycle state
  erdp,          \* ERDP: the dequeue pointer ...
  busy,          \* ... and Event Handler Busy
  ev_cycle_bit,  \* cycle_bit_, the driver's cycle state
  ev_step,       \* where the main task is in ProcessEvents
  read_busy,     \* Event Handler Busy as Pop read it
  handled,       \* the event handled last
  requested      \* a kInterruptXHCI message waits for the main task

ev_vars == <<ev_buf, enqueue, pcs, erdp, busy, ev_cycle_bit, ev_step, read_busy,
             handled, requested>>

EvSlot == 0 .. EvBufSize - 1
EvBit == {0, 1}
EvToggle(bit) == 1 - bit
After(i) == IF i + 1 = EvBufSize THEN 0 ELSE i + 1

-----------------------------------------------------------------------------
(* The controller, as the driver relies on it.                             *)

\* An interrupt, unless the handler is marked busy: busy' and requested' from
\* the bit as it is now.
Interrupt(now_busy) ==
  busy' = 1 /\ requested' = (requested \/ now_busy = 0)

\* It leaves one slot empty, or it could not tell a full ring from an empty one.
Post(e) ==
  /\ After(enqueue) # erdp
  /\ ev_buf' = [ev_buf EXCEPT ![enqueue] = [event |-> e, cycle |-> pcs]]
  /\ enqueue' = After(enqueue)
  /\ pcs' = IF enqueue + 1 = EvBufSize THEN EvToggle(pcs) ELSE pcs
  /\ \/ Interrupt(busy)
     \/ UNCHANGED <<busy, requested>>
  /\ UNCHANGED <<erdp, ev_cycle_bit, ev_step, read_busy, handled>>

\* The interrupt that was held back.
LateInterrupt ==
  /\ busy = 0 /\ enqueue # erdp
  /\ Interrupt(busy)
  /\ UNCHANGED <<ev_buf, enqueue, pcs, erdp, ev_cycle_bit, ev_step, read_busy, handled>>

-----------------------------------------------------------------------------
(* The driver: ProcessEvents, called for each kInterruptXHCI message.      *)

ReceiveInterrupt ==
  /\ ev_step = "idle"
  /\ requested
  /\ requested' = FALSE
  /\ ev_step' = "poll"
  /\ UNCHANGED <<ev_buf, enqueue, pcs, erdp, busy, ev_cycle_bit, read_busy, handled>>

HasFront == ev_buf[erdp].cycle = ev_cycle_bit

\* The loop's test, and ProcessEvent's.
Poll ==
  /\ ev_step = "poll"
  /\ ev_step' = IF HasFront THEN "handle" ELSE "idle"
  /\ UNCHANGED <<ev_buf, enqueue, pcs, erdp, busy, ev_cycle_bit, read_busy, handled, requested>>

\* OnEvent(*Front()), then Pop() as far as the read of ERDP.  OnEvent looks at
\* the TRB in the ring, which stays the driver's until ERDP is written.
Handle ==
  /\ ev_step = "handle"
  /\ handled' = ev_buf[erdp].event
  /\ read_busy' = busy
  /\ ev_step' = "pop"
  /\ UNCHANGED <<ev_buf, enqueue, pcs, erdp, busy, ev_cycle_bit, requested>>

\* Wrong: the busy bit is left out of the value written.
Pop_BusyNotWrittenBack ==
  /\ ev_step = "pop"
  /\ erdp' = After(erdp)
  /\ ev_cycle_bit' = IF erdp + 1 = EvBufSize THEN EvToggle(ev_cycle_bit) ELSE ev_cycle_bit
  /\ ev_step' = "poll"
  /\ UNCHANGED <<ev_buf, enqueue, pcs, read_busy, handled, busy, requested>>

\* Wrong: no new cycle state at the end of the segment.
Pop_NoToggle ==
  /\ ev_step = "pop"
  /\ erdp' = After(erdp)
  /\ IF read_busy = 0 THEN UNCHANGED <<busy, requested>>
     ELSE busy' = 0 /\ UNCHANGED requested
  /\ ev_step' = "poll"
  /\ UNCHANGED <<ev_buf, enqueue, pcs, ev_cycle_bit, read_busy, handled>>

\* The rest of Pop(): the write of ERDP.  If it cleared the busy bit and events
\* are left, the controller interrupts again, at once or later.
Pop ==
  /\ ev_step = "pop"
  /\ erdp' = After(erdp)
  /\ ev_cycle_bit' = IF erdp + 1 = EvBufSize THEN EvToggle(ev_cycle_bit) ELSE ev_cycle_bit
  /\ ev_step' = "poll"
  /\ IF read_busy = 0 THEN UNCHANGED <<busy, requested>>
     ELSE \/ enqueue # After(erdp) /\ Interrupt(0)
          \/ busy' = 0 /\ UNCHANGED requested
  /\ UNCHANGED <<ev_buf, enqueue, pcs, read_busy, handled>>

-----------------------------------------------------------------------------

\* EventRing::Initialize.
EvInit ==
  /\ ev_buf = [i \in EvSlot |-> [event |-> NoEvent, cycle |-> 0]]
  /\ enqueue = 0 /\ pcs = 1
  /\ erdp = 0 /\ busy = 0
  /\ ev_cycle_bit = 1
  /\ ev_step = "idle" /\ read_busy = 0
  /\ handled = NoEvent
  /\ requested = FALSE

EvDriverStep == ReceiveInterrupt \/ Poll \/ Handle \/ Pop

EvNext == (\E e \in Events : Post(e)) \/ LateInterrupt \/ EvDriverStep

EvSpec == EvInit /\ [][EvNext]_ev_vars

\* The main task handles its messages and returns from its calls, and an
\* interrupt is not held back for ever.
EvFairSpec == EvSpec /\ WF_ev_vars(EvDriverStep) /\ WF_ev_vars(LateInterrupt)

-----------------------------------------------------------------------------
(* Properties.                                                             *)

EvTypeOK ==
  /\ ev_buf \in [EvSlot -> [event : Events \cup {NoEvent}, cycle : EvBit]]
  /\ enqueue \in EvSlot /\ pcs \in EvBit
  /\ erdp \in EvSlot /\ busy \in EvBit
  /\ ev_cycle_bit \in EvBit
  /\ ev_step \in {"idle", "poll", "handle", "pop"}
  /\ read_busy \in EvBit
  /\ handled \in Events \cup {NoEvent}
  /\ requested \in BOOLEAN

\* The slots written on the controller's lap carry its cycle bit and the others
\* the opposite one, and it is never a full lap ahead of the driver, whose
\* cycle state says which lap the driver is on.
EvCycleInv ==
  /\ \A i \in EvSlot : (ev_buf[i].cycle = pcs) <=> (i < enqueue)
  /\ IF ev_cycle_bit = pcs THEN erdp <= enqueue ELSE enqueue < erdp

\* The events from the one the driver is at.  Once handled, an event is gone
\* for the driver, although its slot is given back only by the write of ERDP.
First == IF ev_step = "pop" THEN erdp + 1 ELSE erdp
Waiting ==
  [i \in 1 .. (IF ev_cycle_bit = pcs THEN enqueue - First ELSE EvBufSize - First + enqueue) |->
     LET at == First + i - 1 IN ev_buf[IF at < EvBufSize THEN at ELSE at - EvBufSize].event]

EvAbstract == INSTANCE Fifo WITH Value <- Events, Nothing <- NoEvent,
                               queue <- Waiting, taken <- handled

\* Every event the controller posts is handled, once, whole and in order,
\* although it goes on posting while the driver polls, handles and pops.
ImplementsEventFifo == EvAbstract!Spec

\* An interrupt came after Pop had read ERDP and before it writes it back: the
\* busy bit it set is not cleared by this write.
BusySetBetween == ev_step = "pop" /\ read_busy = 0 /\ busy = 1

\* No event is left waiting for an interrupt that never comes: whenever the
\* driver stops polling, a later event interrupts again.  The one way to miss
\* events is an interrupt between Pop's read and write of ERDP.
EventsAreHandled == <>BusySetBetween \/ EvAbstract!Liveness
=============================================================================
