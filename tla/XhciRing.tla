------------------------------ MODULE XhciRing ------------------------------
(***************************************************************************)
(* The command and transfer rings of usb/xhci/ring.cpp, written by the     *)
(* driver and read by the controller, which share nothing but the buffer   *)
(* and the doorbell.  The controller takes a TRB for written when its      *)
(* cycle bit equals the controller's own cycle state; the Link TRB in the  *)
(* last slot sends it back to slot 0 and toggles that state.  Both sides   *)
(* move between any two writes to memory of the other.                     *)
(*                                                                         *)
(* Push does not look at how far the controller is: it is its callers that *)
(* leave few enough TRBs outstanding.  MaxPending is that number.          *)
(***************************************************************************)
EXTENDS Integers, Sequences

CONSTANTS
  Commands,    \* what the TRBs say
  BufSize,     \* buf_size_, slots of the ring
  MaxPending   \* bound on the TRBs pushed and not yet read by the controller

LinkTRB == "link"
Blank == "blank"

CallSteps == {"idle", "pushed", "link body", "link control"}

ASSUME CommandsAssumption == ({LinkTRB, Blank} \cup CallSteps) \cap Commands = {}
\* The ring is not filled: with a TRB in every slot before the Link, Push
\* would flip the cycle bit of a Link TRB that the controller still waits at.
ASSUME RingAssumption ==
  /\ BufSize \in Nat
  /\ MaxPending \in Nat \ {0}
  /\ MaxPending + 2 <= BufSize

VARIABLES
  buf,           \* buf_: of each TRB, data[0..2] and data[3] and its cycle bit
  cycle_bit,     \* cycle_bit_, the producer's cycle state
  write_index,   \* write_index_
  step,          \* where the driver is in Push
  doorbell,      \* whether the controller was told to look since it stopped
  dequeue,       \* the controller's position in the ring
  ccs,           \* its consumer cycle state
  executed       \* the command it read last

driver == <<buf, cycle_bit, write_index, step>>
controller == <<dequeue, ccs, executed>>
vars == <<driver, doorbell, controller>>

Slot == 0 .. BufSize - 1
LinkSlot == BufSize - 1
Bit == {0, 1}
Toggle(bit) == 1 - bit

\* A TRB: type and parameters in data[0..2], the control word data[3].  The
\* controller acts on a mixture of two TRBs if it reads one half written.
TRBs == [body : Commands \cup {LinkTRB, Blank},
         control : Commands \cup {LinkTRB, Blank},
         cycle : Bit]

-----------------------------------------------------------------------------
(* The driver.                                                             *)

\* Wrong: data[3] is written with, or before, the rest.
CopyBody_WithCycle(c) == buf' = [buf EXCEPT ![write_index].control = c,
                                            ![write_index].cycle = cycle_bit]

\* The two halves of CopyToLast: data[0..2], then data[3] with the cycle bit.
CopyBody(c) == buf' = [buf EXCEPT ![write_index].body = c]
CopyControl(c) == buf' = [buf EXCEPT ![write_index].control = c,
                                     ![write_index].cycle = cycle_bit]

\* How many TRBs the controller has not read.
Pending == IF ccs = cycle_bit THEN write_index - dequeue
           ELSE LinkSlot - dequeue + write_index

\* Push(c), called with room for one more.
PushBody(c) ==
  /\ step = "idle" \/ step = "pushed"
  /\ Pending < MaxPending
  /\ CopyBody(c)
  /\ step' = c
  /\ UNCHANGED <<cycle_bit, write_index, doorbell, controller>>

\* data[3], ++write_index_
PushControl(c) ==
  /\ step = c
  /\ CopyControl(c)
  /\ write_index' = write_index + 1
  /\ step' = IF write_index + 1 = LinkSlot THEN "link body" ELSE "pushed"
  /\ UNCHANGED <<cycle_bit, doorbell, controller>>

\* The Link TRB, with toggle_cycle ...
PushLinkBody ==
  /\ step = "link body"
  /\ CopyBody(LinkTRB)
  /\ step' = "link control"
  /\ UNCHANGED <<cycle_bit, write_index, doorbell, controller>>

\* ... and the start of the next lap.
PushLinkControl ==
  /\ step = "link control"
  /\ CopyControl(LinkTRB)
  /\ write_index' = 0
  /\ cycle_bit' = Toggle(cycle_bit)
  /\ step' = "pushed"
  /\ UNCHANGED <<doorbell, controller>>

\* Wrong: a ring with TRBs in it is taken for one the controller is working on.
RingDoorbell_IfOneIsPending ==
  /\ step = "pushed"
  /\ doorbell' = (doorbell \/ Pending = 1)
  /\ step' = "idle"
  /\ UNCHANGED <<buf, cycle_bit, write_index, controller>>

\* DoorbellRegister::Ring, after one Push or after those of a control transfer.
RingDoorbell ==
  /\ step = "pushed"
  /\ doorbell' = TRUE
  /\ step' = "idle"
  /\ UNCHANGED <<buf, cycle_bit, write_index, controller>>

DriverStep ==
  \/ \E c \in Commands : PushBody(c) \/ PushControl(c)
  \/ PushLinkBody \/ PushLinkControl
  \/ RingDoorbell

-----------------------------------------------------------------------------
(* The controller, as the driver relies on it.                             *)

Written == buf[dequeue].cycle = ccs

\* It reads the TRB; one it cannot make sense of it reports as such.
Execute ==
  /\ doorbell
  /\ Written /\ buf[dequeue].control # LinkTRB
  /\ executed' = IF buf[dequeue].body = buf[dequeue].control
                 THEN buf[dequeue].body ELSE Blank
  /\ dequeue' = dequeue + 1
  /\ UNCHANGED <<driver, doorbell, ccs>>

FollowLink ==
  /\ doorbell
  /\ Written /\ buf[dequeue].control = LinkTRB
  /\ dequeue' = 0
  /\ ccs' = Toggle(ccs)
  /\ UNCHANGED <<driver, doorbell, executed>>

\* It finds nothing new and stops until the doorbell rings again.
Stop ==
  /\ doorbell
  /\ ~Written
  /\ doorbell' = FALSE
  /\ UNCHANGED <<driver, controller>>

ControllerStep == Execute \/ FollowLink \/ Stop

-----------------------------------------------------------------------------

\* Ring::Initialize, and the ring's address given to the controller with a
\* cycle state of 1 (RegisterCommandRing, InitializeEP0Context).
Init ==
  /\ buf = [i \in Slot |-> [body |-> Blank, control |-> Blank, cycle |-> 0]]
  /\ cycle_bit = 1
  /\ write_index = 0
  /\ step = "idle"
  /\ doorbell = FALSE
  /\ dequeue = 0
  /\ ccs = 1
  /\ executed = Blank

Next == DriverStep \/ ControllerStep

Spec == Init /\ [][Next]_vars

\* The driver finishes the call it is in, up to the doorbell; the controller
\* does not stand still with work to do.
FairSpec ==
  /\ Spec
  /\ WF_vars(PushLinkBody \/ PushLinkControl \/ \E c \in Commands : PushControl(c))
  /\ WF_vars(RingDoorbell)
  /\ WF_vars(ControllerStep)

-----------------------------------------------------------------------------
(* Properties.                                                             *)

TypeOK ==
  /\ buf \in [Slot -> TRBs]
  /\ cycle_bit \in Bit
  /\ write_index \in Slot
  /\ step \in Commands \cup CallSteps
  /\ doorbell \in BOOLEAN
  /\ dequeue \in Slot
  /\ ccs \in Bit
  /\ executed \in Commands \cup {Blank}

\* The slots written on this lap carry the producer's cycle bit and the others
\* the opposite one, and the driver is never a full lap ahead: what makes the
\* cycle bit alone tell the controller which TRBs are new.
CycleInv ==
  /\ \A i \in Slot : (buf[i].cycle = cycle_bit) <=> (i < write_index)
  /\ IF ccs = cycle_bit THEN dequeue <= write_index ELSE write_index < dequeue

\* The TRBs between the controller and the driver.
Outstanding ==
  [i \in 1 .. Pending |->
     LET at == dequeue + i - 1
     IN  buf[IF at < LinkSlot THEN at ELSE at - LinkSlot].control]

Abstract == INSTANCE Fifo WITH Value <- Commands, Nothing <- Blank,
                               queue <- Outstanding, taken <- executed

\* The controller executes every TRB that was pushed, whole, once and in the
\* order of the pushes, although it reads while Push writes: a TRB appears to
\* it with the write of data[3].
ImplementsFifo == Abstract!Spec

\* It executes them eventually: the doorbell that follows the pushes is never
\* consumed by a look at the ring that came before them.
NoMissedDoorbell == Abstract!Liveness
=============================================================================
