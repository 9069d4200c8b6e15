--------------------------- MODULE XhciRingProofs ---------------------------
(***************************************************************************)
(* A command or transfer ring of any size hands the controller every TRB   *)
(* once, whole and in order, as long as its callers leave two slots free.  *)
(* An event ring of any size does the same for the driver.                 *)
(***************************************************************************)
EXTENDS XhciRing, EventRing, SequenceTheorems, TLAPS

\* The slots the controller has still to read, seen from its position.
IsOutstanding(i) ==
  IF ccs = cycle_bit THEN dequeue <= i /\ i < write_index
  ELSE i < write_index \/ (dequeue <= i /\ i < LinkSlot)

\* Beyond CycleInv: where Push is determines where it writes, the TRBs between
\* the two sides are whole, and a Link TRB is in place if the controller is to
\* follow one.
RingInv ==
  /\ Pending <= MaxPending
  /\ step \in Commands => Pending < MaxPending /\ buf[write_index].body = step
  /\ step \in Commands \cup {"idle", "pushed"} => write_index < LinkSlot
  /\ step \in {"link body", "link control"} => write_index = LinkSlot
  /\ \A i \in Slot : IsOutstanding(i) => /\ buf[i].control \in Commands
                                         /\ buf[i].body = buf[i].control
  /\ ccs # cycle_bit => buf[LinkSlot].control = LinkTRB

IInv == TypeOK /\ CycleInv /\ RingInv

LEMMA Sizes ==
  /\ LinkSlot \in Nat
  /\ Slot = 0 .. LinkSlot
  /\ LinkSlot \in Slot /\ 0 \in Slot
  /\ MaxPending \in Nat
  /\ MaxPending < LinkSlot
BY RingAssumption DEF LinkSlot, Slot

\* The positions and the number of TRBs between them.
LEMMA Positions ==
  ASSUME IInv
  PROVE  /\ write_index \in Int /\ 0 <= write_index /\ write_index <= LinkSlot
         /\ dequeue \in Int /\ 0 <= dequeue /\ dequeue <= LinkSlot
         /\ cycle_bit \in {0, 1} /\ ccs \in {0, 1}
         /\ Pending \in Nat /\ Pending <= MaxPending
         /\ IF ccs = cycle_bit THEN /\ dequeue <= write_index
                                   /\ Pending = write_index - dequeue
            ELSE /\ write_index < dequeue
                 /\ Pending = LinkSlot - dequeue + write_index
<1>1. /\ write_index \in Int /\ 0 <= write_index /\ write_index <= LinkSlot
      /\ dequeue \in Int /\ 0 <= dequeue /\ dequeue <= LinkSlot
      /\ cycle_bit \in {0, 1} /\ ccs \in {0, 1}
  BY Sizes DEF IInv, TypeOK, Bit
<1>2. IF ccs = cycle_bit THEN dequeue <= write_index ELSE write_index < dequeue
  BY DEF IInv, CycleInv
<1>3. Pending = IF ccs = cycle_bit THEN write_index - dequeue
                ELSE LinkSlot - dequeue + write_index
  BY DEF Pending
<1>4. Pending <= MaxPending
  BY DEF IInv, RingInv
<1> QED BY <1>1, <1>2, <1>3, <1>4, Sizes

\* The controller's view of a TRB: if the cycle bit says so, it is the oldest
\* one outstanding or the Link TRB.
LEMMA WrittenMeans ==
  ASSUME IInv, Written
  PROVE  \/ dequeue < LinkSlot /\ IsOutstanding(dequeue)
         \/ dequeue = LinkSlot /\ ccs # cycle_bit
BY RingAssumption
   DEF IInv, TypeOK, CycleInv, Written, IsOutstanding, Slot, LinkSlot, Bit, TRBs

\* No step of the driver or of the controller breaks the invariant.
LEMMA StepInv ==
  ASSUME IInv, [Next]_vars
  PROVE  IInv'
<1> USE Sizes, Positions DEF Toggle
<1>0. LinkTRB \notin Commands /\ Blank \notin Commands /\ CallSteps \cap Commands = {}
  BY CommandsAssumption
<1>1. ASSUME NEW c \in Commands, PushBody(c)
      PROVE  IInv'
  <2>1. write_index < LinkSlot
    BY <1>1 DEF PushBody, IInv, RingInv
  <2>2. TypeOK'
    BY <1>1 DEF PushBody, CopyBody, IInv, TypeOK, TRBs, controller
  <2>3. \A i \in Slot : /\ buf'[i].cycle = buf[i].cycle
                        /\ buf'[i].control = buf[i].control
                        /\ i # write_index => buf'[i].body = buf[i].body
    BY <1>1 DEF PushBody, CopyBody, IInv, TypeOK, TRBs
  <2>4. CycleInv' /\ UNCHANGED <<ccs, cycle_bit, dequeue, write_index>>
    BY <1>1, <2>3 DEF PushBody, IInv, CycleInv, controller
  <2>5. buf'[write_index].body = c
    BY <1>1 DEF PushBody, CopyBody, IInv, TypeOK, TRBs
  <2>6. ~IsOutstanding(write_index)
    BY <2>1 DEF IsOutstanding, IInv, CycleInv, TypeOK
  <2>7. Pending' = Pending /\ Pending < MaxPending /\ step' = c
    BY <1>1, <2>4 DEF PushBody, Pending
  <2>8. \A i \in Slot : IsOutstanding(i)' => i # write_index /\ IsOutstanding(i)
    BY <2>4, <2>6 DEF IsOutstanding
  <2>9. \A i \in Slot : IsOutstanding(i)' => /\ buf'[i].control \in Commands
                                             /\ buf'[i].body = buf'[i].control
    BY <2>3, <2>8 DEF IInv, RingInv
  <2>10. ccs' # cycle_bit' => buf'[LinkSlot].control = LinkTRB
    BY <2>3, <2>4 DEF IInv, RingInv
  <2>11. RingInv'
    BY <1>0, <2>1, <2>4, <2>5, <2>7, <2>9, <2>10 DEF IInv, RingInv, CallSteps
  <2> QED BY <2>2, <2>4, <2>11 DEF IInv
<1>2. ASSUME NEW c \in Commands, PushControl(c)
      PROVE  IInv'
  <2>1. write_index < LinkSlot /\ Pending < MaxPending /\ buf[write_index].body = c
    BY <1>2 DEF PushControl, IInv, RingInv
  <2>2. TypeOK'
    <3>1. buf' \in [Slot -> TRBs]
      BY <1>2 DEF PushControl, CopyControl, IInv, TypeOK, TRBs
    <3>2. write_index' \in Slot
      <4>1. write_index' = write_index + 1
        BY <1>2 DEF PushControl
      <4> QED BY <2>1, <4>1
    <3>3. step' \in CallSteps
      BY <1>2, Zenon DEF PushControl, CallSteps
    <3> QED BY <1>2, <3>1, <3>2, <3>3 DEF PushControl, IInv, TypeOK, controller
  <2>3. /\ \A i \in Slot : i # write_index => buf'[i] = buf[i]
        /\ buf'[write_index].body = c
        /\ buf'[write_index].control = c
        /\ buf'[write_index].cycle = cycle_bit
    BY <1>2, <2>1 DEF PushControl, CopyControl, IInv, TypeOK, TRBs
  <2>4. write_index' = write_index + 1 /\ UNCHANGED <<ccs, cycle_bit, dequeue>>
    BY <1>2 DEF PushControl, controller
  <2>5. CycleInv'
    BY <2>1, <2>3, <2>4 DEF IInv, CycleInv, TypeOK, Pending
  <2>6. RingInv'
    <3>1. Pending' = Pending + 1
      BY <2>4 DEF Pending, IInv, TypeOK
    <3>2. step' = (IF write_index + 1 = LinkSlot THEN "link body" ELSE "pushed")
      BY <1>2 DEF PushControl
    <3>3. step' \notin Commands
      BY <3>2, <1>0 DEF CallSteps
    <3>4. \A i \in Slot : IsOutstanding(i)' => i = write_index \/ IsOutstanding(i)
      BY <2>4 DEF IsOutstanding, IInv, TypeOK
    <3>5. \A i \in Slot : IsOutstanding(i)' => /\ buf'[i].control \in Commands
                                               /\ buf'[i].body = buf'[i].control
      BY <2>3, <3>4 DEF IInv, RingInv
    <3>6. ccs' # cycle_bit' => buf'[LinkSlot].control = LinkTRB
      <4>1. buf'[LinkSlot] = buf[LinkSlot]
        BY <2>1, <2>3
      <4> QED BY <2>4, <4>1 DEF IInv, RingInv
    <3>7. Pending' <= MaxPending
      BY <2>1, <3>1 DEF Pending, IInv, TypeOK
    <3>8. /\ step' \in {"idle", "pushed"} => write_index' < LinkSlot
          /\ step' \in {"link body", "link control"} => write_index' = LinkSlot
      <4>1. CASE write_index + 1 = LinkSlot
        BY <2>4, <3>2, <4>1
      <4>2. CASE write_index + 1 # LinkSlot
        BY <2>1, <2>4, <3>2, <4>2
      <4> QED BY <4>1, <4>2
    <3> QED
      BY <3>3, <3>5, <3>6, <3>7, <3>8 DEF RingInv
  <2> QED BY <2>2, <2>5, <2>6 DEF IInv
<1>3. ASSUME PushLinkBody
      PROVE  IInv'
  <2>1. write_index = LinkSlot
    BY <1>3 DEF PushLinkBody, IInv, RingInv
  <2>2. TypeOK'
    BY <1>3 DEF PushLinkBody, CopyBody, IInv, TypeOK, TRBs, controller, CallSteps
  <2>3. \A i \in Slot : /\ buf'[i].cycle = buf[i].cycle
                        /\ buf'[i].control = buf[i].control
                        /\ i # LinkSlot => buf'[i].body = buf[i].body
    BY <1>3, <2>1 DEF PushLinkBody, CopyBody, IInv, TypeOK, TRBs
  <2>4. CycleInv' /\ UNCHANGED <<ccs, cycle_bit, dequeue, write_index>>
    BY <1>3, <2>3 DEF PushLinkBody, IInv, CycleInv, controller
  <2>5. step' = "link control" /\ step' \notin Commands
    BY <1>0, <1>3 DEF PushLinkBody, CallSteps
  <2>6. \A i \in Slot : IsOutstanding(i)' => i # LinkSlot /\ IsOutstanding(i)
    BY <2>1, <2>4 DEF IsOutstanding, IInv, TypeOK, CycleInv
  <2>7. \A i \in Slot : IsOutstanding(i)' => /\ buf'[i].control \in Commands
                                             /\ buf'[i].body = buf'[i].control
    BY <2>3, <2>6 DEF IInv, RingInv
  <2>8. ccs' # cycle_bit' => buf'[LinkSlot].control = LinkTRB
    BY <2>3, <2>4 DEF IInv, RingInv
  <2>9. Pending' <= MaxPending
    BY <2>4 DEF Pending, IInv, RingInv
  <2>10. RingInv'
    BY <2>1, <2>4, <2>5, <2>7, <2>8, <2>9 DEF RingInv
  <2> QED BY <2>2, <2>4, <2>10 DEF IInv
<1>4. ASSUME PushLinkControl
      PROVE  IInv'
  <2>1. write_index = LinkSlot
    BY <1>4 DEF PushLinkControl, IInv, RingInv
  <2>2. ccs = cycle_bit /\ 0 < dequeue
    BY <2>1 DEF IInv, CycleInv, RingInv, TypeOK, Pending
  <2>3. TypeOK'
    <3>1. buf' \in [Slot -> TRBs]
      BY <1>4 DEF PushLinkControl, CopyControl, IInv, TypeOK, TRBs
    <3>2. write_index' \in Slot /\ cycle_bit' \in Bit
      <4>1. write_index' = 0 /\ cycle_bit' = 1 - cycle_bit
        BY <1>4 DEF PushLinkControl
      <4> QED BY <4>1 DEF Bit
    <3>3. step' \in CallSteps
      BY <1>4, Zenon DEF PushLinkControl, CallSteps
    <3> QED BY <1>4, <3>1, <3>2, <3>3 DEF PushLinkControl, IInv, TypeOK, controller
  <2>4. /\ \A i \in Slot : i # LinkSlot => buf'[i] = buf[i]
        /\ buf'[LinkSlot].control = LinkTRB
        /\ buf'[LinkSlot].cycle = cycle_bit
    BY <1>4, <2>1 DEF PushLinkControl, CopyControl, IInv, TypeOK, TRBs
  <2>5. /\ write_index' = 0 /\ cycle_bit' = 1 - cycle_bit
        /\ UNCHANGED <<ccs, dequeue>>
        /\ step' = "pushed" /\ step' \notin Commands
    BY <1>0, <1>4 DEF PushLinkControl, controller, CallSteps
  <2>6. CycleInv'
    BY <2>1, <2>2, <2>4, <2>5 DEF IInv, CycleInv, TypeOK, TRBs
  <2>7. Pending' = Pending
    BY <2>1, <2>2, <2>5 DEF IInv, TypeOK, Pending
  <2>8. \A i \in Slot : IsOutstanding(i)' => i # LinkSlot /\ IsOutstanding(i)
    BY <2>1, <2>2, <2>5 DEF IInv, TypeOK, IsOutstanding
  <2>9. \A i \in Slot : IsOutstanding(i)' => /\ buf'[i].control \in Commands
                                             /\ buf'[i].body = buf'[i].control
    BY <2>4, <2>8 DEF IInv, RingInv
  <2>10. Pending' <= MaxPending /\ write_index' < LinkSlot
    BY <2>5, <2>7
  <2>11. RingInv'
    BY <2>4, <2>5, <2>9, <2>10 DEF RingInv
  <2> QED BY <2>3, <2>6, <2>11 DEF IInv
<1>5. ASSUME RingDoorbell
      PROVE  IInv'
  <2>1. /\ UNCHANGED <<buf, cycle_bit, write_index, ccs, dequeue, executed>>
        /\ step = "pushed" /\ step' = "idle" /\ step' \notin Commands
        /\ doorbell' \in BOOLEAN
    BY <1>0, <1>5 DEF RingDoorbell, controller, CallSteps
  <2>2. TypeOK' /\ CycleInv'
    BY <2>1 DEF IInv, TypeOK, CycleInv, CallSteps
  <2>3. RingInv'
    BY <2>1 DEF IInv, RingInv, IsOutstanding, Pending
  <2> QED BY <2>2, <2>3 DEF IInv
<1>6. ASSUME Execute
      PROVE  IInv'
  <2>1. dequeue < LinkSlot /\ IsOutstanding(dequeue)
    BY <1>6, WrittenMeans DEF Execute, IInv, RingInv
  <2>2. /\ UNCHANGED <<buf, cycle_bit, write_index, step, doorbell, ccs>>
        /\ dequeue' = dequeue + 1
        /\ executed' \in Commands \cup {Blank}
    BY <1>6, <2>1 DEF Execute, driver, IInv, RingInv, TypeOK
  <2>3. TypeOK' /\ CycleInv'
    BY <2>1, <2>2 DEF IInv, TypeOK, CycleInv, IsOutstanding
  <2>4. Pending' = Pending - 1
    BY <2>2 DEF Pending, IInv, TypeOK
  <2>5. \A i \in Slot : IsOutstanding(i)' => IsOutstanding(i)
    BY <2>2 DEF IsOutstanding, IInv, TypeOK
  <2>6. \A i \in Slot : IsOutstanding(i)' => /\ buf'[i].control \in Commands
                                             /\ buf'[i].body = buf'[i].control
    BY <2>2, <2>5 DEF IInv, RingInv
  <2>7. Pending' <= MaxPending /\ (Pending < MaxPending => Pending' < MaxPending)
    BY <2>4
  <2>8. RingInv'
    BY <2>2, <2>6, <2>7 DEF IInv, RingInv
  <2> QED BY <2>3, <2>8 DEF IInv
<1>7. ASSUME FollowLink
      PROVE  IInv'
  <2>1. dequeue = LinkSlot /\ ccs # cycle_bit
    BY <1>0, <1>7, WrittenMeans DEF FollowLink, IInv, RingInv, TypeOK
  <2>2. /\ UNCHANGED <<buf, cycle_bit, write_index, step, doorbell, executed>>
        /\ dequeue' = 0 /\ ccs' = cycle_bit
    BY <1>7, <2>1 DEF FollowLink, driver, IInv, TypeOK
  <2>3. TypeOK' /\ CycleInv'
    BY <2>1, <2>2 DEF IInv, TypeOK, CycleInv
  <2>4. Pending' = Pending
    BY <2>1, <2>2 DEF Pending, IInv, TypeOK
  <2>5. \A i \in Slot : IsOutstanding(i)' => IsOutstanding(i)
    BY <2>1, <2>2 DEF IsOutstanding, IInv, TypeOK
  <2>6. RingInv'
    BY <2>2, <2>4, <2>5 DEF IInv, RingInv
  <2> QED BY <2>3, <2>6 DEF IInv
<1>8. ASSUME Stop
      PROVE  IInv'
  <2>1. UNCHANGED <<driver, controller>> /\ doorbell' \in BOOLEAN
    BY <1>8 DEF Stop
  <2> QED
    BY <2>1 DEF driver, controller, IInv, TypeOK, CycleInv, RingInv, IsOutstanding, Pending
<1>9. ASSUME UNCHANGED vars
      PROVE  IInv'
  BY <1>9 DEF vars, driver, controller, IInv, TypeOK, CycleInv, RingInv, IsOutstanding, Pending
<1> QED
  BY <1>1, <1>2, <1>3, <1>4, <1>5, <1>6, <1>7, <1>8, <1>9
     DEF Next, DriverStep, ControllerStep

LEMMA InitInv == Init => IInv
<1> SUFFICES ASSUME Init PROVE IInv
  OBVIOUS
<1>1. TypeOK
  <2>1. buf \in [Slot -> TRBs]
    BY DEF Init, TRBs, Bit
  <2>2. write_index \in Slot /\ dequeue \in Slot /\ cycle_bit \in Bit /\ ccs \in Bit
    BY Sizes DEF Init, Bit
  <2>3. step \in CallSteps /\ doorbell \in BOOLEAN /\ executed \in {Blank}
    BY Zenon DEF Init, CallSteps
  <2> QED BY <2>1, <2>2, <2>3 DEF TypeOK
<1>2. CycleInv
  BY RingAssumption DEF Init, CycleInv, Slot
<1>3. "idle" \notin Commands
  BY CommandsAssumption DEF CallSteps
<1>4. RingInv
  BY <1>3, RingAssumption DEF Init, RingInv, IsOutstanding, Pending, Slot, LinkSlot
<1> QED BY <1>1, <1>2, <1>4 DEF IInv

\* The types of the ring's state, and with them that Push never writes past
\* the last slot.
THEOREM RingTypeCorrect == Spec => []TypeOK
<1>1. IInv => TypeOK
  BY DEF IInv
<1> QED BY <1>1, InitInv, StepInv, PTL DEF Spec

\* The cycle bits of the ring: for every ring size, if two slots are left free.
THEOREM CycleCorrect == Spec => []CycleInv
<1>1. IInv => CycleInv
  BY DEF IInv
<1> QED BY <1>1, InitInv, StepInv, PTL DEF Spec

\* Sequences described by what is at each index.
LEMMA SeqByIndex ==
  ASSUME NEW S, NEW n \in Nat, NEW q,
         q = [i \in 1 .. n |-> q[i]], \A i \in 1 .. n : q[i] \in S
  PROVE  q \in Seq(S) /\ Len(q) = n
<1>1. q \in [1 .. n -> S]
  OBVIOUS
<1>2. q \in Seq(S)
  BY <1>1
<1> QED BY <1>1, <1>2

LEMMA IsAppend ==
  ASSUME NEW S, NEW q \in Seq(S), NEW c \in S, NEW r,
         r = [i \in 1 .. Len(q) + 1 |-> r[i]],
         \A i \in 1 .. Len(q) : r[i] = q[i],
         r[Len(q) + 1] = c
  PROVE  r = Append(q, c)
<1> DEFINE n == Len(q) + 1
<1>1. n \in Nat /\ \A i \in 1 .. n : i \in 1 .. Len(q) \/ i = n
  OBVIOUS
<1>2. \A i \in 1 .. n : r[i] \in S
  BY <1>1, ElementOfSeq
<1> HIDE DEF n
<1>3. r = [i \in 1 .. n |-> r[i]]
  BY DEF n
<1>4. r \in Seq(S) /\ Len(r) = n
  BY <1>1, <1>2, <1>3, SeqByIndex
<1>5. /\ Append(q, c) \in Seq(S) /\ Len(Append(q, c)) = n
      /\ \A i \in 1 .. Len(q) : Append(q, c)[i] = q[i]
      /\ Append(q, c)[n] = c
  BY AppendProperties DEF n
<1>6. \A i \in 1 .. n : r[i] = Append(q, c)[i]
  BY <1>1, <1>5 DEF n
<1> QED BY <1>4, <1>5, <1>6, SeqEqual

LEMMA IsTail ==
  ASSUME NEW S, NEW q \in Seq(S), q # <<>>, NEW r,
         r = [i \in 1 .. Len(q) - 1 |-> r[i]],
         \A i \in 1 .. Len(q) - 1 : r[i] = q[i + 1]
  PROVE  r = Tail(q)
<1> DEFINE n == Len(q) - 1
<1>1. n \in Nat /\ \A i \in 1 .. n : i + 1 \in 1 .. Len(q)
  BY EmptySeq
<1>2. \A i \in 1 .. n : r[i] \in S
  BY <1>1, ElementOfSeq
<1> HIDE DEF n
<1>3. r = [i \in 1 .. n |-> r[i]] /\ \A i \in 1 .. n : r[i] = q[i + 1]
  BY DEF n
<1>4. r \in Seq(S) /\ Len(r) = n
  BY <1>1, <1>2, <1>3, SeqByIndex
<1>5. /\ Tail(q) \in Seq(S) /\ Len(Tail(q)) = n
      /\ \A i \in 1 .. n : Tail(q)[i] = q[i + 1]
  BY HeadTailProperties DEF n
<1> QED BY <1>3, <1>4, <1>5, SeqEqual

\* One step of the ring is one step of the queue, or none.
LEMMA StepRefines ==
  ASSUME IInv, IInv', [Next]_vars
  PROVE  [Abstract!Next]_(Abstract!vars)
<1> DEFINE Index(at) == IF at < LinkSlot THEN at ELSE at - LinkSlot
<1> USE Sizes, Positions DEF Toggle
<1>0. LinkTRB \notin Commands
  BY CommandsAssumption
<1>2. ASSUME NEW i \in 1 .. Pending
      PROVE  Index(dequeue + i - 1) \in Slot /\ IsOutstanding(Index(dequeue + i - 1))
  <2>1. CASE ccs = cycle_bit
    BY <1>2, <2>1 DEF IsOutstanding
  <2>2. CASE ccs # cycle_bit
    BY <1>2, <2>2 DEF IsOutstanding
  <2> QED BY <2>1, <2>2
<1>3. Outstanding \in Seq(Commands) /\ Len(Outstanding) = Pending
  <2>1. \A i \in 1 .. Pending : buf[Index(dequeue + i - 1)].control \in Commands
    BY <1>2 DEF IInv, RingInv
  <2>2. Outstanding = [i \in 1 .. Pending |-> buf[Index(dequeue + i - 1)].control]
    BY DEF Outstanding
  <2>3. /\ Outstanding = [i \in 1 .. Pending |-> Outstanding[i]]
        /\ \A i \in 1 .. Pending : Outstanding[i] \in Commands
    BY <2>1, <2>2
  <2> QED BY <2>3, SeqByIndex
<1>4. ASSUME UNCHANGED <<ccs, cycle_bit, dequeue, write_index, executed>>,
             \A i \in Slot : buf'[i].control = buf[i].control
      PROVE  UNCHANGED Abstract!vars
  <2>1. Pending' = Pending
    BY <1>4 DEF Pending
  <2>2. Outstanding' = Outstanding
    BY <1>2, <1>4, <2>1 DEF Outstanding
  <2> QED BY <1>4, <2>2 DEF Abstract!vars
<1>5. ASSUME NEW c \in Commands, PushBody(c)
      PROVE  UNCHANGED Abstract!vars
  BY <1>4, <1>5 DEF PushBody, CopyBody, controller, IInv, TypeOK, TRBs
<1>6. ASSUME NEW c \in Commands, PushControl(c)
      PROVE  Abstract!Put(c)
  <2>1. /\ write_index < LinkSlot
        /\ write_index' = write_index + 1
        /\ UNCHANGED <<ccs, cycle_bit, dequeue, executed>>
    BY <1>6 DEF PushControl, controller, IInv, RingInv
  <2>2. /\ \A i \in Slot : i # write_index => buf'[i].control = buf[i].control
        /\ buf'[write_index].control = c
    BY <1>6 DEF PushControl, CopyControl, IInv, TypeOK, TRBs
  <2>3. Pending' = Pending + 1
    BY <2>1 DEF Pending, IInv, TypeOK
  <2>4. Index(dequeue + Pending) = write_index
    BY <2>1 DEF Pending, IInv, TypeOK, CycleInv
  <2>5. \A i \in 1 .. Pending : Index(dequeue + i - 1) # write_index
    BY <1>2, <2>1 DEF IsOutstanding, IInv, CycleInv, TypeOK
  <2>6. Outstanding' = [i \in 1 .. Pending + 1 |-> buf'[Index(dequeue + i - 1)].control]
    BY <2>1, <2>3 DEF Outstanding
  <2>7. \A i \in 1 .. Pending : Outstanding'[i] = Outstanding[i]
    <3>1. Outstanding = [i \in 1 .. Pending |-> buf[Index(dequeue + i - 1)].control]
      BY DEF Outstanding
    <3>2. \A i \in 1 .. Pending :
            buf'[Index(dequeue + i - 1)].control = buf[Index(dequeue + i - 1)].control
      BY <1>2, <2>2, <2>5
    <3> HIDE DEF Index
    <3>3. ASSUME NEW i \in 1 .. Pending
          PROVE  Outstanding'[i] = Outstanding[i]
      <4>1. i \in 1 .. Pending + 1
        OBVIOUS
      <4>2. Outstanding'[i] = buf'[Index(dequeue + i - 1)].control
        BY <2>6, <4>1
      <4>3. Outstanding[i] = buf[Index(dequeue + i - 1)].control
        BY <3>1
      <4> QED BY <3>2, <4>2, <4>3
    <3> QED BY <3>3
  <2>8. Outstanding'[Pending + 1] = c
    <3>1. dequeue + (Pending + 1) - 1 = dequeue + Pending
      OBVIOUS
    <3>2. Pending + 1 \in 1 .. Pending + 1
      OBVIOUS
    <3>3. Outstanding'[Pending + 1] = buf'[Index(dequeue + (Pending + 1) - 1)].control
      BY <2>6, <3>2
    <3> HIDE DEF Index
    <3> QED BY <2>2, <2>4, <3>1, <3>3
  <2>9. Outstanding' = Append(Outstanding, c)
    <3>1. Outstanding' = [i \in 1 .. Len(Outstanding) + 1 |-> Outstanding'[i]]
      BY <1>3, <2>6
    <3> HIDE DEF Index
    <3> QED BY <1>3, <2>7, <2>8, <3>1, IsAppend
  <2> QED BY <2>1, <2>9 DEF Abstract!Put
<1>7. ASSUME PushLinkBody
      PROVE  UNCHANGED Abstract!vars
  BY <1>4, <1>7 DEF PushLinkBody, CopyBody, controller, IInv, TypeOK, TRBs
<1>8. ASSUME PushLinkControl
      PROVE  UNCHANGED Abstract!vars
  <2>1. /\ write_index = LinkSlot /\ ccs = cycle_bit
        /\ write_index' = 0 /\ cycle_bit' = 1 - cycle_bit
        /\ UNCHANGED <<ccs, dequeue, executed>>
    <3>1. write_index = LinkSlot
      BY <1>8 DEF PushLinkControl, IInv, RingInv
    <3>2. ccs = cycle_bit
      BY <3>1
    <3> QED BY <1>8, <3>1, <3>2 DEF PushLinkControl, controller
  <2>2. \A i \in Slot : i # LinkSlot => buf'[i].control = buf[i].control
    BY <1>8, <2>1 DEF PushLinkControl, CopyControl, IInv, TypeOK, TRBs
  <2>3. Pending' = Pending
    BY <2>1 DEF Pending, IInv, TypeOK
  <2>4. \A i \in 1 .. Pending : Index(dequeue + i - 1) # LinkSlot
    BY <1>2, <2>1 DEF IsOutstanding
  <2>5. Outstanding' = Outstanding
    BY <1>2, <2>1, <2>2, <2>3, <2>4 DEF Outstanding
  <2> QED BY <2>1, <2>5 DEF Abstract!vars
<1>9. ASSUME Execute
      PROVE  Abstract!Take
  <2>1. dequeue < LinkSlot /\ IsOutstanding(dequeue)
    BY <1>9, WrittenMeans DEF Execute, IInv, RingInv
  <2>2. /\ UNCHANGED <<buf, cycle_bit, write_index, ccs>>
        /\ dequeue' = dequeue + 1
        /\ executed' = buf[dequeue].control
    BY <1>9, <2>1 DEF Execute, driver, IInv, RingInv, TypeOK
  <2>3. Pending' = Pending - 1
    BY <2>2 DEF Pending, IInv, TypeOK
  <2>4. Pending > 0
    BY <2>1 DEF IsOutstanding
  <2>5. Outstanding' = [i \in 1 .. Pending - 1 |-> buf[Index(dequeue + 1 + i - 1)].control]
    BY <2>2, <2>3 DEF Outstanding
  <2>6. Outstanding[1] = executed'
    BY <2>1, <2>2, <2>4 DEF Outstanding, IInv, TypeOK
  <2>7. \A i \in 1 .. Pending - 1 : Outstanding'[i] = Outstanding[i + 1]
    <3>1. Outstanding = [i \in 1 .. Pending |-> buf[Index(dequeue + i - 1)].control]
      BY DEF Outstanding
    <3>2. \A i \in 1 .. Pending - 1 : /\ i + 1 \in 1 .. Pending
                                      /\ dequeue + 1 + i - 1 = dequeue + (i + 1) - 1
      OBVIOUS
    <3> HIDE DEF Index
    <3> QED BY <2>5, <3>1, <3>2
  <2>8. Outstanding # <<>> /\ Head(Outstanding) = Outstanding[1]
    BY <1>3, <2>4
  <2>9. Outstanding' = Tail(Outstanding)
    <3>1. Outstanding' = [i \in 1 .. Len(Outstanding) - 1 |-> Outstanding'[i]]
      BY <1>3, <2>5
    <3> HIDE DEF Index
    <3> QED BY <1>3, <2>7, <2>8, <3>1, IsTail
  <2> QED BY <2>6, <2>8, <2>9 DEF Abstract!Take
<1>10. ASSUME FollowLink
       PROVE  UNCHANGED Abstract!vars
  <2>1. dequeue = LinkSlot /\ ccs # cycle_bit
    BY <1>0, <1>10, WrittenMeans DEF FollowLink, IInv, RingInv, TypeOK
  <2>2. /\ UNCHANGED <<buf, cycle_bit, write_index, executed>>
        /\ dequeue' = 0 /\ ccs' = cycle_bit
    BY <1>10, <2>1 DEF FollowLink, driver, IInv, TypeOK
  <2>3. Pending' = Pending /\ Pending = write_index
    BY <2>1, <2>2 DEF Pending, IInv, TypeOK
  <2>4. \A i \in 1 .. Pending : Index(dequeue + i - 1) = i - 1 /\ Index(0 + i - 1) = i - 1
    BY <2>1, <2>3 DEF IInv, TypeOK
  <2>5. Outstanding' = Outstanding
    BY <2>2, <2>3, <2>4 DEF Outstanding
  <2> QED BY <2>2, <2>5 DEF Abstract!vars
<1>11. ASSUME RingDoorbell \/ Stop \/ UNCHANGED vars
       PROVE  UNCHANGED Abstract!vars
  BY <1>4, <1>11 DEF RingDoorbell, Stop, vars, driver, controller
<1> QED
  BY <1>5, <1>6, <1>7, <1>8, <1>9, <1>10, <1>11
     DEF Next, DriverStep, ControllerStep, Abstract!Next

\* The ring is a queue: no TRB is lost, repeated, reordered or read half
\* written, whatever the two sides do between each other's memory accesses.
THEOREM RingIsFifo == Spec => ImplementsFifo
<1>1. Init => Abstract!Init
  <2> SUFFICES ASSUME Init PROVE Abstract!Init
    OBVIOUS
  <2>1. Pending = 0
    BY DEF Init, Pending
  <2>2. Outstanding = <<>>
    BY <2>1 DEF Outstanding
  <2> QED BY <2>2 DEF Init, Abstract!Init
<1> QED
  BY <1>1, InitInv, StepInv, StepRefines, PTL DEF Spec, ImplementsFifo, Abstract!Spec
-----------------------------------------------------------------------------
(* The other direction: the event ring, which the controller writes and    *)
(* the driver reads, with constants and variables of its own.              *)

\* The slots with events that the driver has not given back yet.
EvOccupied(i) ==
  IF ev_cycle_bit = pcs THEN erdp <= i /\ i < enqueue ELSE erdp <= i \/ i < enqueue

\* The inductive invariant: the events in the ring are whole, and the one the
\* driver is at stays there until it is given back.
EvIInv ==
  /\ EvTypeOK /\ EvCycleInv
  /\ \A i \in EvSlot : EvOccupied(i) => ev_buf[i].event \in Events
  /\ ev_step \in {"handle", "pop"} => EvOccupied(erdp)

\* The ring after Initialize.
LEMMA EvInitInv == EvInit => EvIInv
<1> SUFFICES ASSUME EvInit PROVE EvIInv
  OBVIOUS
<1>1. EvTypeOK
  <2>1. NoEvent \in Events \cup {NoEvent} /\ 0 \in EvBit /\ 1 \in EvBit
    BY DEF EvBit
  <2>2. ev_buf \in [EvSlot -> [event : Events \cup {NoEvent}, cycle : EvBit]]
    BY <2>1 DEF EvInit
  <2>3. 0 \in EvSlot
    BY EventRingAssumption DEF EvSlot
  <2> QED BY <2>1, <2>2, <2>3 DEF EvInit, EvTypeOK
<1>2. EvCycleInv
  BY EventRingAssumption DEF EvInit, EvCycleInv, EvSlot
<1> QED BY <1>1, <1>2 DEF EvIInv, EvInit, EvOccupied, EvSlot

\* The positions, as numbers.
LEMMA EvPositions ==
  ASSUME EvIInv
  PROVE  /\ EvBufSize \in Nat /\ EvBufSize >= 2 /\ 0 \in EvSlot
         /\ enqueue \in EvSlot /\ enqueue \in 0 .. EvBufSize - 1
         /\ erdp \in EvSlot /\ erdp \in 0 .. EvBufSize - 1
         /\ pcs \in {0, 1} /\ ev_cycle_bit \in {0, 1}
         /\ After(enqueue) \in EvSlot /\ After(erdp) \in EvSlot
BY EventRingAssumption DEF EvIInv, EvTypeOK, EvSlot, EvBit, After

\* The controller writes behind all events, never on one.
LEMMA EvPost ==
  ASSUME EvIInv, NEW e \in Events, Post(e)
  PROVE  /\ EvIInv'
         /\ ~EvOccupied(enqueue)
         /\ \A i \in EvSlot : EvOccupied(i)' <=> EvOccupied(i) \/ i = enqueue
         /\ \A i \in EvSlot : i # enqueue => ev_buf'[i] = ev_buf[i]
         /\ ev_buf'[enqueue].event = e
<1> USE EvPositions
<1>0. /\ UNCHANGED <<erdp, ev_cycle_bit, ev_step, read_busy, handled>>
      /\ enqueue' = After(enqueue) /\ After(enqueue) # erdp
      /\ pcs' = IF enqueue + 1 = EvBufSize THEN EvToggle(pcs) ELSE pcs
      /\ ev_buf' = [ev_buf EXCEPT ![enqueue] = [event |-> e, cycle |-> pcs]]
  BY DEF Post
<1>1. /\ \A i \in EvSlot : i # enqueue => ev_buf'[i] = ev_buf[i]
      /\ ev_buf'[enqueue] = [event |-> e, cycle |-> pcs]
      /\ ev_buf' \in [EvSlot -> [event : Events \cup {NoEvent}, cycle : EvBit]]
  BY <1>0 DEF EvIInv, EvTypeOK
<1>2. EvTypeOK'
  <2>1. busy' \in EvBit /\ requested' \in BOOLEAN
    BY DEF Post, Interrupt, EvIInv, EvTypeOK, EvBit
  <2>2. enqueue' \in EvSlot /\ pcs' \in EvBit
    BY <1>0 DEF EvToggle, EvBit
  <2> QED BY <1>0, <1>1, <2>1, <2>2 DEF EvIInv, EvTypeOK
<1>3. ~EvOccupied(enqueue)
  BY DEF EvIInv, EvCycleInv, EvOccupied
<1>4. \A i \in EvSlot : EvOccupied(i)' <=> EvOccupied(i) \/ i = enqueue
  <2>1. CASE enqueue + 1 = EvBufSize
    BY <1>0, <2>1 DEF EvIInv, EvCycleInv, EvOccupied, After, EvToggle, EvSlot
  <2>2. CASE enqueue + 1 # EvBufSize
    BY <1>0, <2>2 DEF EvIInv, EvCycleInv, EvOccupied, After, EvSlot
  <2> QED BY <2>1, <2>2
<1>5. EvCycleInv'
  <2>1. CASE enqueue + 1 = EvBufSize
    <3>1. \A i \in EvSlot : (ev_buf'[i].cycle = pcs') <=> (i < enqueue')
      <4>1. \A i \in EvSlot : ev_buf'[i].cycle = pcs
        BY <1>1, <2>1 DEF EvIInv, EvCycleInv, EvSlot
      <4> QED BY <1>0, <2>1, <4>1 DEF After, EvToggle, EvSlot
    <3> QED BY <1>0, <2>1, <3>1 DEF EvIInv, EvCycleInv, After, EvToggle
  <2>2. CASE enqueue + 1 # EvBufSize
    <3>1. \A i \in EvSlot : (ev_buf'[i].cycle = pcs') <=> (i < enqueue')
      BY <1>0, <1>1, <2>2 DEF EvIInv, EvCycleInv, After, EvSlot
    <3> QED BY <1>0, <2>2, <3>1 DEF EvIInv, EvCycleInv, After
  <2> QED BY <2>1, <2>2
<1>6. \A i \in EvSlot : EvOccupied(i)' => ev_buf'[i].event \in Events
  BY <1>1, <1>4 DEF EvIInv
<1>7. ev_step' \in {"handle", "pop"} => EvOccupied(erdp)'
  BY <1>0, <1>4 DEF EvIInv, EvOccupied
<1>8. EvIInv'
  BY <1>2, <1>5, <1>6, <1>7 DEF EvIInv
<1> QED BY <1>1, <1>3, <1>4, <1>8

\* HasFront tells whether an event waits at the dequeue pointer.
LEMMA EvHasFront ==
  ASSUME EvIInv
  PROVE  HasFront <=> EvOccupied(erdp)
BY EvPositions DEF HasFront, EvOccupied, EvIInv, EvCycleInv, EvTypeOK, EvBit

\* Pop gives back the first slot.
LEMMA EvPop ==
  ASSUME EvIInv, Pop
  PROVE  EvIInv'
<1> USE EvPositions
<1>0. /\ ev_step = "pop" /\ ev_step' = "poll" /\ EvOccupied(erdp)
      /\ erdp' = After(erdp)
      /\ ev_cycle_bit' = IF erdp + 1 = EvBufSize THEN EvToggle(ev_cycle_bit) ELSE ev_cycle_bit
      /\ UNCHANGED <<ev_buf, enqueue, pcs, read_busy, handled>>
  BY DEF Pop, EvIInv
<1>1. EvTypeOK'
  <2>1. busy' \in EvBit /\ requested' \in BOOLEAN
    BY DEF Pop, Interrupt, EvIInv, EvTypeOK, EvBit
  <2>2. ev_cycle_bit' \in EvBit
    BY <1>0 DEF EvToggle, EvBit
  <2> QED BY <1>0, <2>1, <2>2 DEF EvIInv, EvTypeOK
<1>2. EvCycleInv'
  <2>1. \A i \in EvSlot : (ev_buf'[i].cycle = pcs') <=> (i < enqueue')
    BY <1>0 DEF EvIInv, EvCycleInv
  <2>2. IF ev_cycle_bit' = pcs' THEN erdp' <= enqueue' ELSE enqueue' < erdp'
    BY <1>0 DEF EvIInv, EvCycleInv, After, EvToggle, EvOccupied
  <2> QED BY <2>1, <2>2 DEF EvCycleInv
<1>3. \A i \in EvSlot : EvOccupied(i)' => EvOccupied(i)
  BY <1>0 DEF EvIInv, EvCycleInv, After, EvToggle, EvOccupied, EvSlot
<1> QED BY <1>0, <1>1, <1>2, <1>3 DEF EvIInv

\* Every step keeps the invariant.
LEMMA EvStep ==
  ASSUME EvIInv, [EvNext]_ev_vars
  PROVE  EvIInv'
<1>1. ASSUME NEW e \in Events, Post(e) PROVE EvIInv'
  BY <1>1, EvPost
<1>2. CASE LateInterrupt
  BY <1>2 DEF LateInterrupt, Interrupt, EvIInv, EvTypeOK, EvCycleInv, EvOccupied, EvBit
<1>3. CASE ReceiveInterrupt
  BY <1>3 DEF ReceiveInterrupt, EvIInv, EvTypeOK, EvCycleInv, EvOccupied
<1>4. CASE Poll
  BY <1>4, EvHasFront DEF Poll, EvIInv, EvTypeOK, EvCycleInv, EvOccupied
<1>5. CASE Handle
  <2>1. ev_buf[erdp].event \in Events
    BY <1>5 DEF Handle, EvIInv, EvTypeOK
  <2> QED BY <1>5, <2>1 DEF Handle, EvIInv, EvTypeOK, EvCycleInv, EvOccupied
<1>6. CASE Pop
  BY <1>6, EvPop
<1>7. CASE UNCHANGED ev_vars
  BY <1>7 DEF ev_vars, EvIInv, EvTypeOK, EvCycleInv, EvOccupied
<1> QED BY <1>1, <1>2, <1>3, <1>4, <1>5, <1>6, <1>7 DEF EvNext, EvDriverStep

\* The number of events waiting, and where the i-th of them is.
EvCount == IF ev_cycle_bit = pcs THEN enqueue - First ELSE EvBufSize - First + enqueue
EvIndex(at) == IF at < EvBufSize THEN at ELSE at - EvBufSize

\* The queue of waiting events, slot by slot.
LEMMA EvWaiting ==
  ASSUME EvIInv
  PROVE  /\ First \in 0 .. EvBufSize /\ EvCount \in Nat
         /\ Waiting = [i \in 1 .. EvCount |-> ev_buf[EvIndex(First + i - 1)].event]
         /\ \A i \in 1 .. EvCount : /\ EvIndex(First + i - 1) \in EvSlot
                                    /\ EvOccupied(EvIndex(First + i - 1))
         /\ Waiting \in Seq(Events) /\ Len(Waiting) = EvCount
<1> USE EvPositions
<1>1. First \in 0 .. EvBufSize
  BY DEF First
<1>2. EvCount \in Nat
  BY DEF First, EvCount, EvIInv, EvCycleInv, EvOccupied
<1>3. Waiting = [i \in 1 .. EvCount |-> ev_buf[EvIndex(First + i - 1)].event]
  BY DEF Waiting, EvCount, EvIndex
<1>4. ASSUME NEW i \in 1 .. EvCount
      PROVE  /\ EvIndex(First + i - 1) \in EvSlot
             /\ EvOccupied(EvIndex(First + i - 1))
  <2>1. erdp <= First
    BY DEF First
  <2>2. CASE ev_cycle_bit = pcs
    BY <1>1, <2>1, <2>2 DEF EvCount, EvIndex, EvOccupied, EvSlot
  <2>3. CASE ev_cycle_bit # pcs
    BY <1>1, <2>1, <2>3 DEF EvCount, EvIndex, EvOccupied, EvSlot, EvIInv, EvCycleInv
  <2> QED BY <2>2, <2>3
<1>5. \A i \in 1 .. EvCount : ev_buf[EvIndex(First + i - 1)].event \in Events
  BY <1>4 DEF EvIInv
<1>6. /\ Waiting = [i \in 1 .. EvCount |-> Waiting[i]]
      /\ \A i \in 1 .. EvCount : Waiting[i] \in Events
  BY <1>3, <1>5
<1>7. Waiting \in Seq(Events) /\ Len(Waiting) = EvCount
  BY <1>2, <1>6, SeqByIndex
<1> QED BY <1>1, <1>2, <1>3, <1>4, <1>7

\* What the queue does when the controller posts an event.
LEMMA EvPostRefines ==
  ASSUME EvIInv, NEW e \in Events, Post(e)
  PROVE  EvAbstract!Put(e)
<1> USE EvPositions, EvWaiting
<1> DEFINE at(i) == EvIndex(First + i - 1)
           n == EvCount
<1>1. /\ ~EvOccupied(enqueue)
      /\ \A i \in EvSlot : i # enqueue => ev_buf'[i] = ev_buf[i]
      /\ ev_buf'[enqueue].event = e
  BY EvPost
<1>2. First' = First /\ handled' = handled
  BY DEF Post, First
<1>3. EvCount' = n + 1
  <2>0. /\ enqueue' = After(enqueue) /\ ev_cycle_bit' = ev_cycle_bit
        /\ pcs' = IF enqueue + 1 = EvBufSize THEN EvToggle(pcs) ELSE pcs
    BY DEF Post
  <2>1. CASE enqueue + 1 = EvBufSize
    <3>1. ev_cycle_bit = pcs
      BY <2>1 DEF EvIInv, EvCycleInv
    <3> QED BY <1>2, <2>0, <2>1, <3>1 DEF EvCount, After, EvToggle
  <2>2. CASE enqueue + 1 # EvBufSize
    <3>1. enqueue' = enqueue + 1 /\ pcs' = pcs
      BY <2>0, <2>2 DEF After
    <3>2. First \in Int /\ enqueue \in Int /\ EvBufSize \in Int
      OBVIOUS
    <3> QED BY <1>2, <2>0, <3>1, <3>2 DEF EvCount
  <2> QED BY <2>1, <2>2
<1>4. at(n + 1) = enqueue
  <2>1. First + (n + 1) - 1 = IF ev_cycle_bit = pcs THEN enqueue ELSE EvBufSize + enqueue
    BY DEF EvCount
  <2>2. enqueue \in Int /\ 0 <= enqueue /\ enqueue < EvBufSize
    OBVIOUS
  <2> QED BY <2>1, <2>2 DEF EvIndex
<1>5. Waiting' = [i \in 1 .. n + 1 |-> ev_buf'[at(i)].event]
  BY <1>2, <1>3 DEF Waiting, EvCount, EvIndex
<1>6. ASSUME NEW i \in 1 .. n PROVE Waiting'[i] = Waiting[i]
  <2>1. at(i) \in EvSlot /\ at(i) # enqueue
    BY <1>1
  <2>2. ev_buf'[at(i)] = ev_buf[at(i)]
    BY <1>1, <2>1
  <2>3. Waiting[i] = ev_buf[at(i)].event
    OBVIOUS
  <2> HIDE DEF at, n
  <2>4. i \in 1 .. n + 1
    BY DEF n
  <2> QED BY <1>5, <2>2, <2>3, <2>4
<1>7. Waiting'[n + 1] = e
  <2> HIDE DEF at
  <2>1. n + 1 \in 1 .. n + 1
    OBVIOUS
  <2> QED BY <1>1, <1>4, <1>5, <2>1
<1>8. Waiting' = Append(Waiting, e)
  <2>1. Waiting' = [i \in 1 .. Len(Waiting) + 1 |-> Waiting'[i]]
    BY <1>5
  <2>2. Waiting \in Seq(Events) /\ Len(Waiting) = n
    OBVIOUS
  <2> HIDE DEF at, n
  <2> QED BY <1>6, <1>7, <2>1, <2>2, IsAppend
<1> QED BY <1>2, <1>8 DEF EvAbstract!Put

\* ... and when the driver handles one.
LEMMA EvHandleRefines ==
  ASSUME EvIInv, Handle
  PROVE  EvAbstract!Take
<1> USE EvPositions, EvWaiting
<1> DEFINE at(i) == EvIndex(First + i - 1)
           n == EvCount
<1>1. /\ ev_step = "handle" /\ ev_step' = "pop" /\ EvOccupied(erdp)
      /\ handled' = ev_buf[erdp].event
      /\ UNCHANGED <<ev_buf, enqueue, pcs, erdp, ev_cycle_bit>>
  BY DEF Handle, EvIInv
<1>2. First = erdp /\ First' = erdp + 1
  BY <1>1 DEF First
<1>3. EvCount' = n - 1 /\ n > 0
  <2>1. erdp \in Int /\ enqueue \in Int /\ EvBufSize \in Int /\ 0 <= enqueue /\ erdp < EvBufSize
    OBVIOUS
  <2>2. EvCount' = IF ev_cycle_bit = pcs THEN enqueue - (erdp + 1)
                   ELSE EvBufSize - (erdp + 1) + enqueue
    BY <1>1, <1>2 DEF EvCount
  <2>3. EvCount = IF ev_cycle_bit = pcs THEN enqueue - erdp ELSE EvBufSize - erdp + enqueue
    BY <1>2 DEF EvCount
  <2>4. ev_cycle_bit = pcs => erdp < enqueue
    BY <1>1 DEF EvOccupied
  <2> QED BY <2>1, <2>2, <2>3, <2>4
<1>4. Waiting' = [i \in 1 .. n - 1 |-> ev_buf[EvIndex(First + 1 + i - 1)].event]
  BY <1>1, <1>2, <1>3 DEF Waiting, EvCount, EvIndex
<1>5. ASSUME NEW i \in 1 .. n - 1 PROVE Waiting'[i] = Waiting[i + 1]
  <2>1. i + 1 \in 1 .. n /\ First + 1 + i - 1 = First + (i + 1) - 1
    OBVIOUS
  <2>2. Waiting[i + 1] = ev_buf[EvIndex(First + (i + 1) - 1)].event
    BY <2>1
  <2> HIDE DEF n
  <2> QED BY <1>4, <2>1, <2>2
<1>6. Waiting[1] = handled'
  <2>1. 1 \in 1 .. n /\ EvIndex(First + 1 - 1) = erdp
    BY <1>2, <1>3 DEF EvIndex
  <2> QED BY <1>1, <2>1
<1>7. Waiting # <<>> /\ Head(Waiting) = Waiting[1]
  BY <1>3
<1>8. Waiting' = Tail(Waiting)
  <2>1. Waiting' = [i \in 1 .. Len(Waiting) - 1 |-> Waiting'[i]]
    BY <1>4
  <2>2. Waiting \in Seq(Events) /\ Len(Waiting) = n
    OBVIOUS
  <2> HIDE DEF n
  <2> QED BY <1>5, <1>7, <2>1, <2>2, IsTail
<1> QED BY <1>6, <1>7, <1>8 DEF EvAbstract!Take

\* ... and when it gives the slot back: nothing, also at the end of the ring.
LEMMA EvPopRefines ==
  ASSUME EvIInv, Pop
  PROVE  UNCHANGED EvAbstract!vars
<1> USE EvPositions, EvWaiting
<1>1. /\ ev_step = "pop" /\ ev_step' = "poll" /\ EvOccupied(erdp)
      /\ erdp' = After(erdp)
      /\ ev_cycle_bit' = IF erdp + 1 = EvBufSize THEN EvToggle(ev_cycle_bit) ELSE ev_cycle_bit
      /\ UNCHANGED <<ev_buf, enqueue, pcs, handled>>
  BY DEF Pop, EvIInv
<1>2. First = erdp + 1 /\ First' = After(erdp)
  BY <1>1 DEF First
<1>3. EvCount' = EvCount
  <2>1. CASE erdp + 1 = EvBufSize
    <3>1. ev_cycle_bit # pcs
      BY <1>1, <2>1 DEF EvOccupied
    <3>2. ev_cycle_bit' = pcs /\ First' = 0
      BY <1>1, <1>2, <2>1, <3>1 DEF EvToggle, EvBit, After
    <3>3. EvCount' = enqueue - 0
      BY <1>1, <3>2 DEF EvCount
    <3>4. EvCount = EvBufSize - (erdp + 1) + enqueue
      BY <1>2, <3>1 DEF EvCount
    <3> QED BY <2>1, <3>3, <3>4
  <2>2. CASE erdp + 1 # EvBufSize
    <3>1. ev_cycle_bit' = ev_cycle_bit /\ First' = First
      BY <1>1, <1>2, <2>2 DEF After
    <3> QED BY <1>1, <3>1 DEF EvCount
  <2> QED BY <2>1, <2>2
<1>4. ASSUME NEW i \in 1 .. EvCount
      PROVE  EvIndex(First' + i - 1) = EvIndex(First + i - 1)
  <2>1. CASE erdp + 1 = EvBufSize
    <3>1. ev_cycle_bit # pcs /\ EvCount = enqueue
      BY <1>1, <1>2, <2>1 DEF EvOccupied, EvCount
    <3> QED BY <1>2, <2>1, <3>1 DEF After, EvIndex
  <2>2. CASE erdp + 1 # EvBufSize
    BY <1>2, <2>2 DEF After
  <2> QED BY <2>1, <2>2
<1>5. Waiting' = [i \in 1 .. EvCount |-> ev_buf[EvIndex(First' + i - 1)].event]
  BY <1>1, <1>3 DEF Waiting, EvCount, EvIndex
<1>6. Waiting' = Waiting
  BY <1>4, <1>5
<1> QED BY <1>1, <1>6 DEF EvAbstract!vars

\* One step of the ring is one step of the queue, or none.
LEMMA EvRefines ==
  ASSUME EvIInv, [EvNext]_ev_vars
  PROVE  [EvAbstract!Next]_(EvAbstract!vars)
<1>1. ASSUME NEW e \in Events, Post(e) PROVE EvAbstract!Next
  BY <1>1, EvPostRefines DEF EvAbstract!Next
<1>2. CASE Handle
  BY <1>2, EvHandleRefines DEF EvAbstract!Next
<1>3. CASE Pop
  BY <1>3, EvPopRefines
<1>4. CASE LateInterrupt \/ ReceiveInterrupt \/ Poll \/ UNCHANGED ev_vars
  <2>1. /\ UNCHANGED <<ev_buf, enqueue, pcs, erdp, ev_cycle_bit, handled>>
        /\ ev_step = "pop" <=> ev_step' = "pop"
    BY <1>4 DEF LateInterrupt, ReceiveInterrupt, Poll, ev_vars
  <2>2. First' = First
    BY <2>1 DEF First
  <2>3. Waiting' = Waiting
    BY <2>1, <2>2 DEF Waiting
  <2> QED BY <2>1, <2>3 DEF EvAbstract!vars
<1> QED BY <1>1, <1>2, <1>3, <1>4 DEF EvNext, EvDriverStep

\* The event ring is a queue: the driver handles every event the controller
\* posts, once and in order, although the controller goes on posting while the
\* driver polls and handles, and although a slot is given back only by Pop.
THEOREM EventRingIsFifo == EvSpec => ImplementsEventFifo
<1>1. EvInit => EvAbstract!Init
  <2> SUFFICES ASSUME EvInit PROVE EvAbstract!Init
    OBVIOUS
  <2>1. EvCount = 0
    BY DEF EvInit, EvCount, First
  <2>2. Waiting = <<>>
    BY <2>1 DEF Waiting, EvCount
  <2> QED BY <2>2 DEF EvInit, EvAbstract!Init
<1>2. EvInit => EvIInv
  BY EvInitInv
<1>3. EvIInv /\ [EvNext]_ev_vars => EvIInv'
  BY EvStep
<1>4. EvIInv /\ [EvNext]_ev_vars => [EvAbstract!Next]_(EvAbstract!vars)
  BY EvRefines
<1> QED
  BY <1>1, <1>2, <1>3, <1>4, PTL DEF EvSpec, ImplementsEventFifo, EvAbstract!Spec
=============================================================================
