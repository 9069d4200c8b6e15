-------------------------- MODULE XhciPortsProofs --------------------------
(***************************************************************************)
(* The configuration of the ports, for any number of ports and slots and   *)
(* whatever goes wrong.  The events and the commands under way are what    *)
(* ties the driver to the controller, so the inductive invariant says for  *)
(* each of them which port it is about and in which phase that port waits. *)
(***************************************************************************)
EXTENDS XhciPorts, FiniteSetTheorems, FunctionTheorems, SequenceTheorems, TLAPS

Issuer == {"enable", "address", "configure"}
CommandTRB == [issuer : Issuer, slot : 0 .. kDeviceSize, port : 0 .. MaxPorts]
PortEvent == [type : {"port"}, port : Port]
CommandEvent == [type : {"command"}, issuer : Issuer, slot : 0 .. kDeviceSize]
TransferEvents == [type : {"transfer"}, slot : SlotID, ok : BOOLEAN]
EventTRB == PortEvent \cup CommandEvent \cup TransferEvents

QueuesTyped ==
  /\ commands \in Seq(CommandTRB)
  /\ events \in Seq(EventTRB)

Addressing == {"kResettingPort", "kEnablingSlot", "kAddressingDevice"}
Addressed == {"kInitializingDevice", "kConfiguringEndpoints", "kConfigured"}

\* addressing_port is the port between its reset and its address.
PhaseInv ==
  /\ port_config_phase[0] = "kNotConnected"
  /\ \A p \in Port : port_config_phase[p] \in Addressing <=> p = addressing_port
  /\ \A p \in Port : device[p] = "default" => p = addressing_port

\* A device context that names a port: the slot is enabled, no other names that
\* port, and the port has its address or is about to learn that it has.
SlotInv ==
  /\ slot_port[0] = 0
  /\ \A s \in SlotID : slot_port[s] # 0 =>
       /\ s \in slots /\ devices[s] # NoDevice
       /\ port_config_phase[slot_port[s]] \in {"kAddressingDevice"} \cup Addressed
       /\ device[slot_port[s]] # "default"
  /\ \A s, t \in SlotID : slot_port[s] = slot_port[t] /\ slot_port[s] # 0 => s = t
  /\ \A p \in Port : port_config_phase[p] \in Addressed => \E s \in SlotID : slot_port[s] = p

\* The port a command is about, or its completion, which has the same fields,
\* when the device contexts name the ports sp and ap is being addressed.
PortOf(c, sp, ap) == IF c.issuer = "configure" THEN sp[c.slot] ELSE ap

PhaseOf(issuer) ==
  CASE issuer = "enable" -> "kEnablingSlot"
    [] issuer = "address" -> "kAddressingDevice"
    [] OTHER -> "kConfiguringEndpoints"

\* A port waits for this command, its phase in ph, its device in dv.
Awaited(c, sp, ap, ph, dv) ==
  /\ c.slot \in 0 .. kDeviceSize
  /\ PortOf(c, sp, ap) \in Port
  /\ ph[PortOf(c, sp, ap)] = PhaseOf(c.issuer)
  /\ c.issuer = "address" => dv[c.slot] # NoDevice

\* A command in the ring, and a completion in the queue: an Address Device is for
\* the port being addressed, and goes to a slot that no port has yet.
CommandOK(c, sp, ap, ph, dv) ==
  /\ Awaited(c, sp, ap, ph, dv)
  /\ c.issuer = "address" => c.port = ap /\ sp[c.slot] = 0
AnswerOK(c, sp, ap, ph, dv) ==
  /\ Awaited(c, sp, ap, ph, dv)
  /\ c.issuer = "enable" => sp[c.slot] = 0

Answers(queue) == {i \in DOMAIN queue : queue[i].type = "command"}

\* Every command under way is awaited, and no two by the same port.
CommandsOK(ring, queue, sp, ap, ph, dv) ==
  /\ \A i \in DOMAIN ring : CommandOK(ring[i], sp, ap, ph, dv)
  /\ \A i \in Answers(queue) : AnswerOK(queue[i], sp, ap, ph, dv)
  /\ \A i, j \in DOMAIN ring : PortOf(ring[i], sp, ap) = PortOf(ring[j], sp, ap) => i = j
  /\ \A i, j \in Answers(queue) : PortOf(queue[i], sp, ap) = PortOf(queue[j], sp, ap) => i = j
  /\ \A i \in DOMAIN ring, j \in Answers(queue) :
       PortOf(ring[i], sp, ap) # PortOf(queue[j], sp, ap)

CommandInv ==
  CommandsOK(commands, events, slot_port, addressing_port, port_config_phase, devices)

\* The inductive invariant.
IInv ==
  /\ TypeOK /\ QueuesTyped
  /\ PhaseInv
  /\ SlotInv
  /\ CommandInv

-----------------------------------------------------------------------------
(* The queues.                                                             *)

\* The commands answered in a queue are among those answered in another, each
\* for one of them.
Kept(new, old) ==
  \E f \in [Answers(new) -> Answers(old)] :
    /\ \A i \in Answers(new) : new[i] = old[f[i]]
    /\ \A i, j \in Answers(new) : f[i] = f[j] => i = j

\* What an event is follows from its type.
LEMMA EventFields ==
  ASSUME NEW e \in EventTRB
  PROVE  /\ e.type = "port" => e.port \in Port
         /\ e.type = "command" => e.issuer \in Issuer /\ e.slot \in 0 .. kDeviceSize
         /\ e.type = "transfer" => e.slot \in SlotID /\ e.ok \in BOOLEAN
BY DEF EventTRB, PortEvent, CommandEvent, TransferEvents

\* An event that is handled leaves the answers of the others.
LEMMA TailAnswers ==
  ASSUME NEW q \in Seq(EventTRB), q # <<>>
  PROVE  /\ Tail(q) \in Seq(EventTRB)
         /\ Head(q) \in EventTRB
         /\ 1 \in DOMAIN q /\ q[1] = Head(q)
         /\ \A i \in Answers(Tail(q)) :
              i + 1 \in Answers(q) /\ i + 1 # 1 /\ Tail(q)[i] = q[i + 1]
         /\ Kept(Tail(q), q)
<1>1. /\ Tail(q) \in Seq(EventTRB) /\ Head(q) \in EventTRB
      /\ Len(q) \in Nat \ {0} /\ Len(Tail(q)) = Len(q) - 1
      /\ \A i \in 1 .. Len(Tail(q)) : Tail(q)[i] = q[i + 1]
      /\ DOMAIN q = 1 .. Len(q) /\ DOMAIN Tail(q) = 1 .. Len(Tail(q))
  BY HeadTailProperties, EmptySeq, LenProperties
<1>2. 1 \in DOMAIN q /\ q[1] = Head(q)
  BY <1>1
<1>3. \A i \in Answers(Tail(q)) :
        i + 1 \in Answers(q) /\ i + 1 # 1 /\ Tail(q)[i] = q[i + 1]
  BY <1>1 DEF Answers
<1>4. Kept(Tail(q), q)
  <2> DEFINE f == [i \in Answers(Tail(q)) |-> i + 1]
  <2>1. f \in [Answers(Tail(q)) -> Answers(q)]
    BY <1>3
  <2>2. \A i \in Answers(Tail(q)) : Tail(q)[i] = q[f[i]]
    BY <1>3
  <2>3. \A i, j \in Answers(Tail(q)) : f[i] = f[j] => i = j
    BY <1>1 DEF Answers
  <2> HIDE DEF f
  <2> QED BY <2>1, <2>2, <2>3 DEF Kept
<1> QED BY <1>1, <1>2, <1>3, <1>4

\* An event that is posted adds an answer at most.
LEMMA AppendAnswers ==
  ASSUME NEW q \in Seq(EventTRB), NEW e \in EventTRB
  PROVE  /\ Append(q, e) \in Seq(EventTRB)
         /\ \A i \in Answers(Append(q, e)) :
              \/ i \in Answers(q) /\ Append(q, e)[i] = q[i]
              \/ i = Len(q) + 1 /\ e.type = "command" /\ Append(q, e)[i] = e
         /\ e.type # "command" => Kept(Append(q, e), q)
<1>1. /\ Append(q, e) \in Seq(EventTRB)
      /\ Len(Append(q, e)) = Len(q) + 1 /\ Len(q) \in Nat
      /\ \A i \in 1 .. Len(q) : Append(q, e)[i] = q[i]
      /\ Append(q, e)[Len(q) + 1] = e
      /\ DOMAIN q = 1 .. Len(q) /\ DOMAIN Append(q, e) = 1 .. Len(q) + 1
  BY AppendProperties, LenProperties
<1>2. \A i \in Answers(Append(q, e)) :
        \/ i \in Answers(q) /\ Append(q, e)[i] = q[i]
        \/ i = Len(q) + 1 /\ e.type = "command" /\ Append(q, e)[i] = e
  BY <1>1 DEF Answers
<1>3. ASSUME e.type # "command" PROVE Kept(Append(q, e), q)
  <2> DEFINE f == [i \in Answers(Append(q, e)) |-> i]
  <2>1. f \in [Answers(Append(q, e)) -> Answers(q)]
    BY <1>2, <1>3
  <2>2. \A i \in Answers(Append(q, e)) : Append(q, e)[i] = q[f[i]]
    BY <1>2, <1>3
  <2>3. \A i, j \in Answers(Append(q, e)) : f[i] = f[j] => i = j
    OBVIOUS
  <2> HIDE DEF f
  <2> QED BY <2>1, <2>2, <2>3 DEF Kept
<1> QED BY <1>1, <1>2, <1>3

LEMMA KeptTransitive ==
  ASSUME NEW a, NEW b, NEW c, Kept(a, b), Kept(b, c)
  PROVE  Kept(a, c)
<1>1. PICK f \in [Answers(a) -> Answers(b)] :
        /\ \A i \in Answers(a) : a[i] = b[f[i]]
        /\ \A i, j \in Answers(a) : f[i] = f[j] => i = j
  BY DEF Kept
<1>2. PICK g \in [Answers(b) -> Answers(c)] :
        /\ \A i \in Answers(b) : b[i] = c[g[i]]
        /\ \A i, j \in Answers(b) : g[i] = g[j] => i = j
  BY DEF Kept
<1> DEFINE h == [i \in Answers(a) |-> g[f[i]]]
<1>3. h \in [Answers(a) -> Answers(c)]
  OBVIOUS
<1>4. \A i \in Answers(a) : a[i] = c[h[i]]
  BY <1>1, <1>2
<1>5. \A i, j \in Answers(a) : h[i] = h[j] => i = j
  BY <1>1, <1>2
<1> HIDE DEF h
<1> QED BY <1>3, <1>4, <1>5 DEF Kept

LEMMA KeptReflexive ==
  ASSUME NEW q PROVE Kept(q, q)
<1> DEFINE f == [i \in Answers(q) |-> i]
<1>1. /\ f \in [Answers(q) -> Answers(q)]
      /\ \A i \in Answers(q) : q[i] = q[f[i]]
      /\ \A i, j \in Answers(q) : f[i] = f[j] => i = j
  OBVIOUS
<1> HIDE DEF f
<1> QED BY <1>1 DEF Kept

\* The change bits of a port post a port event or none.
LEMMA ChangeKept ==
  ASSUME NEW q \in Seq(EventTRB), NEW p \in Port, NEW changed
  PROVE  /\ WithChange(q, p, changed) \in Seq(EventTRB)
         /\ Kept(WithChange(q, p, changed), q)
<1>1. PortStatusChange(p) \in EventTRB /\ PortStatusChange(p).type # "command"
  BY DEF PortStatusChange, EventTRB, PortEvent
<1>2. CASE p \in changed
  BY <1>2, KeptReflexive DEF WithChange
<1>3. CASE p \notin changed
  BY <1>1, <1>3, AppendAnswers DEF WithChange
<1> QED BY <1>2, <1>3

-----------------------------------------------------------------------------
(* What a step does to the commands under way.  The new state of the       *)
(* driver and the device contexts is sp2, ap2, ph2, dv2.                   *)

\* No command is given: those that remain are for the ports they were for.
LEMMA CommandsKept ==
  ASSUME NEW ring, NEW queue, NEW queue2,
         NEW sp, NEW ap, NEW ph, NEW dv, NEW ap2, NEW ph2, NEW dv2,
         CommandsOK(ring, queue, sp, ap, ph, dv), Kept(queue2, queue),
         \A i \in DOMAIN ring : /\ PortOf(ring[i], sp, ap2) = PortOf(ring[i], sp, ap)
                                /\ Awaited(ring[i], sp, ap2, ph2, dv2),
         \A i \in Answers(queue2) : /\ PortOf(queue2[i], sp, ap2) = PortOf(queue2[i], sp, ap)
                                    /\ Awaited(queue2[i], sp, ap2, ph2, dv2)
  PROVE  CommandsOK(ring, queue2, sp, ap2, ph2, dv2)
<1>1. PICK f \in [Answers(queue2) -> Answers(queue)] :
        /\ \A i \in Answers(queue2) : queue2[i] = queue[f[i]]
        /\ \A i, j \in Answers(queue2) : f[i] = f[j] => i = j
  BY DEF Kept
<1>2. \A i \in DOMAIN ring : CommandOK(ring[i], sp, ap2, ph2, dv2)
  <2> SUFFICES ASSUME NEW i \in DOMAIN ring
               PROVE  CommandOK(ring[i], sp, ap2, ph2, dv2)
    OBVIOUS
  <2>1. /\ PortOf(ring[i], sp, ap2) = PortOf(ring[i], sp, ap)
        /\ Awaited(ring[i], sp, ap2, ph2, dv2)
        /\ CommandOK(ring[i], sp, ap, ph, dv)
    BY DEF CommandsOK
  <2>2. ring[i].issuer = "address" => ap2 = ap
    BY <2>1 DEF PortOf
  <2> QED BY <2>1, <2>2 DEF CommandOK
<1>3. \A i \in Answers(queue2) : AnswerOK(queue2[i], sp, ap2, ph2, dv2)
  BY <1>1 DEF CommandsOK, AnswerOK
<1>4. \A i, j \in Answers(queue2) :
        PortOf(queue2[i], sp, ap2) = PortOf(queue2[j], sp, ap2) => i = j
  <2> SUFFICES ASSUME NEW i \in Answers(queue2), NEW j \in Answers(queue2),
                      PortOf(queue2[i], sp, ap2) = PortOf(queue2[j], sp, ap2)
               PROVE  i = j
    OBVIOUS
  <2>1. PortOf(queue[f[i]], sp, ap) = PortOf(queue[f[j]], sp, ap)
    BY <1>1
  <2>2. f[i] = f[j]
    BY <2>1 DEF CommandsOK
  <2> QED BY <2>2, <1>1
<1>5. \A i, j \in DOMAIN ring : PortOf(ring[i], sp, ap2) = PortOf(ring[j], sp, ap2) => i = j
  BY DEF CommandsOK
<1>6. \A i \in DOMAIN ring, j \in Answers(queue2) :
        PortOf(ring[i], sp, ap2) # PortOf(queue2[j], sp, ap2)
  BY <1>1 DEF CommandsOK
<1> QED BY <1>2, <1>3, <1>4, <1>5, <1>6 DEF CommandsOK

\* The ports that wait for a command are left alone, the events of the others
\* handled.
LEMMA PortsUndisturbed ==
  ASSUME NEW ring, NEW queue, NEW queue2,
         NEW sp, NEW ap, NEW ph, NEW dv, NEW ap2, NEW ph2, NEW dv2,
         CommandsOK(ring, queue, sp, ap, ph, dv), Kept(queue2, queue),
         ap # 0 => ap2 = ap,
         \A p \in Port : ph[p] \in {"kEnablingSlot", "kAddressingDevice", "kConfiguringEndpoints"}
                           => ph2[p] = ph[p],
         \A s \in 0 .. kDeviceSize : dv[s] # NoDevice => dv2[s] # NoDevice
  PROVE  CommandsOK(ring, queue2, sp, ap2, ph2, dv2)
<1>1. ASSUME NEW c, Awaited(c, sp, ap, ph, dv)
      PROVE  PortOf(c, sp, ap2) = PortOf(c, sp, ap) /\ Awaited(c, sp, ap2, ph2, dv2)
  <2>1. PortOf(c, sp, ap2) = PortOf(c, sp, ap)
    BY <1>1, PortsAssumption DEF Awaited, PortOf, Port
  <2> QED BY <1>1, <2>1 DEF Awaited, PhaseOf
<1>2. \A i \in DOMAIN ring : Awaited(ring[i], sp, ap, ph, dv)
  BY DEF CommandsOK, CommandOK
<1>3. \A i \in Answers(queue2) : Awaited(queue2[i], sp, ap, ph, dv)
  BY DEF Kept, CommandsOK, AnswerOK
<1> QED BY <1>1, <1>2, <1>3, CommandsKept

\* A command is given for a port that waits for no other.
LEMMA CommandGiven ==
  ASSUME NEW ring \in Seq(CommandTRB), NEW queue, NEW new \in CommandTRB,
         NEW sp, NEW ap, NEW ph, NEW dv,
         CommandsOK(ring, queue, sp, ap, ph, dv),
         CommandOK(new, sp, ap, ph, dv),
         \A i \in DOMAIN ring : PortOf(ring[i], sp, ap) # PortOf(new, sp, ap),
         \A i \in Answers(queue) : PortOf(queue[i], sp, ap) # PortOf(new, sp, ap)
  PROVE  CommandsOK(Append(ring, new), queue, sp, ap, ph, dv)
<1> DEFINE r == Append(ring, new)
<1>1. \A i \in DOMAIN r : (i \in DOMAIN ring /\ r[i] = ring[i])
                          \/ (i = Len(ring) + 1 /\ r[i] = new /\ i \notin DOMAIN ring)
  BY AppendProperties, LenProperties
<1> HIDE DEF r
<1>2. \A i \in DOMAIN r : CommandOK(r[i], sp, ap, ph, dv)
  BY <1>1 DEF CommandsOK
<1>3. \A i, j \in DOMAIN r : PortOf(r[i], sp, ap) = PortOf(r[j], sp, ap) => i = j
  BY <1>1 DEF CommandsOK
<1>4. \A i \in DOMAIN r, j \in Answers(queue) : PortOf(r[i], sp, ap) # PortOf(queue[j], sp, ap)
  BY <1>1 DEF CommandsOK
<1>5. CommandsOK(r, queue, sp, ap, ph, dv)
  BY <1>2, <1>3, <1>4 DEF CommandsOK
<1> QED BY <1>5 DEF r

\* The controller executes the first command and answers it.
LEMMA CommandDone ==
  ASSUME NEW ring \in Seq(CommandTRB), NEW queue \in Seq(EventTRB), ring # <<>>,
         NEW answer \in CommandEvent, answer.issuer = Head(ring).issuer,
         NEW sp, NEW ap, NEW ph, NEW dv, NEW sp2,
         CommandsOK(ring, queue, sp, ap, ph, dv),
         AnswerOK(answer, sp2, ap, ph, dv),
         PortOf(answer, sp2, ap) = PortOf(Head(ring), sp, ap),
         \A i \in DOMAIN ring : i # 1 => /\ PortOf(ring[i], sp2, ap) = PortOf(ring[i], sp, ap)
                                         /\ CommandOK(ring[i], sp2, ap, ph, dv),
         \A i \in Answers(queue) : /\ PortOf(queue[i], sp2, ap) = PortOf(queue[i], sp, ap)
                                   /\ AnswerOK(queue[i], sp2, ap, ph, dv)
  PROVE  CommandsOK(Tail(ring), Append(queue, answer), sp2, ap, ph, dv)
<1> DEFINE r == Tail(ring)
           q == Append(queue, answer)
<1>1. /\ 1 \in DOMAIN ring /\ ring[1] = Head(ring)
      /\ \A i \in DOMAIN r : i + 1 \in DOMAIN ring /\ i + 1 # 1 /\ r[i] = ring[i + 1] /\ i \in Nat
  <2>1. /\ Len(ring) \in Nat \ {0} /\ Len(r) = Len(ring) - 1
        /\ \A i \in 1 .. Len(r) : r[i] = ring[i + 1]
        /\ DOMAIN ring = 1 .. Len(ring) /\ DOMAIN r = 1 .. Len(r)
    BY HeadTailProperties, EmptySeq, LenProperties
  <2> QED BY <2>1
<1>2. answer \in EventTRB
  BY DEF EventTRB
<1>3. /\ Len(queue) + 1 \notin Answers(queue)
      /\ \A i \in Answers(q) : \/ i \in Answers(queue) /\ q[i] = queue[i]
                               \/ i = Len(queue) + 1 /\ q[i] = answer
  BY <1>2, AppendAnswers, LenProperties DEF Answers
<1> HIDE DEF r, q
<1>4. \A i \in DOMAIN r : /\ CommandOK(r[i], sp2, ap, ph, dv)
                          /\ PortOf(r[i], sp2, ap) = PortOf(ring[i + 1], sp, ap)
                          /\ PortOf(r[i], sp2, ap) # PortOf(Head(ring), sp, ap)
  BY <1>1 DEF CommandsOK
<1>5. \A i \in Answers(q) : AnswerOK(q[i], sp2, ap, ph, dv)
  BY <1>3
<1>6. \A i, j \in DOMAIN r : PortOf(r[i], sp2, ap) = PortOf(r[j], sp2, ap) => i = j
  <2> SUFFICES ASSUME NEW i \in DOMAIN r, NEW j \in DOMAIN r,
                      PortOf(r[i], sp2, ap) = PortOf(r[j], sp2, ap)
               PROVE  i = j
    OBVIOUS
  <2>1. PortOf(ring[i + 1], sp, ap) = PortOf(ring[j + 1], sp, ap)
    BY <1>4
  <2>2. i + 1 = j + 1
    BY <2>1, <1>1 DEF CommandsOK
  <2> QED BY <2>2, <1>1
<1>7. \A i \in Answers(queue) : PortOf(queue[i], sp2, ap) # PortOf(Head(ring), sp, ap)
  BY <1>1 DEF CommandsOK
<1>8. \A i, j \in Answers(q) : PortOf(q[i], sp2, ap) = PortOf(q[j], sp2, ap) => i = j
  BY <1>3, <1>7 DEF CommandsOK
<1>9. \A i \in DOMAIN r, j \in Answers(q) : PortOf(r[i], sp2, ap) # PortOf(q[j], sp2, ap)
  BY <1>1, <1>3, <1>4 DEF CommandsOK
<1>10. CommandsOK(r, q, sp2, ap, ph, dv)
  BY <1>4, <1>5, <1>6, <1>8, <1>9 DEF CommandsOK
<1> QED BY <1>10 DEF r, q

-----------------------------------------------------------------------------
(* The steps of the driver.                                                *)

\* The port being addressed, if there is one.
LEMMA AddressedPort ==
  ASSUME IInv
  PROVE  /\ addressing_port # 0 => /\ addressing_port \in Port
                                   /\ port_config_phase[addressing_port] \in Addressing
         /\ port_config_phase[addressing_port] \in Addressing => addressing_port \in Port
BY PortsAssumption DEF IInv, TypeOK, PhaseInv, Port, Addressing

\* Device contexts name ports, and no port before its address.
LEMMA NamedPorts ==
  ASSUME IInv
  PROVE  /\ \A s \in SlotID : s \in 0 .. kDeviceSize /\ slot_port[s] \in 0 .. MaxPorts
         /\ \A p \in Port : port_config_phase[p] \notin {"kAddressingDevice"} \cup Addressed
              => \A s \in SlotID : slot_port[s] # p
<1>1. \A s \in SlotID : s \in 0 .. kDeviceSize /\ slot_port[s] \in 0 .. MaxPorts
  BY PortsAssumption DEF IInv, TypeOK, SlotID
<1>2. \A p \in Port : p # 0
  BY DEF Port
<1> QED BY <1>1, <1>2 DEF IInv, SlotInv

LEMMA InitInv == Init => IInv
<1> SUFFICES ASSUME Init PROVE IInv
  OBVIOUS
<1> USE PortsAssumption, FaultModelsAssumption DEF Init, Port, SlotID, NoDevice
<1>1. TypeOK
  BY DEF TypeOK, Phases, kInitialized
<1>2. QueuesTyped
  BY EmptySeq DEF QueuesTyped
<1>3. PhaseInv
  BY DEF PhaseInv, Addressing
<1>4. SlotInv
  BY DEF SlotInv, Addressed
<1>5. CommandInv
  BY DEF CommandInv, CommandsOK, Answers
<1> QED BY <1>1, <1>2, <1>3, <1>4, <1>5 DEF IInv

\* ResetPort of a port that is not connected yet.
LEMMA ResetPortInv ==
  ASSUME IInv, NEW p \in Port, port_config_phase[p] = "kNotConnected",
         NEW q \in Seq(EventTRB), Kept(q, events),
         ResetPort(p, addressing_port, port_config_phase, q),
         scan' \in 1 .. MaxPorts + 1,
         UNCHANGED <<devices, slots, slot_port, commands, transfers, faults>>
  PROVE  IInv'
<1> USE PortsAssumption
<1>1. /\ events' \in Seq(EventTRB) /\ Kept(events', events)
  BY ChangeKept, KeptTransitive DEF ResetPort, Reset
<1>a. PICK ph \in {"kNotConnected", "kWaitingAddressed", "kResettingPort"} :
        /\ port_config_phase' = [port_config_phase EXCEPT ![p] = ph]
        /\ \/ /\ ph # "kResettingPort" /\ addressing_port' = addressing_port
              /\ device' = device
           \/ /\ ph = "kResettingPort" /\ addressing_port = 0 /\ addressing_port' = p
              /\ device' = [device EXCEPT ![p] = "default"]
  <2>1. port_config_phase = [port_config_phase EXCEPT ![p] = "kNotConnected"]
    BY DEF IInv, TypeOK
  <2>2. CASE ~Connected(p)
    BY <2>1, <2>2 DEF ResetPort, registers
  <2>3. CASE Connected(p) /\ addressing_port # 0
    BY <2>3 DEF ResetPort, registers
  <2>4. CASE Connected(p) /\ addressing_port = 0
    BY <2>4 DEF ResetPort, Reset
  <2> QED BY <2>2, <2>3, <2>4
<1>b. /\ p \in 0 .. MaxPorts /\ p # 0
      /\ port_config_phase \in [0 .. MaxPorts -> Phases] /\ addressing_port \in 0 .. MaxPorts
      /\ device \in [Port -> {"absent", "attached", "default", "addressed"}]
  BY DEF IInv, TypeOK, Port
<1>2. /\ addressing_port' \in 0 .. MaxPorts /\ port_config_phase' \in [0 .. MaxPorts -> Phases]
      /\ addressing_port # 0 => addressing_port' = addressing_port
      /\ \A r \in 0 .. MaxPorts : r # p => port_config_phase'[r] = port_config_phase[r]
  <2>1. ph \in Phases
    BY <1>a DEF Phases
  <2> QED BY <1>a, <1>b, <2>1
<1>3. TypeOK' /\ QueuesTyped'
  BY <1>1, <1>2 DEF ResetPort, Reset, registers, IInv, TypeOK, QueuesTyped, Port
<1>4. CommandInv'
  BY <1>1, <1>2, PortsUndisturbed DEF IInv, CommandInv, Port
<1>5. PhaseInv'
  <2>1. /\ port_config_phase'[p] = ph /\ port_config_phase'[0] = port_config_phase[0]
        /\ \A r \in Port : r # p => port_config_phase'[r] = port_config_phase[r]
    BY <1>a, <1>b, <1>2 DEF Port
  <2>2. /\ \A r \in Port : r # p => device'[r] = device[r]
        /\ ph # "kResettingPort" => device' = device
    BY <1>a, <1>b
  <2>3. 0 \notin Port /\ p # addressing_port
    BY DEF IInv, PhaseInv, Addressing, Port
  <2>4. CASE ph = "kResettingPort"
    BY <1>a, <2>1, <2>2, <2>3, <2>4 DEF IInv, PhaseInv, Addressing
  <2>5. CASE ph # "kResettingPort"
    BY <1>a, <2>1, <2>2, <2>3, <2>5 DEF IInv, PhaseInv, Addressing
  <2> QED BY <2>4, <2>5
<1>6. SlotInv'
  <2>1. \A s \in SlotID : slot_port[s] # p /\ slot_port[s] \in 0 .. MaxPorts
    BY NamedPorts DEF Addressed
  <2>2. /\ \A r \in Port : r # p => device'[r] = device[r]
        /\ port_config_phase'[p] \notin Addressed
    BY DEF ResetPort, Reset, registers, IInv, TypeOK, Port, Addressed
  <2> QED BY <1>2, <2>1, <2>2 DEF IInv, SlotInv, Port
<1> QED BY <1>3, <1>4, <1>5, <1>6 DEF IInv

LEMMA ScanPortInv == IInv /\ ScanPort => IInv'
<1> SUFFICES ASSUME IInv, ScanPort PROVE IInv'
  OBVIOUS
<1>1. scan \in Port /\ scan' \in 1 .. MaxPorts + 1
  BY PortsAssumption DEF ScanPort, IInv, TypeOK, Port
<1>2. events \in Seq(EventTRB) /\ Kept(events, events)
  BY KeptReflexive DEF IInv, QueuesTyped
<1>3. CASE Connected(scan) /\ port_config_phase[scan] = "kNotConnected"
  <2>1. ResetPort(scan, addressing_port, port_config_phase, events)
    BY <1>3 DEF ScanPort
  <2> QED BY <1>1, <1>2, <1>3, <2>1, ResetPortInv DEF ScanPort
<1>4. CASE ~(Connected(scan) /\ port_config_phase[scan] = "kNotConnected")
  BY <1>1, <1>4 DEF ScanPort, registers, IInv, TypeOK, QueuesTyped, PhaseInv, SlotInv, CommandInv
<1> QED BY <1>3, <1>4

\* The event at the head, and what is left when it has been handled.
LEMMA EventTaken ==
  ASSUME IInv, events # <<>>
  PROVE  /\ Head(events) \in EventTRB
         /\ Tail(events) \in Seq(EventTRB) /\ Kept(Tail(events), events)
BY TailAnswers DEF IInv, QueuesTyped

LEMMA OnPortNotConnectedInv == IInv /\ OnPortNotConnected => IInv'
<1> SUFFICES ASSUME IInv, OnPortNotConnected PROVE IInv'
  OBVIOUS
<1>1. /\ Head(events).port \in Port
      /\ Tail(events) \in Seq(EventTRB) /\ Kept(Tail(events), events)
  BY EventTaken, EventFields DEF OnPortNotConnected, Event
<1>2. scan' \in 1 .. MaxPorts + 1
  BY DEF OnPortNotConnected, IInv, TypeOK
<1> QED BY <1>1, <1>2, ResetPortInv DEF OnPortNotConnected

\* The port asks for a slot: it has waited for no command before.
LEMMA OnPortResetInv == IInv /\ OnPortReset => IInv'
<1> SUFFICES ASSUME IInv, OnPortReset PROVE IInv'
  OBVIOUS
<1> USE PortsAssumption
<1> DEFINE p == Head(events).port
<1>1. /\ p \in Port /\ port_config_phase[p] = "kResettingPort"
      /\ events' = Tail(events) /\ events' \in Seq(EventTRB) /\ Kept(events', events)
  BY EventTaken, EventFields DEF OnPortReset, Event
<1>2. p = addressing_port
  BY <1>1 DEF IInv, PhaseInv, Addressing
<1> HIDE DEF p
<1>3. CASE UNCHANGED <<prc, port_config_phase, commands>>
  <2>1. CommandInv'
    BY <1>1, <1>3, PortsUndisturbed DEF OnPortReset, IInv, CommandInv
  <2> QED BY <1>1, <1>3, <2>1 DEF OnPortReset, IInv, TypeOK, QueuesTyped, PhaseInv, SlotInv
<1>4. CASE /\ prc' = prc \ {p}
           /\ port_config_phase' = [port_config_phase EXCEPT ![p] = "kEnablingSlot"]
           /\ commands' = Append(commands, EnableSlotCommand)
  <2>1. EnableSlotCommand \in CommandTRB
    BY DEF EnableSlotCommand, CommandTRB, Issuer
  <2>2. TypeOK' /\ QueuesTyped'
    <3>1. commands' \in Seq(CommandTRB)
      BY <1>4, <2>1, AppendProperties DEF IInv, QueuesTyped
    <3> QED BY <1>1, <1>4, <3>1 DEF OnPortReset, IInv, TypeOK, QueuesTyped, Port, Phases
  <2>3. PhaseInv'
    BY <1>1, <1>2, <1>4 DEF OnPortReset, IInv, TypeOK, PhaseInv, Port, Addressing
  <2>4. SlotInv'
    <3>1. \A s \in SlotID : slot_port[s] \in 0 .. MaxPorts /\ slot_port[s] # p
      BY <1>1, NamedPorts DEF Addressed
    <3> QED BY <1>1, <1>4, <3>1, SMTT(30) DEF OnPortReset, IInv, TypeOK, SlotInv, Port, Addressed
  <2>5. CommandInv'
    <3>1. \A r \in Port : r # p => port_config_phase'[r] = port_config_phase[r]
      BY <1>1, <1>4 DEF IInv, TypeOK, Port
    <3>2. CommandsOK(commands, events', slot_port, addressing_port, port_config_phase', devices)
      BY <1>1, <3>1, PortsUndisturbed DEF OnPortReset, IInv, CommandInv
    <3>3. CommandsOK(commands, events', slot_port, addressing_port, port_config_phase, devices)
      BY <1>1, PortsUndisturbed DEF IInv, CommandInv
    <3>4. /\ \A i \in DOMAIN commands : PortOf(commands[i], slot_port, addressing_port) # p
          /\ \A i \in Answers(events') : PortOf(events'[i], slot_port, addressing_port) # p
      BY <1>1, <3>3 DEF CommandsOK, CommandOK, AnswerOK, Awaited, PhaseOf
    <3>5. PortOf(EnableSlotCommand, slot_port, addressing_port) = p
      BY <1>2 DEF PortOf, EnableSlotCommand
    <3>6. CommandOK(EnableSlotCommand, slot_port, addressing_port, port_config_phase', devices)
      <4>1. port_config_phase'[p] = "kEnablingSlot"
        BY <1>1, <1>4 DEF IInv, TypeOK, Port
      <4> QED BY <1>1, <3>5, <4>1 DEF CommandOK, Awaited, PhaseOf, EnableSlotCommand
    <3>7. CommandsOK(Append(commands, EnableSlotCommand), events', slot_port, addressing_port,
                     port_config_phase', devices)
      BY <2>1, <3>2, <3>4, <3>5, <3>6, CommandGiven DEF IInv, QueuesTyped
    <3> QED BY <1>4, <3>7 DEF CommandInv, OnPortReset
  <2> QED BY <2>2, <2>3, <2>4, <2>5 DEF IInv
<1> QED BY <1>3, <1>4 DEF OnPortReset, p

\* When a completion is taken from the head, the commands that stay under way
\* are for other ports.
LEMMA AnswerTaken ==
  ASSUME IInv, events # <<>>, Head(events).type = "command"
  PROVE  LET p == PortOf(Head(events), slot_port, addressing_port)
         IN  /\ AnswerOK(Head(events), slot_port, addressing_port, port_config_phase, devices)
             /\ \A i \in DOMAIN commands : PortOf(commands[i], slot_port, addressing_port) # p
             /\ \A i \in Answers(Tail(events)) :
                  PortOf(Tail(events)[i], slot_port, addressing_port) # p
<1>1. /\ 1 \in Answers(events) /\ events[1] = Head(events)
      /\ \A i \in Answers(Tail(events)) :
           i + 1 \in Answers(events) /\ i + 1 # 1 /\ Tail(events)[i] = events[i + 1]
  BY TailAnswers DEF IInv, QueuesTyped, Answers
<1>2. CommandsOK(commands, events, slot_port, addressing_port, port_config_phase, devices)
  BY DEF IInv, CommandInv
<1>3. AnswerOK(Head(events), slot_port, addressing_port, port_config_phase, devices)
  BY <1>1, <1>2 DEF CommandsOK
<1>4. \A i \in DOMAIN commands : PortOf(commands[i], slot_port, addressing_port)
                                   # PortOf(Head(events), slot_port, addressing_port)
  BY <1>1, <1>2 DEF CommandsOK
<1>5. \A i \in Answers(Tail(events)) : PortOf(Tail(events)[i], slot_port, addressing_port)
                                         # PortOf(Head(events), slot_port, addressing_port)
  BY <1>1, <1>2 DEF CommandsOK
<1> QED BY <1>3, <1>4, <1>5

\* A completion that is taken may change the phase of its port, and the port
\* being addressed if that is its port.
LEMMA AnswerHandled ==
  ASSUME IInv, events # <<>>, Head(events).type = "command",
         NEW ap2, NEW ph2, NEW dv2,
         ap2 = addressing_port
           \/ addressing_port = PortOf(Head(events), slot_port, addressing_port),
         \A p \in Port : /\ p # PortOf(Head(events), slot_port, addressing_port)
                         /\ port_config_phase[p] \in {"kEnablingSlot", "kAddressingDevice",
                                                      "kConfiguringEndpoints"}
                         => ph2[p] = port_config_phase[p],
         \A s \in 0 .. kDeviceSize : devices[s] # NoDevice => dv2[s] # NoDevice
  PROVE  CommandsOK(commands, Tail(events), slot_port, ap2, ph2, dv2)
<1> DEFINE h == PortOf(Head(events), slot_port, addressing_port)
<1>1. ASSUME NEW c, Awaited(c, slot_port, addressing_port, port_config_phase, devices),
             PortOf(c, slot_port, addressing_port) # h
      PROVE  /\ PortOf(c, slot_port, ap2) = PortOf(c, slot_port, addressing_port)
             /\ Awaited(c, slot_port, ap2, ph2, dv2)
  <2>1. PortOf(c, slot_port, ap2) = PortOf(c, slot_port, addressing_port)
    BY <1>1 DEF PortOf
  <2> QED BY <1>1, <2>1 DEF Awaited, PhaseOf
<1>2. Kept(Tail(events), events)
  BY EventTaken
<1>3. \A i \in DOMAIN commands :
        Awaited(commands[i], slot_port, addressing_port, port_config_phase, devices)
  BY DEF IInv, CommandInv, CommandsOK, CommandOK
<1>4. \A i \in Answers(Tail(events)) :
        Awaited(Tail(events)[i], slot_port, addressing_port, port_config_phase, devices)
  <2>1. \A i \in Answers(events) :
          Awaited(events[i], slot_port, addressing_port, port_config_phase, devices)
    BY DEF IInv, CommandInv, CommandsOK, AnswerOK
  <2>2. PICK f \in [Answers(Tail(events)) -> Answers(events)] :
          \A i \in Answers(Tail(events)) : Tail(events)[i] = events[f[i]]
    BY <1>2 DEF Kept
  <2> QED BY <2>1, <2>2
<1>5. /\ \A i \in DOMAIN commands : PortOf(commands[i], slot_port, addressing_port) # h
      /\ \A i \in Answers(Tail(events)) :
           PortOf(Tail(events)[i], slot_port, addressing_port) # h
  BY AnswerTaken
<1> HIDE DEF h
<1> QED BY <1>1, <1>2, <1>3, <1>4, <1>5, CommandsKept DEF IInv, CommandInv

\* The port gets the slot it asked for, or slot 0, which no port will have.
LEMMA OnSlotEnabledInv == IInv /\ OnSlotEnabled => IInv'
<1> SUFFICES ASSUME IInv, OnSlotEnabled PROVE IInv'
  OBVIOUS
<1> USE PortsAssumption
<1> DEFINE slot == Head(events).slot
           p == addressing_port
           new == AddressDeviceCommand(slot, p)
<1>1. /\ events # <<>> /\ Head(events).type = "command" /\ Head(events).issuer = "enable"
      /\ port_config_phase[p] = "kEnablingSlot"
      /\ devices' = [devices EXCEPT ![slot] = IF @ = NoDevice THEN 0 ELSE @]
      /\ commands' = Append(commands, new)
      /\ port_config_phase' = [port_config_phase EXCEPT ![p] = "kAddressingDevice"]
      /\ events' = Tail(events)
      /\ UNCHANGED <<addressing_port, scan, registers, slots, slot_port, transfers, faults>>
  BY DEF OnSlotEnabled, Completed, Event
<1>2. /\ slot \in 0 .. kDeviceSize
      /\ events' \in Seq(EventTRB)
  BY <1>1, EventTaken, EventFields
<1>3. p \in Port
  BY <1>1, AddressedPort DEF Addressing
<1>4. /\ PortOf(Head(events), slot_port, addressing_port) = p
      /\ slot_port[slot] = 0
  BY <1>1, AnswerTaken DEF AnswerOK, PortOf
<1>5. new \in CommandTRB
  BY <1>2, <1>3 DEF AddressDeviceCommand, CommandTRB, Issuer, Port
<1>6. /\ port_config_phase'[p] = "kAddressingDevice"
      /\ \A r \in 0 .. MaxPorts : r # p => port_config_phase'[r] = port_config_phase[r]
      /\ devices'[slot] # NoDevice
      /\ \A s \in 0 .. kDeviceSize : devices[s] # NoDevice => devices'[s] # NoDevice
  BY <1>1, <1>2, <1>3, SMTT(30) DEF IInv, TypeOK, Port, NoDevice
<1>7. TypeOK' /\ QueuesTyped'
  <2>1. commands' \in Seq(CommandTRB)
    BY <1>1, <1>5, AppendProperties DEF IInv, QueuesTyped
  <2>2. devices' \in [0 .. kDeviceSize -> NoDevice .. kInitialized]
    <3>1. devices' = [devices EXCEPT ![slot] = IF @ = NoDevice THEN 0 ELSE @]
      BY <1>1
    <3>2. devices \in [0 .. kDeviceSize -> NoDevice .. kInitialized]
      BY DEF IInv, TypeOK
    <3>3. 0 \in NoDevice .. kInitialized
      BY DEF NoDevice, kInitialized
    <3> QED BY <1>2, <3>1, <3>2, <3>3
  <2>3. port_config_phase' \in [0 .. MaxPorts -> Phases]
    <3>1. port_config_phase' = [port_config_phase EXCEPT ![p] = "kAddressingDevice"]
      BY <1>1
    <3>2. port_config_phase \in [0 .. MaxPorts -> Phases] /\ "kAddressingDevice" \in Phases
      BY DEF IInv, TypeOK, Phases
    <3> QED BY <3>1, <3>2
  <2> QED BY <1>1, <1>2, <2>1, <2>2, <2>3 DEF IInv, TypeOK, QueuesTyped, registers
<1>8. PhaseInv'
  BY <1>1, <1>3, <1>6 DEF IInv, PhaseInv, registers, Port, Addressing
<1>9. SlotInv'
  <2>1. \A s \in SlotID : /\ slot_port[s] \in 0 .. MaxPorts /\ s \in 0 .. kDeviceSize
                          /\ slot_port[s] # p
    BY <1>1, <1>3, NamedPorts DEF Addressed
  <2> QED BY <1>1, <1>6, <2>1 DEF IInv, SlotInv, registers, Port, Addressed
<1>10. CommandInv'
  <2>a. \A r \in Port : r # PortOf(Head(events), slot_port, addressing_port)
                        => port_config_phase'[r] = port_config_phase[r]
    BY <1>4, <1>6 DEF Port
  <2>b. events # <<>> /\ Head(events).type = "command" /\ events' = Tail(events)
    BY <1>1
  <2>c. \A s \in 0 .. kDeviceSize : devices[s] # NoDevice => devices'[s] # NoDevice
    BY <1>6
  <2>1. CommandsOK(commands, events', slot_port, p, port_config_phase', devices')
    BY <2>a, <2>b, <2>c, AnswerHandled
  <2>2. /\ \A i \in DOMAIN commands : PortOf(commands[i], slot_port, p) # p
        /\ \A i \in Answers(events') : PortOf(events'[i], slot_port, p) # p
    BY <1>1, <1>4, AnswerTaken
  <2>3. PortOf(new, slot_port, p) = p
    BY DEF PortOf, AddressDeviceCommand
  <2>4. CommandOK(new, slot_port, p, port_config_phase', devices')
    BY <1>2, <1>3, <1>4, <1>6, <2>3
    DEF CommandOK, Awaited, PhaseOf, AddressDeviceCommand
  <2> HIDE DEF new
  <2>5. CommandsOK(Append(commands, new), events', slot_port, p, port_config_phase', devices')
    BY <1>5, <2>1, <2>2, <2>3, <2>4, CommandGiven DEF IInv, QueuesTyped
  <2> QED BY <1>1, <2>5 DEF CommandInv, registers
<1> QED BY <1>7, <1>8, <1>9, <1>10 DEF IInv

\* The first of the ports that wait is one of them.
LEMMA MinWaits ==
  ASSUME NEW S \in SUBSET Port, S # {}
  PROVE  Min(S) \in S
<1>1. S \subseteq Nat
  BY PortsAssumption DEF Port
<1>2. \E x \in S : \A y \in S : ~(<<y, x>> \in OpToRel(<, Nat))
  BY <1>1, WFMin, NatLessThanWellFounded
<1>3. PICK x \in S : \A y \in S : ~(<<y, x>> \in OpToRel(<, Nat))
  BY <1>2
<1>4. ASSUME NEW y \in S PROVE x <= y
  <2>1. x \in Nat /\ y \in Nat
    BY <1>1
  <2>2. y < x => <<y, x>> \in OpToRel(<, Nat)
    BY <2>1 DEF OpToRel
  <2>3. ~(y < x)
    BY <1>3, <2>2, Zenon
  <2> QED BY <2>1, <2>3
<1> QED BY <1>4 DEF Min

\* The port has its address, and the next one that waits may be reset.
LEMMA OnDeviceAddressedInv == IInv /\ OnDeviceAddressed => IInv'
<1> SUFFICES ASSUME IInv, OnDeviceAddressed PROVE IInv'
  OBVIOUS
<1> USE PortsAssumption
<1> DEFINE slot == Head(events).slot
           p == addressing_port
           phase == [port_config_phase EXCEPT ![p] = "kInitializingDevice"]
           waiting == {w \in Port : port_config_phase[w] = "kWaitingAddressed"}
           w == Min(waiting)
<1>1. /\ events # <<>> /\ Head(events).type = "command" /\ Head(events).issuer = "address"
      /\ devices[slot] # NoDevice
      /\ slot_port[slot] = p /\ port_config_phase[p] = "kAddressingDevice"
      /\ devices' = [devices EXCEPT ![slot] = 1]
      /\ transfers' = transfers \cup {slot}
      /\ UNCHANGED <<scan, slots, slot_port, commands, faults>>
  BY DEF OnDeviceAddressed, Completed, Event
<1>2. \/ /\ addressing_port' = 0 /\ port_config_phase' = phase
         /\ events' = Tail(events) /\ UNCHANGED registers
      \/ waiting # {} /\ ResetPort(w, 0, phase, Tail(events))
  BY <1>1 DEF OnDeviceAddressed
<1>3. /\ slot \in 0 .. kDeviceSize
      /\ Tail(events) \in Seq(EventTRB) /\ Kept(Tail(events), events)
  BY <1>1, EventTaken, EventFields
<1>4. p \in Port /\ p # 0
  BY <1>1, AddressedPort DEF Addressing, Port
<1>5. slot \in SlotID
  BY <1>1, <1>3, <1>4 DEF IInv, SlotInv, SlotID
<1>6. PortOf(Head(events), slot_port, addressing_port) = p
  BY <1>1 DEF PortOf
<1>7. device[p] # "default"
  BY <1>1, <1>4, <1>5 DEF IInv, SlotInv
<1>8. /\ phase \in [0 .. MaxPorts -> Phases]
      /\ phase[p] = "kInitializingDevice"
      /\ \A r \in 0 .. MaxPorts : r # p => phase[r] = port_config_phase[r]
  BY <1>4 DEF IInv, TypeOK, Port, Phases
<1>9. waiting # {} => w \in Port /\ w # p /\ port_config_phase[w] = "kWaitingAddressed"
  BY <1>1, MinWaits
<1>10. /\ devices' \in [0 .. kDeviceSize -> NoDevice .. kInitialized]
       /\ \A s \in 0 .. kDeviceSize : devices[s] # NoDevice => devices'[s] # NoDevice
  BY <1>1, <1>3 DEF IInv, TypeOK, NoDevice, kInitialized
<1> HIDE DEF phase, w, waiting, slot
<1>11. PICK v \in 0 .. MaxPorts :
         /\ addressing_port' = v
         /\ v # 0 => /\ v \in Port /\ v # p
                     /\ port_config_phase[v] = "kWaitingAddressed"
         /\ port_config_phase' = [phase EXCEPT ![v] = IF v = 0 THEN @ ELSE "kResettingPort"]
         /\ device' = [r \in Port |-> IF r = v THEN "default" ELSE device[r]]
         /\ csc' \subseteq Port /\ prc' \subseteq Port
         /\ events' \in Seq(EventTRB) /\ Kept(events', Tail(events))
  <2>1. CASE /\ addressing_port' = 0 /\ port_config_phase' = phase
             /\ events' = Tail(events) /\ UNCHANGED registers
    <3>1. device' = [r \in Port |-> IF r = 0 THEN "default" ELSE device[r]]
      BY <2>1 DEF registers, IInv, TypeOK, Port
    <3>2. port_config_phase' = [phase EXCEPT ![0] = IF 0 = 0 THEN @ ELSE "kResettingPort"]
      BY <2>1, <1>8
    <3>3. Kept(events', Tail(events)) /\ csc' \subseteq Port /\ prc' \subseteq Port
      BY <2>1, KeptReflexive DEF registers, IInv, TypeOK
    <3>4. 0 \in 0 .. MaxPorts
      OBVIOUS
    <3> QED BY <1>3, <2>1, <3>1, <3>2, <3>3, <3>4
  <2>2. CASE waiting # {} /\ ResetPort(w, 0, phase, Tail(events))
    <3>1. CASE /\ addressing_port' = 0 /\ port_config_phase' = phase
               /\ events' = Tail(events) /\ UNCHANGED registers
      BY <2>1, <3>1
    <3>2. CASE /\ addressing_port' = w
               /\ port_config_phase' = [phase EXCEPT ![w] = "kResettingPort"]
               /\ Reset(w, Tail(events))
      <4>1. w \in Port /\ w # 0 /\ w \in 0 .. MaxPorts
        BY <1>9, <2>2 DEF Port
      <4>2. device' = [r \in Port |-> IF r = w THEN "default" ELSE device[r]]
        BY <3>2, <4>1 DEF Reset, IInv, TypeOK
      <4>3. /\ csc' \subseteq Port /\ prc' \subseteq Port
            /\ events' \in Seq(EventTRB) /\ Kept(events', Tail(events))
        BY <1>3, <3>2, <4>1, ChangeKept DEF Reset, IInv, TypeOK
      <4>4. port_config_phase' = [phase EXCEPT ![w] = IF w = 0 THEN @ ELSE "kResettingPort"]
        BY <3>2, <4>1
      <4> QED BY <1>9, <2>2, <3>2, <4>1, <4>2, <4>3, <4>4
    <3> QED BY <2>2, <3>1, <3>2 DEF ResetPort
  <2> QED BY <1>2, <2>1, <2>2
<1>12. /\ port_config_phase' \in [0 .. MaxPorts -> Phases]
       /\ port_config_phase'[p] = "kInitializingDevice"
       /\ v # 0 => port_config_phase'[v] = "kResettingPort"
       /\ \A r \in 0 .. MaxPorts : r # p /\ r # v => port_config_phase'[r] = port_config_phase[r]
       /\ port_config_phase'[0] = port_config_phase[0]
  BY <1>4, <1>8, <1>11 DEF Phases, Port
<1>13. TypeOK' /\ QueuesTyped'
  <2>1. device' \in [Port -> {"absent", "attached", "default", "addressed"}]
    BY <1>11 DEF IInv, TypeOK
  <2> QED BY <1>1, <1>5, <1>10, <1>11, <1>12, <2>1 DEF IInv, TypeOK, QueuesTyped
<1>14. PhaseInv'
  <2>1. port_config_phase'[0] = "kNotConnected"
    BY <1>12 DEF IInv, PhaseInv
  <2>2. \A r \in Port : port_config_phase'[r] \in Addressing <=> r = addressing_port'
    BY <1>4, <1>11, <1>12 DEF IInv, PhaseInv, Addressing, Port
  <2>3. \A r \in Port : device'[r] = "default" => r = addressing_port'
    BY <1>7, <1>11 DEF IInv, PhaseInv
  <2> QED BY <2>1, <2>2, <2>3 DEF PhaseInv
<1>15. SlotInv'
  <2>1. \A s \in SlotID : /\ s \in 0 .. kDeviceSize /\ slot_port[s] \in 0 .. MaxPorts
                          /\ v # 0 => slot_port[s] # v
    BY <1>11, NamedPorts DEF Addressed
  <2>2. \A r \in Port : r \in 0 .. MaxPorts /\ r # 0
    BY DEF Port
  <2>3. \A r \in Port : r # v => device'[r] = device[r]
    BY <1>11
  <2>4. \A r \in 0 .. MaxPorts : r # 0 => r \in Port
    BY DEF Port
  <2>5. ASSUME NEW s \in SlotID, slot_port[s] # 0
        PROVE  /\ s \in slots' /\ devices'[s] # NoDevice
               /\ port_config_phase'[slot_port[s]] \in {"kAddressingDevice"} \cup Addressed
               /\ device'[slot_port[s]] # "default"
    <3>1. /\ s \in slots /\ devices[s] # NoDevice
          /\ port_config_phase[slot_port[s]] \in {"kAddressingDevice"} \cup Addressed
          /\ device[slot_port[s]] # "default"
      BY <2>5 DEF IInv, SlotInv
    <3>2. slot_port[s] \in Port /\ slot_port[s] # v
      BY <2>1, <2>4, <2>5
    <3>3. port_config_phase'[slot_port[s]] \in {"kAddressingDevice"} \cup Addressed
      BY <1>12, <2>2, <3>1, <3>2 DEF Addressed
    <3> QED BY <1>1, <1>10, <2>1, <2>3, <3>1, <3>2, <3>3
  <2>6. ASSUME NEW r \in Port, port_config_phase'[r] \in Addressed
        PROVE  \E s \in SlotID : slot_port[s] = r
    <3>1. CASE r = p
      BY <1>1, <1>5, <3>1
    <3>2. CASE r # p
      <4>1. r # v
        BY <1>12, <2>2, <2>6 DEF Addressed
      <4>2. port_config_phase[r] \in Addressed
        BY <1>12, <2>2, <2>6, <3>2, <4>1
      <4> QED BY <4>2 DEF IInv, SlotInv
    <3> QED BY <3>1, <3>2
  <2> QED BY <1>1, <2>5, <2>6 DEF IInv, SlotInv
<1>16. CommandInv'
  <2>1. \A r \in Port : /\ r # p
                        /\ port_config_phase[r] \in {"kEnablingSlot", "kAddressingDevice",
                                                     "kConfiguringEndpoints"}
                        => port_config_phase'[r] = port_config_phase[r]
    BY <1>11, <1>12 DEF Port
  <2>2. CommandsOK(commands, Tail(events), slot_port, v, port_config_phase', devices')
    BY <1>1, <1>6, <1>10, <2>1, AnswerHandled
  <2>3. CommandsOK(commands, events', slot_port, v, port_config_phase', devices')
    BY <1>11, <2>2, PortsUndisturbed
  <2> QED BY <1>1, <1>11, <2>3 DEF CommandInv
<1> QED BY <1>13, <1>14, <1>15, <1>16 DEF IInv

\* A step that takes no port to its address or past it: what is left to show is
\* what it does to the queues.
LEMMA StagesKept ==
  ASSUME IInv, UNCHANGED <<addressing_port, scan, slot_port>>,
         port_config_phase' \in [0 .. MaxPorts -> Phases],
         \A r \in 0 .. MaxPorts :
           \/ port_config_phase'[r] = port_config_phase[r]
           \/ port_config_phase[r] \in Addressed /\ port_config_phase'[r] \in Addressed,
         devices' \in [0 .. kDeviceSize -> NoDevice .. kInitialized],
         \A s \in 0 .. kDeviceSize : devices[s] # NoDevice => devices'[s] # NoDevice,
         device' \in [Port -> {"absent", "attached", "default", "addressed"}],
         \A r \in Port : device'[r] = "default" => device[r] = "default",
         csc' \subseteq Port, prc' \subseteq Port,
         slots \subseteq slots', slots' \subseteq SlotID, transfers' \subseteq SlotID,
         faults' \in [failures : BOOLEAN, unplugs : Nat],
         QueuesTyped', CommandInv'
  PROVE  IInv'
<1> USE PortsAssumption
<1>1. TypeOK'
  BY DEF IInv, TypeOK
<1>2. \A r \in Port : r \in 0 .. MaxPorts /\ r # 0
  BY DEF Port
<1>3. PhaseInv'
  <2>1. port_config_phase'[0] = "kNotConnected"
    BY DEF IInv, PhaseInv, Addressed
  <2>2. \A r \in Port : port_config_phase'[r] \in Addressing
                          <=> port_config_phase[r] \in Addressing
    BY <1>2 DEF Addressing, Addressed
  <2> QED BY <2>1, <2>2 DEF IInv, PhaseInv
<1>4. SlotInv'
  <2>1. \A r \in Port :
          /\ port_config_phase'[r] \in Addressed <=> port_config_phase[r] \in Addressed
          /\ port_config_phase[r] \in {"kAddressingDevice"} \cup Addressed
               => port_config_phase'[r] \in {"kAddressingDevice"} \cup Addressed
    BY <1>2
  <2>2. \A s \in SlotID : /\ s \in 0 .. kDeviceSize /\ slot_port[s] \in 0 .. MaxPorts
                          /\ slot_port[s] # 0 => slot_port[s] \in Port
    BY NamedPorts DEF Port
  <2> QED BY <2>1, <2>2 DEF IInv, SlotInv
<1> QED BY <1>1, <1>3, <1>4 DEF IInv

LEMMA OnEndpointsConfiguredInv == IInv /\ OnEndpointsConfigured => IInv'
<1> SUFFICES ASSUME IInv, OnEndpointsConfigured PROVE IInv'
  OBVIOUS
<1> USE PortsAssumption
<1> DEFINE p == slot_port[Head(events).slot]
<1>1. /\ events # <<>> /\ Head(events).type = "command" /\ Head(events).issuer = "configure"
      /\ port_config_phase[p] = "kConfiguringEndpoints"
      /\ port_config_phase' = [port_config_phase EXCEPT ![p] = "kConfigured"]
      /\ events' = Tail(events)
      /\ UNCHANGED <<addressing_port, devices, scan, registers, slots, slot_port, commands,
                     transfers, faults>>
  BY DEF OnEndpointsConfigured, Completed, Event
<1>2. Tail(events) \in Seq(EventTRB)
  BY <1>1, EventTaken
<1>3. PortOf(Head(events), slot_port, addressing_port) = p
  BY <1>1 DEF PortOf
<1>4. p \in Port
  BY <1>1, <1>3, AnswerTaken DEF AnswerOK, Awaited
<1> HIDE DEF p
<1>5. /\ port_config_phase' \in [0 .. MaxPorts -> Phases]
      /\ port_config_phase'[p] = "kConfigured"
      /\ \A r \in 0 .. MaxPorts : r # p => port_config_phase'[r] = port_config_phase[r]
  BY <1>1, <1>4 DEF IInv, TypeOK, Port, Phases
<1>6. QueuesTyped'
  BY <1>1, <1>2 DEF IInv, QueuesTyped
<1>7. CommandInv'
  <2>1. \A r \in Port : r # p => port_config_phase'[r] = port_config_phase[r]
    BY <1>5 DEF Port
  <2>2. CommandsOK(commands, Tail(events), slot_port, addressing_port, port_config_phase', devices)
    BY <1>1, <1>3, <2>1, AnswerHandled
  <2> QED BY <1>1, <2>2 DEF CommandInv
<1>8. TypeOK
  BY DEF IInv
<1> QED BY <1>1, <1>5, <1>6, <1>7, <1>8, StagesKept DEF registers, TypeOK, Addressed

LEMMA OnTransferInv == IInv /\ OnTransfer => IInv'
<1> SUFFICES ASSUME IInv, OnTransfer PROVE IInv'
  OBVIOUS
<1> USE PortsAssumption
<1> DEFINE slot == Head(events).slot
           p == slot_port[slot]
           new == ConfigureEndpointCommand(slot)
<1>1. /\ events # <<>> /\ Head(events).type = "transfer"
      /\ events' = Tail(events)
      /\ UNCHANGED <<addressing_port, scan, registers, slots, slot_port, faults>>
  BY DEF OnTransfer, Event
<1>2. /\ slot \in SlotID /\ slot \in 0 .. kDeviceSize
      /\ Tail(events) \in Seq(EventTRB) /\ Kept(Tail(events), events)
  BY <1>1, EventTaken, EventFields DEF SlotID
<1>3. /\ devices' \in [0 .. kDeviceSize -> NoDevice .. kInitialized]
      /\ \A s \in 0 .. kDeviceSize : devices[s] # NoDevice => devices'[s] # NoDevice
      /\ transfers' \subseteq SlotID
  <2>1. devices' = devices \/ \E k \in 1 .. 4 : devices' = [devices EXCEPT ![slot] = k]
    <3>1. devices[slot] \in {1, 2} => devices[slot] + 1 \in 1 .. 4
      OBVIOUS
    <3> HIDE DEF slot
    <3>2. ASSUME devices[slot] \in {1, 2}, devices' = [devices EXCEPT ![slot] = @ + 1]
          PROVE  \E k \in 1 .. 4 : devices' = [devices EXCEPT ![slot] = k]
      BY <3>1, <3>2
    <3>3. ASSUME devices' = [devices EXCEPT ![slot] = kInitialized]
          PROVE  \E k \in 1 .. 4 : devices' = [devices EXCEPT ![slot] = k]
      BY <3>3 DEF kInitialized
    <3> QED BY <3>2, <3>3 DEF OnTransfer, slot
  <2>2. transfers' \subseteq SlotID
    BY <1>2 DEF OnTransfer, IInv, TypeOK
  <2>3. devices \in [0 .. kDeviceSize -> NoDevice .. kInitialized]
    BY DEF IInv, TypeOK
  <2> HIDE DEF slot
  <2>4. CASE devices' = devices
    BY <2>2, <2>3, <2>4
  <2>5. ASSUME NEW k \in 1 .. 4, devices' = [devices EXCEPT ![slot] = k]
        PROVE  /\ devices' \in [0 .. kDeviceSize -> NoDevice .. kInitialized]
               /\ \A s \in 0 .. kDeviceSize : devices[s] # NoDevice => devices'[s] # NoDevice
    BY <1>2, <2>3, <2>5 DEF NoDevice, kInitialized
  <2> QED BY <2>1, <2>2, <2>4, <2>5
<1>4. \/ UNCHANGED <<port_config_phase, commands>>
      \/ /\ port_config_phase[p] = "kInitializingDevice"
         /\ port_config_phase' = [port_config_phase EXCEPT ![p] = "kConfiguringEndpoints"]
         /\ commands' = Append(commands, new)
  BY DEF OnTransfer
<1>5. p \in 0 .. MaxPorts /\ (p # 0 => p \in Port)
  BY <1>2, NamedPorts DEF Port
<1>6. TypeOK
  BY DEF IInv
<1>7. CASE UNCHANGED <<port_config_phase, commands>>
  <2>1. QueuesTyped'
    BY <1>1, <1>2, <1>7 DEF IInv, QueuesTyped
  <2>2. CommandsOK(commands, Tail(events), slot_port, addressing_port, port_config_phase, devices')
    BY <1>2, <1>3, PortsUndisturbed DEF IInv, CommandInv
  <2>3. CommandInv'
    BY <1>1, <1>7, <2>2 DEF CommandInv
  <2> QED BY <1>1, <1>3, <1>6, <1>7, <2>1, <2>3, StagesKept DEF registers, TypeOK
<1>8. CASE /\ port_config_phase[p] = "kInitializingDevice"
           /\ port_config_phase' = [port_config_phase EXCEPT ![p] = "kConfiguringEndpoints"]
           /\ commands' = Append(commands, new)
  <2>1. p \in Port
    BY <1>5, <1>8 DEF IInv, PhaseInv
  <2>2. new \in CommandTRB
    BY <1>2 DEF ConfigureEndpointCommand, CommandTRB, Issuer
  <2>3. PortOf(new, slot_port, addressing_port) = p
    BY DEF PortOf, ConfigureEndpointCommand
  <2> HIDE DEF p
  <2>4. /\ port_config_phase' \in [0 .. MaxPorts -> Phases]
        /\ port_config_phase'[p] = "kConfiguringEndpoints"
        /\ \A r \in 0 .. MaxPorts : r # p => port_config_phase'[r] = port_config_phase[r]
    BY <1>6, <1>8, <2>1 DEF TypeOK, Port, Phases
  <2>5. \A r \in Port : r # p => port_config_phase'[r] = port_config_phase[r]
    BY <2>4 DEF Port
  <2>6. CommandOK(new, slot_port, addressing_port, port_config_phase', devices')
    BY <1>2, <2>1, <2>3, <2>4 DEF CommandOK, Awaited, PhaseOf, ConfigureEndpointCommand
  <2> HIDE DEF new, slot
  <2>7. QueuesTyped'
    BY <1>1, <1>2, <1>8, <2>2, AppendProperties DEF IInv, QueuesTyped
  <2>8. CommandsOK(commands, Tail(events), slot_port, addressing_port, port_config_phase', devices')
    <3>1. \A r \in Port :
            port_config_phase[r] \in {"kEnablingSlot", "kAddressingDevice", "kConfiguringEndpoints"}
              => port_config_phase'[r] = port_config_phase[r]
      BY <1>8, <2>5
    <3> QED BY <1>2, <1>3, <3>1, PortsUndisturbed DEF IInv, CommandInv
  <2>9. CommandsOK(commands, Tail(events), slot_port, addressing_port, port_config_phase, devices)
    BY <1>2, PortsUndisturbed DEF IInv, CommandInv
  <2>10. /\ \A i \in DOMAIN commands : PortOf(commands[i], slot_port, addressing_port) # p
         /\ \A i \in Answers(Tail(events)) :
              PortOf(Tail(events)[i], slot_port, addressing_port) # p
    BY <1>8, <2>9 DEF CommandsOK, CommandOK, AnswerOK, Awaited, PhaseOf
  <2>11. CommandsOK(Append(commands, new), Tail(events), slot_port, addressing_port,
                    port_config_phase', devices')
    BY <2>2, <2>3, <2>6, <2>8, <2>10, CommandGiven DEF IInv, QueuesTyped
  <2>12. CommandInv'
    BY <1>1, <1>8, <2>11 DEF CommandInv
  <2> QED BY <1>1, <1>3, <1>6, <1>8, <2>4, <2>7, <2>12, StagesKept DEF registers, TypeOK, Addressed
<1> QED BY <1>4, <1>7, <1>8

LEMMA OnUnexpectedInv == IInv /\ OnUnexpected => IInv'
<1> SUFFICES ASSUME IInv, OnUnexpected PROVE IInv'
  OBVIOUS
<1>1. /\ events # <<>> /\ events' = Tail(events)
      /\ UNCHANGED <<driver, registers, slots, slot_port, commands, transfers, faults>>
  BY DEF OnUnexpected
<1>2. Tail(events) \in Seq(EventTRB) /\ Kept(Tail(events), events)
  BY <1>1, EventTaken
<1>3. QueuesTyped'
  BY <1>1, <1>2 DEF IInv, QueuesTyped
<1>4. CommandInv'
  BY <1>1, <1>2, PortsUndisturbed DEF driver, IInv, CommandInv
<1>5. TypeOK
  BY DEF IInv
<1> QED BY <1>1, <1>3, <1>4, <1>5, StagesKept DEF driver, registers, TypeOK

-----------------------------------------------------------------------------
(* The steps of the controller and of the user.                            *)

\* The first command, and the ports of the others.
LEMMA FirstCommand ==
  ASSUME IInv, commands # <<>>
  PROVE  LET p == PortOf(Head(commands), slot_port, addressing_port)
         IN  /\ Head(commands) \in CommandTRB /\ Tail(commands) \in Seq(CommandTRB)
             /\ CommandOK(Head(commands), slot_port, addressing_port, port_config_phase, devices)
             /\ \A i \in DOMAIN commands :
                  i # 1 => PortOf(commands[i], slot_port, addressing_port) # p
             /\ \A i \in Answers(events) : PortOf(events[i], slot_port, addressing_port) # p
<1>1. commands \in Seq(CommandTRB)
  BY DEF IInv, QueuesTyped
<1>2. /\ Head(commands) \in CommandTRB /\ Tail(commands) \in Seq(CommandTRB)
      /\ 1 \in DOMAIN commands /\ commands[1] = Head(commands)
  BY <1>1, HeadTailProperties, EmptySeq, LenProperties
<1> QED BY <1>2 DEF IInv, CommandInv, CommandsOK

\* A completion is an event.
LEMMA CompletionTyped ==
  ASSUME IInv, NEW issuer \in Issuer, NEW slot \in 0 .. kDeviceSize
  PROVE  /\ CommandCompletion(issuer, slot) \in CommandEvent
         /\ CommandCompletion(issuer, slot).issuer = issuer
         /\ CommandCompletion(issuer, slot).slot = slot
         /\ Append(events, CommandCompletion(issuer, slot)) \in Seq(EventTRB)
<1>1. CommandCompletion(issuer, slot) \in CommandEvent
  BY DEF CommandCompletion, CommandEvent
<1>2. CommandCompletion(issuer, slot) \in EventTRB
  BY <1>1 DEF EventTRB
<1>3. Append(events, CommandCompletion(issuer, slot)) \in Seq(EventTRB)
  BY <1>2, AppendProperties DEF IInv, QueuesTyped
<1> QED BY <1>1, <1>3 DEF CommandCompletion

\* The commands under way are still for their ports after one was executed that
\* changed no device context.
LEMMA CommandAnswered ==
  ASSUME IInv, commands # <<>>, NEW slot \in 0 .. kDeviceSize,
         LET answer == CommandCompletion(Head(commands).issuer, slot)
         IN  /\ AnswerOK(answer, slot_port, addressing_port, port_config_phase, devices)
             /\ PortOf(answer, slot_port, addressing_port)
                  = PortOf(Head(commands), slot_port, addressing_port)
  PROVE  CommandsOK(Tail(commands), Append(events, CommandCompletion(Head(commands).issuer, slot)),
                    slot_port, addressing_port, port_config_phase, devices)
<1> DEFINE answer == CommandCompletion(Head(commands).issuer, slot)
<1>1. Head(commands).issuer \in Issuer
  BY FirstCommand DEF CommandTRB
<1>2. answer \in CommandEvent /\ answer.issuer = Head(commands).issuer
  BY <1>1, CompletionTyped
<1>3. /\ AnswerOK(answer, slot_port, addressing_port, port_config_phase, devices)
      /\ PortOf(answer, slot_port, addressing_port)
           = PortOf(Head(commands), slot_port, addressing_port)
  OBVIOUS
<1> HIDE DEF answer
<1>4. CommandsOK(commands, events, slot_port, addressing_port, port_config_phase, devices)
  BY DEF IInv, CommandInv
<1>5. /\ \A i \in DOMAIN commands :
           CommandOK(commands[i], slot_port, addressing_port, port_config_phase, devices)
      /\ \A i \in Answers(events) :
           AnswerOK(events[i], slot_port, addressing_port, port_config_phase, devices)
  BY <1>4 DEF CommandsOK
<1>6. CommandsOK(Tail(commands), Append(events, answer),
                 slot_port, addressing_port, port_config_phase, devices)
  BY <1>2, <1>3, <1>4, <1>5, CommandDone DEF IInv, QueuesTyped
<1> QED BY <1>6 DEF answer

LEMMA ExecuteEnableSlotInv == IInv /\ ExecuteEnableSlot => IInv'
<1> SUFFICES ASSUME IInv, ExecuteEnableSlot PROVE IInv'
  OBVIOUS
<1> USE PortsAssumption
<1>1. /\ commands # <<>> /\ Head(commands).issuer = "enable"
      /\ UNCHANGED <<driver, registers, slot_port, transfers, faults>>
  BY DEF ExecuteEnableSlot, Command
<1>2. PICK slot \in 0 .. kDeviceSize : /\ Complete(slot)
                                       /\ slot_port[slot] = 0
                                       /\ slots \subseteq slots' /\ slots' \subseteq SlotID
  <2>1. CASE \E slot \in SlotID \ slots : Complete(slot) /\ slots' = slots \cup {slot}
    BY <2>1, NamedPorts DEF IInv, TypeOK, SlotInv
  <2>2. CASE Complete(0) /\ UNCHANGED slots
    BY <2>2 DEF IInv, TypeOK, SlotInv
  <2> QED BY <2>1, <2>2 DEF ExecuteEnableSlot
<1>3. "enable" \in Issuer
  BY DEF Issuer
<1>4. QueuesTyped'
  BY <1>1, <1>2, <1>3, FirstCommand, CompletionTyped DEF Complete, QueuesTyped
<1>5. CommandInv'
  <2> DEFINE answer == CommandCompletion("enable", slot)
  <2>1. answer.issuer = "enable" /\ answer.slot = slot
    BY <1>3, CompletionTyped
  <2>2. PortOf(answer, slot_port, addressing_port)
          = PortOf(Head(commands), slot_port, addressing_port)
    BY <1>1, <2>1 DEF PortOf
  <2> HIDE DEF answer
  <2>3. AnswerOK(answer, slot_port, addressing_port, port_config_phase, devices)
    BY <1>1, <1>2, <2>1, <2>2, FirstCommand DEF CommandOK, AnswerOK, Awaited
  <2>4. CommandsOK(Tail(commands), Append(events, CommandCompletion("enable", slot)),
                   slot_port, addressing_port, port_config_phase, devices)
    BY <1>1, <2>2, <2>3, CommandAnswered DEF answer
  <2> QED BY <1>1, <1>2, <2>4 DEF Complete, CommandInv, driver
<1>6. TypeOK
  BY DEF IInv
<1> QED BY <1>1, <1>2, <1>4, <1>5, <1>6, StagesKept DEF driver, registers, TypeOK

LEMMA ExecuteConfigureEndpointInv == IInv /\ ExecuteConfigureEndpoint => IInv'
<1> SUFFICES ASSUME IInv, ExecuteConfigureEndpoint PROVE IInv'
  OBVIOUS
<1> DEFINE slot == Head(commands).slot
           answer == CommandCompletion("configure", slot)
<1>1. /\ commands # <<>> /\ Head(commands).issuer = "configure"
      /\ events' = Append(events, answer) /\ commands' = Tail(commands)
      /\ UNCHANGED <<driver, registers, slots, slot_port, transfers, faults>>
  BY DEF ExecuteConfigureEndpoint, Command, Complete
<1>2. "configure" \in Issuer /\ slot \in 0 .. kDeviceSize
  BY <1>1, FirstCommand DEF Issuer, CommandTRB
<1>3. answer.issuer = "configure" /\ answer.slot = slot
  BY <1>2, CompletionTyped
<1>4. QueuesTyped'
  BY <1>1, <1>2, FirstCommand, CompletionTyped DEF QueuesTyped
<1>5. PortOf(answer, slot_port, addressing_port)
        = PortOf(Head(commands), slot_port, addressing_port)
  BY <1>1, <1>3 DEF PortOf
<1> HIDE DEF answer
<1>6. AnswerOK(answer, slot_port, addressing_port, port_config_phase, devices)
  BY <1>1, <1>2, <1>3, <1>5, FirstCommand DEF CommandOK, AnswerOK, Awaited
<1>7. CommandsOK(Tail(commands), Append(events, answer),
                 slot_port, addressing_port, port_config_phase, devices)
  BY <1>1, <1>2, <1>5, <1>6, CommandAnswered DEF answer
<1>8. CommandInv'
  BY <1>1, <1>7 DEF CommandInv, driver
<1>9. TypeOK
  BY DEF IInv
<1> QED BY <1>1, <1>4, <1>8, <1>9, StagesKept DEF driver, registers, TypeOK

\* The device takes its address and the device context of its slot names the
\* port: no other slot named it, since it still answered to address 0.
LEMMA ExecuteAddressDeviceInv == IInv /\ ExecuteAddressDevice => IInv'
<1> SUFFICES ASSUME IInv, ExecuteAddressDevice PROVE IInv'
  OBVIOUS
<1> USE PortsAssumption
<1> DEFINE slot == Head(commands).slot
           p == addressing_port
           answer == CommandCompletion("address", slot)
<1>1. /\ commands # <<>> /\ Head(commands).issuer = "address"
      /\ events' = Append(events, answer) /\ commands' = Tail(commands)
      /\ UNCHANGED <<driver, csc, prc, slots, transfers, faults>>
  BY DEF ExecuteAddressDevice, Command, Complete
<1>2. "address" \in Issuer /\ slot \in 0 .. kDeviceSize
  BY <1>1, FirstCommand DEF Issuer, CommandTRB
<1>3. /\ Head(commands).port = p /\ slot_port[slot] = 0
      /\ PortOf(Head(commands), slot_port, p) = p
      /\ p \in Port /\ port_config_phase[p] = "kAddressingDevice" /\ devices[slot] # NoDevice
  BY <1>1, FirstCommand DEF CommandOK, Awaited, PortOf, PhaseOf
<1>4. /\ answer \in CommandEvent /\ answer.issuer = "address" /\ answer.slot = slot
      /\ QueuesTyped'
  BY <1>1, <1>2, FirstCommand, CompletionTyped DEF QueuesTyped
<1>5. \A sp : /\ PortOf(answer, sp, p) = p
              /\ AnswerOK(answer, sp, p, port_config_phase, devices)
  BY <1>2, <1>3, <1>4 DEF PortOf, AnswerOK, Awaited, PhaseOf
<1>6. TypeOK
  BY DEF IInv
<1>7. CASE UNCHANGED <<device, slot_port>>
  <2>1. CommandsOK(Tail(commands), Append(events, answer), slot_port, p, port_config_phase, devices)
    BY <1>1, <1>2, <1>3, <1>5, CommandAnswered
  <2>2. CommandInv'
    BY <1>1, <1>7, <2>1 DEF CommandInv, driver
  <2> QED BY <1>1, <1>4, <1>6, <1>7, <2>2, StagesKept DEF driver, registers, TypeOK
<1>8. CASE /\ slot \in slots /\ device[p] = "default"
           /\ device' = [device EXCEPT ![p] = "addressed"]
           /\ slot_port' = [slot_port EXCEPT ![slot] = p]
  <2> HIDE DEF slot, answer
  <2>1. /\ slot_port' \in [0 .. kDeviceSize -> 0 .. MaxPorts]
        /\ slot_port'[slot] = p
        /\ \A s \in 0 .. kDeviceSize : s # slot => slot_port'[s] = slot_port[s]
    BY <1>2, <1>3, <1>6, <1>8 DEF TypeOK, Port
  <2>2. /\ device' \in [Port -> {"absent", "attached", "default", "addressed"}]
        /\ device'[p] = "addressed"
        /\ \A r \in Port : r # p => device'[r] = device[r]
    BY <1>3, <1>6, <1>8 DEF TypeOK
  <2>3. slot \in SlotID
    BY <1>6, <1>8 DEF TypeOK
  <2>4. TypeOK'
    BY <1>1, <1>6, <2>1, <2>2 DEF TypeOK, driver
  <2>5. PhaseInv'
    BY <1>1, <1>3, <2>2 DEF IInv, PhaseInv, driver
  <2>6. SlotInv'
    <3>1. \A s \in SlotID : slot_port[s] # p
      BY <1>3, <1>8 DEF IInv, SlotInv, Port
    <3>2. \A s \in SlotID : /\ s \in 0 .. kDeviceSize /\ slot_port[s] \in 0 .. MaxPorts
                            /\ slot_port[s] # 0 => slot_port[s] \in Port
      BY NamedPorts DEF Port
    <3>3. slot_port'[0] = 0
      <4>1. slot # 0 /\ 0 \in 0 .. kDeviceSize
        BY <2>3 DEF SlotID
      <4> QED BY <2>1, <4>1 DEF IInv, SlotInv
    <3>4. ASSUME NEW s \in SlotID, slot_port'[s] # 0
          PROVE  /\ s \in slots /\ devices[s] # NoDevice
                 /\ port_config_phase[slot_port'[s]] \in {"kAddressingDevice"} \cup Addressed
                 /\ device'[slot_port'[s]] # "default"
      <4>1. CASE s = slot
        BY <1>3, <1>8, <2>1, <2>2, <4>1
      <4>2. CASE s # slot
        BY <2>1, <2>2, <3>1, <3>2, <3>4, <4>2 DEF IInv, SlotInv
      <4> QED BY <4>1, <4>2
    <3>5. \A s, t \in SlotID : slot_port'[s] = slot_port'[t] /\ slot_port'[s] # 0 => s = t
      <4>1. \A s \in SlotID : s # slot => slot_port'[s] = slot_port[s] /\ slot_port'[s] # p
        BY <2>1, <3>1, <3>2
      <4> QED BY <2>1, <4>1 DEF IInv, SlotInv
    <3>6. ASSUME NEW r \in Port, port_config_phase[r] \in Addressed
          PROVE  \E s \in SlotID : slot_port'[s] = r
      <4>1. PICK s \in SlotID : slot_port[s] = r
        BY <3>6 DEF IInv, SlotInv
      <4>2. s # slot
        BY <1>3, <4>1 DEF Port
      <4> QED BY <2>1, <3>2, <4>1, <4>2
    <3> QED BY <1>1, <3>3, <3>4, <3>5, <3>6 DEF SlotInv, driver
  <2>7. CommandInv'
    <3>1. ASSUME NEW c, Awaited(c, slot_port, p, port_config_phase, devices),
                 PortOf(c, slot_port, p) # p
          PROVE  /\ c.issuer = "configure"
                 /\ PortOf(c, slot_port', p) = PortOf(c, slot_port, p)
                 /\ Awaited(c, slot_port', p, port_config_phase, devices)
      <4>1. c.issuer = "configure" /\ PortOf(c, slot_port, p) = slot_port[c.slot]
        BY <3>1 DEF PortOf
      <4>2. c.slot \in 0 .. kDeviceSize /\ c.slot # slot
        BY <1>3, <3>1, <4>1 DEF Awaited, Port
      <4>3. PortOf(c, slot_port', p) = PortOf(c, slot_port, p)
        BY <2>1, <4>1, <4>2 DEF PortOf
      <4> QED BY <3>1, <4>1, <4>3 DEF Awaited
    <3>2. CommandsOK(commands, events, slot_port, p, port_config_phase, devices)
      BY DEF IInv, CommandInv
    <3>3. \A i \in DOMAIN commands : i # 1 =>
            /\ PortOf(commands[i], slot_port', p) = PortOf(commands[i], slot_port, p)
            /\ CommandOK(commands[i], slot_port', p, port_config_phase, devices)
      BY <1>1, <1>3, <3>1, <3>2, FirstCommand DEF CommandsOK, CommandOK
    <3>4. \A i \in Answers(events) :
            /\ PortOf(events[i], slot_port', p) = PortOf(events[i], slot_port, p)
            /\ AnswerOK(events[i], slot_port', p, port_config_phase, devices)
      BY <1>1, <1>3, <3>1, <3>2, FirstCommand DEF CommandsOK, AnswerOK
    <3>5. /\ PortOf(answer, slot_port', p) = PortOf(Head(commands), slot_port, p)
          /\ AnswerOK(answer, slot_port', p, port_config_phase, devices)
          /\ answer.issuer = Head(commands).issuer
      BY <1>1, <1>3, <1>4, <1>5
    <3>6. CommandsOK(Tail(commands), Append(events, answer), slot_port', p, port_config_phase, devices)
      BY <1>1, <1>4, <3>2, <3>3, <3>4, <3>5, CommandDone DEF IInv, QueuesTyped
    <3> QED BY <1>1, <3>6 DEF CommandInv, driver
  <2> QED BY <1>4, <2>4, <2>5, <2>6, <2>7 DEF IInv
<1> QED BY <1>3, <1>7, <1>8 DEF ExecuteAddressDevice

\* An event that is no completion is posted, and nothing the ports go by changes.
LEMMA ExecuteTransferInv ==
  ASSUME NEW slot \in SlotID, IInv, ExecuteTransfer(slot)
  PROVE  IInv'
<1>1. PICK ok \in BOOLEAN : events' = Append(events, TransferEvent(slot, ok))
  BY DEF ExecuteTransfer
<1>2. /\ transfers' \subseteq transfers
      /\ UNCHANGED <<driver, registers, slots, slot_port, commands, faults>>
  BY DEF ExecuteTransfer
<1>3. TransferEvent(slot, ok) \in EventTRB /\ TransferEvent(slot, ok).type # "command"
  BY DEF TransferEvent, EventTRB, TransferEvents
<1>4. events' \in Seq(EventTRB) /\ Kept(events', events)
  BY <1>1, <1>3, AppendAnswers DEF IInv, QueuesTyped
<1>5. QueuesTyped'
  BY <1>2, <1>4 DEF IInv, QueuesTyped
<1>6. CommandInv'
  BY <1>2, <1>4, PortsUndisturbed DEF driver, IInv, CommandInv
<1>7. TypeOK
  BY DEF IInv
<1> QED BY <1>2, <1>5, <1>6, <1>7, StagesKept DEF driver, registers, TypeOK

LEMMA PlugInInv ==
  ASSUME NEW p \in Port, IInv, PlugIn(p)
  PROVE  IInv'
<1>1. /\ device' = [device EXCEPT ![p] = "attached"] /\ csc' = csc \cup {p}
      /\ events' = WithChange(events, p, csc \cup prc)
      /\ UNCHANGED <<driver, prc, slots, slot_port, commands, transfers, faults>>
  BY DEF PlugIn
<1>2. events' \in Seq(EventTRB) /\ Kept(events', events)
  BY <1>1, ChangeKept DEF IInv, QueuesTyped
<1>3. QueuesTyped'
  BY <1>1, <1>2 DEF IInv, QueuesTyped
<1>4. CommandInv'
  BY <1>1, <1>2, PortsUndisturbed DEF driver, IInv, CommandInv
<1>5. TypeOK
  BY DEF IInv
<1>6. /\ device' \in [Port -> {"absent", "attached", "default", "addressed"}]
      /\ \A r \in Port : device'[r] = "default" => device[r] = "default"
  BY <1>1, <1>5 DEF TypeOK
<1> QED BY <1>1, <1>3, <1>4, <1>5, <1>6, StagesKept DEF driver, TypeOK

LEMMA UnplugInv ==
  ASSUME NEW p \in Port, IInv, Unplug(p)
  PROVE  IInv'
<1>1. /\ device' = [device EXCEPT ![p] = "absent"] /\ csc' = csc \cup {p}
      /\ events' = WithChange(events, p, csc \cup prc)
      /\ UNCHANGED <<driver, prc, slots, slot_port, commands, transfers>>
  BY DEF Unplug
<1>2. events' \in Seq(EventTRB) /\ Kept(events', events)
  BY <1>1, ChangeKept DEF IInv, QueuesTyped
<1>3. QueuesTyped'
  BY <1>1, <1>2 DEF IInv, QueuesTyped
<1>4. CommandInv'
  BY <1>1, <1>2, PortsUndisturbed DEF driver, IInv, CommandInv
<1>5. TypeOK
  BY DEF IInv
<1>6. /\ device' \in [Port -> {"absent", "attached", "default", "addressed"}]
      /\ \A r \in Port : device'[r] = "default" => device[r] = "default"
  BY <1>1, <1>5 DEF TypeOK
<1>7. faults' \in [failures : BOOLEAN, unplugs : Nat]
  BY <1>5 DEF Unplug, TypeOK
<1> QED BY <1>1, <1>3, <1>4, <1>5, <1>6, <1>7, StagesKept DEF driver, TypeOK

-----------------------------------------------------------------------------
(* The theorems.                                                           *)

LEMMA NextInv == IInv /\ [Next]_vars => IInv'
<1> SUFFICES ASSUME IInv, [Next]_vars PROVE IInv'
  OBVIOUS
<1>1. CASE DriverStep
  BY <1>1, ScanPortInv, OnPortNotConnectedInv, OnPortResetInv, OnSlotEnabledInv,
     OnDeviceAddressedInv, OnEndpointsConfiguredInv, OnTransferInv, OnUnexpectedInv
  DEF DriverStep
<1>2. CASE ControllerStep
  BY <1>2, ExecuteEnableSlotInv, ExecuteAddressDeviceInv, ExecuteConfigureEndpointInv,
     ExecuteTransferInv
  DEF ControllerStep
<1>3. CASE \E p \in Port : PlugIn(p) \/ Unplug(p)
  BY <1>3, PlugInInv, UnplugInv
<1>4. CASE UNCHANGED vars
  BY <1>4 DEF vars, driver, registers, IInv, TypeOK, QueuesTyped, PhaseInv, SlotInv, CommandInv
<1> QED BY <1>1, <1>2, <1>3, <1>4 DEF Next

\* Every reachable state satisfies the inductive invariant.
THEOREM InvariantHolds == Spec => []IInv
BY InitInv, NextInv, PTL DEF Spec

\* One port at a time is between its reset and its address, and one device at
\* most answers to address 0, however many ports there are.
THEOREM AddressingExclusiveHolds == Spec => []AddressingExclusive
<1>1. IInv => AddressingExclusive
  <2> SUFFICES ASSUME IInv PROVE AddressingExclusive
    OBVIOUS
  <2> DEFINE D == {p \in Port : device[p] = "default"}
  <2>1. {p \in Port : port_config_phase[p] \in Addressing} = {addressing_port} \ {0}
    <3>1. \A p \in Port : p # 0
      BY DEF Port
    <3> QED BY <3>1, AddressedPort DEF IInv, PhaseInv
  <2>2. D \subseteq {addressing_port}
    BY DEF IInv, PhaseInv
  <2>3. IsFiniteSet({addressing_port}) /\ Cardinality({addressing_port}) = 1
    BY FS_Singleton
  <2>4. Cardinality(D) <= 1
    BY <2>2, <2>3, FS_Subset
  <2> QED BY <2>1, <2>4 DEF AddressingExclusive, Addressing
<1> QED BY <1>1, InvariantHolds, PTL

\* A port past its addressing is named by the device context of exactly one slot,
\* and that slot has a device.
THEOREM SlotsMatchPortsHolds == Spec => []SlotsMatchPorts
<1>1. IInv => SlotsMatchPorts
  <2> SUFFICES ASSUME IInv, NEW p \in Port, port_config_phase[p] \in Addressed
               PROVE  \E s \in SlotID : /\ {t \in SlotID : slot_port[t] = p} = {s}
                                        /\ devices[s] # NoDevice
    BY DEF SlotsMatchPorts, Addressed
  <2>1. PICK s \in SlotID : slot_port[s] = p
    BY DEF IInv, SlotInv
  <2>2. p # 0
    BY DEF Port
  <2>3. \A t \in SlotID : slot_port[t] = p => t = s
    BY <2>1, <2>2 DEF IInv, SlotInv
  <2>4. {t \in SlotID : slot_port[t] = p} = {s}
    BY <2>1, <2>3
  <2>5. devices[s] # NoDevice
    BY <2>1, <2>2 DEF IInv, SlotInv
  <2> QED BY <2>4, <2>5
<1> QED BY <1>1, InvariantHolds, PTL

\* There are as many commands under way as ports that wait for one, at most: the
\* port a command is about tells it from the others.
THEOREM CommandRingBoundedHolds == Spec => []CommandRingBounded
<1>1. IInv => CommandRingBounded
  <2> SUFFICES ASSUME IInv PROVE CommandRingBounded
    OBVIOUS
  <2> DEFINE W == {p \in Port : port_config_phase[p] \in
                     {"kEnablingSlot", "kAddressingDevice", "kConfiguringEndpoints"}}
             A == Answers(events)
             f == [i \in DOMAIN commands |-> PortOf(commands[i], slot_port, addressing_port)]
             g == [i \in A |-> PortOf(events[i], slot_port, addressing_port)]
             F == {f[i] : i \in DOMAIN commands}
             G == {g[i] : i \in A}
  <2>1. CommandsOK(commands, events, slot_port, addressing_port, port_config_phase, devices)
    BY DEF IInv, CommandInv
  <2>2. F \subseteq W /\ G \subseteq W
    BY <2>1 DEF CommandsOK, CommandOK, AnswerOK, Awaited, PhaseOf
  <2>3. F \cap G = {}
    BY <2>1 DEF CommandsOK
  <2>4. f \in Injection(DOMAIN commands, F)
    <3>1. f \in [DOMAIN commands -> F]
      OBVIOUS
    <3>2. \A i, j \in DOMAIN commands : f[i] = f[j] => i = j
      BY <2>1 DEF CommandsOK
    <3> HIDE DEF f, F
    <3> QED BY <3>1, <3>2, Fun_IsInj
  <2>5. g \in Injection(A, G)
    <3>1. g \in [A -> G]
      OBVIOUS
    <3>2. \A i, j \in A : g[i] = g[j] => i = j
      BY <2>1 DEF CommandsOK
    <3> HIDE DEF g, G, A
    <3> QED BY <3>1, <3>2, Fun_IsInj
  <2> HIDE DEF f, g, F, G
  <2>6. IsFiniteSet(Port)
    BY PortsAssumption, FS_Interval DEF Port
  <2>7. IsFiniteSet(W)
    BY <2>6, FS_Subset
  <2> HIDE DEF W, A
  <2>8. /\ IsFiniteSet(F) /\ IsFiniteSet(G)
        /\ Cardinality(F) \in Nat /\ Cardinality(G) \in Nat /\ Cardinality(W) \in Nat
    BY <2>2, <2>7, FS_Subset, FS_CardinalityType
  <2>9. Cardinality(DOMAIN commands) <= Cardinality(F) /\ Cardinality(A) <= Cardinality(G)
        /\ IsFiniteSet(A)
    BY <2>4, <2>5, <2>8, FS_Injection
  <2>10. Cardinality(F \cup G) = Cardinality(F) + Cardinality(G)
    <3>1. Cardinality(F \cup G) = Cardinality(F) + Cardinality(G) - Cardinality(F \cap G)
      BY <2>8, FS_Union
    <3>2. Cardinality(F \cap G) = 0
      BY <2>3, FS_EmptySet
    <3> QED BY <2>8, <3>1, <3>2
  <2>11. Cardinality(F \cup G) <= Cardinality(W)
    BY <2>2, <2>7, FS_Subset
  <2>12. /\ Len(commands) \in Nat /\ DOMAIN commands = 1 .. Len(commands)
    BY LenProperties DEF IInv, QueuesTyped
  <2>13. Cardinality(DOMAIN commands) = Len(commands)
    <3>1. Cardinality(1 .. Len(commands)) = IF 1 > Len(commands) THEN 0 ELSE Len(commands) - 1 + 1
      BY <2>12, FS_Interval
    <3> QED BY <2>12, <3>1
  <2>14. Cardinality(A) \in Nat
    BY <2>9, FS_CardinalityType
  <2>15. Len(commands) + Cardinality(A) <= Cardinality(W)
    BY <2>8, <2>9, <2>10, <2>11, <2>12, <2>13, <2>14
  <2> QED BY <2>15 DEF CommandRingBounded, A, W, Answers
<1> QED BY <1>1, InvariantHolds, PTL
=============================================================================
