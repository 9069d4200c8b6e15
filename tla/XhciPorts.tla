----------------------------- MODULE XhciPorts -----------------------------
(***************************************************************************)
(* How usb/xhci/xhci.cpp takes the devices on the root hub's ports into    *)
(* use.  The driver runs in the main task: a scan of the ports in          *)
(* Initialize, then one event after the other.  The controller and the     *)
(* user who plugs devices in and out run beside it.  Commands and events   *)
(* travel through queues (XhciRing, EventRing).                            *)
(*                                                                         *)
(* A port goes through the phases of port_config_phase, one per event.     *)
(* From the reset until it has an address a device answers to address 0,   *)
(* so the driver takes only one port at a time that far (addressing_port)  *)
(* and the others wait.  Port::Reset waits for the reset to end: nothing   *)
(* but the queue of events can change meanwhile, so it is one step.        *)
(***************************************************************************)
EXTENDS Integers, Sequences, FiniteSetsExt

CONSTANTS
  MaxPorts,          \* root hub ports
  kDeviceSize,       \* device slots
  FaultModels,       \* what may go wrong: whether commands and transfers may fail
                     \* and devices be of no class the kernel has a driver for,
                     \* and a bound on how often a device is unplugged
  UnpluggedPhases    \* the phases in which a port may lose its device

Phases == {"kNotConnected", "kWaitingAddressed", "kResettingPort", "kEnablingSlot",
           "kAddressingDevice", "kInitializingDevice", "kConfiguringEndpoints",
           "kConfigured"}
Port == 1 .. MaxPorts
SlotID == 1 .. kDeviceSize

ASSUME PortsAssumption == MaxPorts \in Nat /\ kDeviceSize \in Nat
ASSUME FaultModelsAssumption == FaultModels \subseteq [failures : BOOLEAN, unplugs : Nat]
ASSUME UnpluggedAssumption == UnpluggedPhases \subseteq Phases

VARIABLES
  port_config_phase,   \* of each port; index 0 is never assigned
  addressing_port,     \* the port being reset or addressed, 0 if none
  devices,             \* initialize_phase_ of the device of each slot, or NoDevice
  scan,                \* the next port Initialize looks at
  device,              \* what is on each port: "absent", "attached" (not reset),
                       \* "default" (address 0) or "addressed"
  csc, prc,            \* the ports whose CSC and PRC bits are set
  slots,               \* the slots the controller has enabled
  slot_port,           \* root_hub_port_num in each device context, 0 before
  commands, events,    \* the command ring and the event ring
  transfers,           \* the slots with a control transfer on the way
  faults               \* what may still go wrong

driver == <<port_config_phase, addressing_port, devices, scan>>
registers == <<device, csc, prc>>
vars == <<driver, registers, slots, slot_port, commands, events, transfers, faults>>

NoDevice == -1
kInitialized == 4

PortStatusChange(p) == [type |-> "port", port |-> p]
CommandCompletion(issuer, slot) == [type |-> "command", issuer |-> issuer, slot |-> slot]
TransferEvent(slot, ok) == [type |-> "transfer", slot |-> slot, ok |-> ok]
EnableSlotCommand == [issuer |-> "enable", slot |-> 0, port |-> 0]
AddressDeviceCommand(slot, p) == [issuer |-> "address", slot |-> slot, port |-> p]
ConfigureEndpointCommand(slot) == [issuer |-> "configure", slot |-> slot, port |-> 0]

Connected(p) == device[p] # "absent"

-----------------------------------------------------------------------------
(* The driver.  It handles the event at the head of the queue and removes  *)
(* it; queue is what it leaves of the events.                              *)

\* The controller posts an event when the first change bit of a port is set.
WithChange(queue, p, changed) ==
  IF p \in changed THEN queue ELSE Append(queue, PortStatusChange(p))

\* Port::Reset: CSC is cleared by the write, the reset ends with PRC set.
Reset(p, queue) ==
  /\ device' = [device EXCEPT ![p] = "default"]
  /\ csc' = csc \ {p}
  /\ prc' = prc \cup {p}
  /\ events' = WithChange(queue, p, prc)

\* Wrong: a port that is being addressed is not waited for.
ResetPort_NoWaiting(p, current, phase, queue) ==
  \/ /\ ~Connected(p)
     /\ addressing_port' = current
     /\ port_config_phase' = phase
     /\ events' = queue
     /\ UNCHANGED registers
  \/ /\ Connected(p)
     /\ addressing_port' = p
     /\ port_config_phase' = [phase EXCEPT ![p] = "kResettingPort"]
     /\ Reset(p, queue)

\* ResetPort(p), for a port whose phase is kNotConnected or kWaitingAddressed,
\* when the port being addressed is current and the phases are phase.
ResetPort(p, current, phase, queue) ==
  \/ /\ ~Connected(p)
     /\ addressing_port' = current
     /\ port_config_phase' = phase
     /\ events' = queue
     /\ UNCHANGED registers
  \/ /\ Connected(p) /\ current # 0
     /\ addressing_port' = current
     /\ port_config_phase' = [phase EXCEPT ![p] = "kWaitingAddressed"]
     /\ events' = queue
     /\ UNCHANGED registers
  \/ /\ Connected(p) /\ current = 0
     /\ addressing_port' = p
     /\ port_config_phase' = [phase EXCEPT ![p] = "kResettingPort"]
     /\ Reset(p, queue)

\* The loop of Initialize, and ConfigurePort.
ScanPort ==
  /\ scan <= MaxPorts
  /\ scan' = scan + 1
  /\ IF Connected(scan) /\ port_config_phase[scan] = "kNotConnected"
     THEN ResetPort(scan, addressing_port, port_config_phase, events)
     ELSE UNCHANGED <<addressing_port, port_config_phase, events, registers>>
  /\ UNCHANGED <<devices, slots, slot_port, commands, transfers, faults>>

\* ProcessEvent: the event at the head, once Initialize has returned.
Event(type) == scan > MaxPorts /\ events # <<>> /\ Head(events).type = type

\* Wrong: a port that changes is reset whatever its phase.
OnPortNotConnected_AnyPhase ==
  /\ Event("port")
  /\ ResetPort(Head(events).port, addressing_port, port_config_phase, Tail(events))
  /\ UNCHANGED <<devices, scan, slots, slot_port, commands, transfers, faults>>

OnPortNotConnected ==
  /\ Event("port")
  /\ port_config_phase[Head(events).port] = "kNotConnected"
  /\ ResetPort(Head(events).port, addressing_port, port_config_phase, Tail(events))
  /\ UNCHANGED <<devices, scan, slots, slot_port, commands, transfers, faults>>

\* Wrong: every change of the port counts as the end of its reset.
OnPortReset_EveryChange ==
  /\ Event("port")
  /\ LET p == Head(events).port
     IN  /\ port_config_phase[p] \in {"kResettingPort", "kEnablingSlot"}
         /\ prc' = prc \ {p}
         /\ port_config_phase' = [port_config_phase EXCEPT ![p] = "kEnablingSlot"]
         /\ commands' = Append(commands, EnableSlotCommand)
  /\ events' = Tail(events)
  /\ UNCHANGED <<addressing_port, devices, scan, device, csc, slots, slot_port, transfers, faults>>

\* EnableSlot
OnPortReset ==
  /\ Event("port")
  /\ LET p == Head(events).port
     IN  /\ port_config_phase[p] = "kResettingPort"
         /\ IF device[p] \in {"default", "addressed"} /\ p \in prc
            THEN /\ prc' = prc \ {p}
                 /\ port_config_phase' = [port_config_phase EXCEPT ![p] = "kEnablingSlot"]
                 /\ commands' = Append(commands, EnableSlotCommand)
            ELSE UNCHANGED <<prc, port_config_phase, commands>>
  /\ events' = Tail(events)
  /\ UNCHANGED <<addressing_port, devices, scan, device, csc, slots, slot_port, transfers, faults>>

Completed(issuer) == Event("command") /\ Head(events).issuer = issuer

\* AddressDevice: AllocDevice, the contexts, LoadDCBAA.  No completion code is
\* looked at: an Enable Slot that failed gives slot 0.
OnSlotEnabled ==
  /\ Completed("enable")
  /\ port_config_phase[addressing_port] = "kEnablingSlot"
  /\ LET slot == Head(events).slot
     IN  /\ devices' = [devices EXCEPT ![slot] = IF @ = NoDevice THEN 0 ELSE @]
         /\ commands' = Append(commands, AddressDeviceCommand(slot, addressing_port))
  /\ port_config_phase' = [port_config_phase EXCEPT ![addressing_port] = "kAddressingDevice"]
  /\ events' = Tail(events)
  /\ UNCHANGED <<addressing_port, scan, registers, slots, slot_port, transfers, faults>>

\* Wrong: the ports that wait are forgotten.
OnDeviceAddressed_NoHandOver ==
  /\ Completed("address")
  /\ LET slot == Head(events).slot
         p == slot_port[slot]
     IN  /\ devices[slot] # NoDevice
         /\ p = addressing_port /\ port_config_phase[p] = "kAddressingDevice"
         /\ port_config_phase' = [port_config_phase EXCEPT ![p] = "kInitializingDevice"]
         /\ devices' = [devices EXCEPT ![slot] = 1]
         /\ transfers' = transfers \cup {slot}
  /\ addressing_port' = 0
  /\ events' = Tail(events)
  /\ UNCHANGED <<scan, registers, slots, slot_port, commands, faults>>

\* The port has its address: the next port that waits is reset, if it is still
\* connected, and the device starts to initialize itself.
OnDeviceAddressed ==
  /\ Completed("address")
  /\ LET slot == Head(events).slot
         p == slot_port[slot]
         phase == [port_config_phase EXCEPT ![p] = "kInitializingDevice"]
         waiting == {w \in Port : port_config_phase[w] = "kWaitingAddressed"}
     IN  /\ devices[slot] # NoDevice
         /\ p = addressing_port /\ port_config_phase[p] = "kAddressingDevice"
         /\ IF waiting = {}
            THEN /\ addressing_port' = 0
                 /\ port_config_phase' = phase
                 /\ events' = Tail(events)
                 /\ UNCHANGED registers
            ELSE ResetPort(Min(waiting), 0, phase, Tail(events))
         /\ devices' = [devices EXCEPT ![slot] = 1]
         /\ transfers' = transfers \cup {slot}
  /\ UNCHANGED <<scan, slots, slot_port, commands, faults>>

\* CompleteConfiguration
OnEndpointsConfigured ==
  /\ Completed("configure")
  /\ LET p == slot_port[Head(events).slot]
     IN  /\ devices[Head(events).slot] # NoDevice
         /\ port_config_phase[p] = "kConfiguringEndpoints"
         /\ port_config_phase' = [port_config_phase EXCEPT ![p] = "kConfigured"]
  /\ events' = Tail(events)
  /\ UNCHANGED <<addressing_port, devices, scan, registers, slots, slot_port, commands, transfers, faults>>

\* OnTransferEventReceived and OnControlCompleted: the device descriptor, the
\* configuration descriptor, the confirmation of SetConfiguration, each with the
\* next request; a device of no known class is left where it is.  Once the
\* device is initialized, ConfigureEndpoints, which needs to know its speed.
OnTransfer ==
  /\ Event("transfer")
  /\ Head(events).ok
  /\ LET slot == Head(events).slot
         p == slot_port[slot]
     IN  \/ /\ devices[slot] \in {1, 2}
            /\ devices' = [devices EXCEPT ![slot] = @ + 1]
            /\ transfers' = transfers \cup {slot}
            /\ UNCHANGED <<port_config_phase, commands>>
         \/ /\ devices[slot] = 2 /\ faults.failures
            /\ UNCHANGED <<devices, transfers, port_config_phase, commands>>
         \/ /\ devices[slot] = 3
            /\ devices' = [devices EXCEPT ![slot] = kInitialized]
            /\ \/ /\ port_config_phase[p] = "kInitializingDevice"
                  /\ port_config_phase' =
                       [port_config_phase EXCEPT ![p] = "kConfiguringEndpoints"]
                  /\ commands' = Append(commands, ConfigureEndpointCommand(slot))
               \/ /\ port_config_phase[p] # "kInitializingDevice" \/ ~Connected(p)
                  /\ UNCHANGED <<port_config_phase, commands>>
            /\ UNCHANGED transfers
  /\ events' = Tail(events)
  /\ UNCHANGED <<addressing_port, scan, registers, slots, slot_port, faults>>

\* The events the driver answers with an error: a port change in another phase,
\* a completion that does not fit the phase, a transfer that failed.
OnUnexpected ==
  /\ scan > MaxPorts
  /\ events # <<>>
  /\ LET e == Head(events)
     IN  \/ /\ e.type = "port"
            /\ port_config_phase[e.port] \notin {"kNotConnected", "kResettingPort"}
         \/ e.type = "transfer" /\ ~e.ok
         \/ /\ e.type = "command" /\ e.issuer = "enable"
            /\ port_config_phase[addressing_port] # "kEnablingSlot"
         \/ /\ e.type = "command" /\ e.issuer = "address"
            /\ \/ devices[e.slot] = NoDevice
               \/ slot_port[e.slot] # addressing_port
               \/ port_config_phase[addressing_port] # "kAddressingDevice"
         \/ /\ e.type = "command" /\ e.issuer = "configure"
            /\ port_config_phase[slot_port[e.slot]] # "kConfiguringEndpoints"
  /\ events' = Tail(events)
  /\ UNCHANGED <<driver, registers, slots, slot_port, commands, transfers, faults>>

DriverStep ==
  \/ ScanPort
  \/ OnPortNotConnected \/ OnPortReset
  \/ OnSlotEnabled \/ OnDeviceAddressed \/ OnEndpointsConfigured
  \/ OnTransfer
  \/ OnUnexpected

-----------------------------------------------------------------------------
(* The user, and the controller as the driver relies on it.                *)

PlugIn(p) ==
  /\ ~Connected(p)
  /\ device' = [device EXCEPT ![p] = "attached"]
  /\ csc' = csc \cup {p}
  /\ events' = WithChange(events, p, csc \cup prc)
  /\ UNCHANGED <<driver, prc, slots, slot_port, commands, transfers, faults>>

Unplug(p) ==
  /\ faults.unplugs > 0
  /\ faults' = [faults EXCEPT !.unplugs = @ - 1]
  /\ Connected(p)
  /\ port_config_phase[p] \in UnpluggedPhases
  /\ device' = [device EXCEPT ![p] = "absent"]
  /\ csc' = csc \cup {p}
  /\ events' = WithChange(events, p, csc \cup prc)
  /\ UNCHANGED <<driver, prc, slots, slot_port, commands, transfers>>

Command(issuer) == commands # <<>> /\ Head(commands).issuer = issuer
Complete(slot) ==
  /\ events' = Append(events, CommandCompletion(Head(commands).issuer, slot))
  /\ commands' = Tail(commands)

ExecuteEnableSlot ==
  /\ Command("enable")
  /\ \/ \E slot \in SlotID \ slots :
          /\ Complete(slot)
          /\ slots' = slots \cup {slot}
     \/ /\ faults.failures \/ slots = SlotID
        /\ Complete(0)
        /\ UNCHANGED slots
  /\ UNCHANGED <<driver, registers, slot_port, transfers, faults>>

\* A device context is written only if the device took its address.
ExecuteAddressDevice ==
  /\ Command("address")
  /\ LET slot == Head(commands).slot
         p == Head(commands).port
     IN  /\ Complete(slot)
         /\ \/ /\ slot \in slots /\ device[p] = "default"
               /\ device' = [device EXCEPT ![p] = "addressed"]
               /\ slot_port' = [slot_port EXCEPT ![slot] = p]
            \/ /\ faults.failures \/ slot \notin slots \/ device[p] # "default"
               /\ UNCHANGED <<device, slot_port>>
  /\ UNCHANGED <<driver, csc, prc, slots, transfers, faults>>

ExecuteConfigureEndpoint ==
  /\ Command("configure")
  /\ Complete(Head(commands).slot)
  /\ UNCHANGED <<driver, registers, slots, slot_port, transfers, faults>>

ExecuteTransfer(slot) ==
  /\ slot \in transfers
  /\ transfers' = transfers \ {slot}
  /\ \E ok \in BOOLEAN :
       /\ ok => device[slot_port[slot]] = "addressed"
       /\ ok \/ faults.failures \/ device[slot_port[slot]] # "addressed"
       /\ events' = Append(events, TransferEvent(slot, ok))
  /\ UNCHANGED <<driver, registers, slots, slot_port, commands, faults>>

ControllerStep ==
  \/ ExecuteEnableSlot \/ ExecuteAddressDevice \/ ExecuteConfigureEndpoint
  \/ \E slot \in SlotID : ExecuteTransfer(slot)

-----------------------------------------------------------------------------

Init ==
  /\ port_config_phase = [p \in 0 .. MaxPorts |-> "kNotConnected"]
  /\ addressing_port = 0
  /\ devices = [s \in 0 .. kDeviceSize |-> NoDevice]
  /\ scan = 1
  /\ device = [p \in Port |-> "absent"]
  /\ csc = {} /\ prc = {}
  /\ slots = {}
  /\ slot_port = [s \in 0 .. kDeviceSize |-> 0]
  /\ commands = <<>> /\ events = <<>>
  /\ transfers = {}
  /\ faults \in FaultModels

Next ==
  \/ DriverStep
  \/ ControllerStep
  \/ \E p \in Port : PlugIn(p) \/ Unplug(p)

Spec == Init /\ [][Next]_vars

\* The main task handles its events; the controller does its work.
FairSpec == Spec /\ WF_vars(DriverStep) /\ WF_vars(ControllerStep)

-----------------------------------------------------------------------------
(* Properties.                                                             *)

TypeOK ==
  /\ port_config_phase \in [0 .. MaxPorts -> Phases]
  /\ addressing_port \in 0 .. MaxPorts
  /\ devices \in [0 .. kDeviceSize -> NoDevice .. kInitialized]
  /\ scan \in 1 .. MaxPorts + 1
  /\ device \in [Port -> {"absent", "attached", "default", "addressed"}]
  /\ csc \subseteq Port /\ prc \subseteq Port
  /\ slots \subseteq SlotID /\ transfers \subseteq SlotID
  /\ slot_port \in [0 .. kDeviceSize -> 0 .. MaxPorts]
  /\ faults \in [failures : BOOLEAN, unplugs : Nat]

\* addressing_port is the one port between its reset and its address, whatever
\* port changes arrive late, twice or for a device that is gone, so that never
\* do two devices answer to address 0.
AddressingExclusive ==
  /\ {p \in Port : port_config_phase[p] \in
                    {"kResettingPort", "kEnablingSlot", "kAddressingDevice"}}
     = {addressing_port} \ {0}
  /\ Cardinality({p \in Port : device[p] = "default"}) <= 1

\* A port past its addressing has exactly one slot, whose device context names
\* it: transfers and completions, which carry only a slot, find the right port.
SlotsMatchPorts ==
  \A p \in Port :
    port_config_phase[p] \in {"kInitializingDevice", "kConfiguringEndpoints", "kConfigured"}
      => \E s \in SlotID : /\ {t \in SlotID : slot_port[t] = p} = {s}
                           /\ devices[s] # NoDevice

\* The commands under way: at most one for each port in a phase that waits for
\* one.  Ring::Push does not look for a full ring, this is what keeps it safe.
CommandRingBounded ==
  Len(commands) + Cardinality({i \in DOMAIN events : events[i].type = "command"})
  <= Cardinality({p \in Port : port_config_phase[p] \in
                    {"kEnablingSlot", "kAddressingDevice", "kConfiguringEndpoints"}})

\* If nothing goes wrong, in the end every device that is plugged in is
\* configured, or as many are as there are slots.
NoFaults == ~faults.failures /\ faults.unplugs = 0
Configured == {p \in Port : port_config_phase[p] = "kConfigured"}
AllConfigured ==
  NoFaults => <>[](\/ {p \in Port : Connected(p)} \subseteq Configured
                   \/ Cardinality(Configured) = kDeviceSize)

\* A port that waits for its turn, its device still plugged in, gets it: what
\* the comment on ConfigPhase says of kWaitingAddressed.
WaitingPortsAreServed ==
  \A p \in Port :
    port_config_phase[p] = "kWaitingAddressed"
      ~> port_config_phase[p] # "kWaitingAddressed" \/ ~Connected(p)
=============================================================================
