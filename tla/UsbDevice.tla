----------------------------- MODULE UsbDevice -----------------------------
(***************************************************************************)
(* One USB device from the moment it has an address: usb/device.cpp and    *)
(* usb/xhci/device.cpp read its descriptors over the default control pipe  *)
(* and select its configuration, xhci.cpp configures its endpoints, and    *)
(* the HID class driver switches it to the boot protocol and asks for one  *)
(* report after the other.  Each answer arrives as an event (EventRing).   *)
(*                                                                         *)
(* A transfer's event names the TRB that asked for it; setup_stage_map_    *)
(* leads from there to the Setup Stage TRB, still in the ring, that says   *)
(* what was asked.  How ring and controller hand over TRBs is XhciRing's   *)
(* subject: here a TRB that was pushed is seen.                            *)
(***************************************************************************)
EXTENDS Integers, Sequences, FiniteSetsExt, ArrayMap, UsbMemory

CONSTANTS
  Configurations,   \* the configuration descriptors a device may have, each a
                    \* sequence of interface, HID and endpoint descriptors
  RingSize,         \* TRBs in a transfer ring
  MapSize,          \* places in setup_stage_map_
  Waiters,          \* places in event_waiters_
  Keys, Moves,      \* what keyboards and mice report
  Sizes             \* of a class driver, a Ring and its buffer, and their
                    \* alignment and the boundaries of Ring and buffer

\* The reader of the descriptors does not look for the end of the buffer where
\* it counts endpoints: the buffer must hold all that an interface announces.
ASSUME ConfigurationsAssumption ==
  \A c \in Configurations : \A i \in DOMAIN c :
    c[i].type = "interface" =>
      Cardinality({j \in i + 1 .. Len(c) : c[j].type = "endpoint"}) >= c[i].num_endpoints
ASSUME RingSizeAssumption == RingSize \in Nat /\ RingSize >= 5   \* a request and a gap
ASSUME TablesAssumption == MapSize \in Nat \ {0} /\ Waiters \in Nat

VARIABLES
  conf,       \* the device's configuration descriptor
  dev,        \* the Device object and its class driver
  alloc_ptr,  \* of the memory pool
  blocks,     \* what was allocated from it
  port,       \* the port's phase: "kInitializingDevice", "kConfiguringEndpoints",
              \* "kConfigured"
  dequeue,    \* the controller's place in the control pipe's ring
  asked,      \* TRBs that wait for a report
  events,     \* the event ring
  attached,   \* the device is plugged in
  failed,     \* the endpoints that are halted
  at, left,   \* the loop the main task is in, and what it has still to do
  sent, owed  \* the last report, and what it told that the one before did not

loop == <<at, left>>
pool == <<alloc_ptr, blocks>>
user == <<sent, owed>>
vars == <<conf, dev, pool, port, dequeue, asked, events, attached, failed, loop, user>>

-----------------------------------------------------------------------------
(* What a configuration descriptor consists of.                            *)

InterfaceDescriptor(protocol, n) ==
  [type |-> "interface", protocol |-> protocol, num_endpoints |-> n]
EndpointDescriptor(number, dir_in, interrupt) ==
  [type |-> "endpoint", number |-> number, dir_in |-> dir_in, interrupt |-> interrupt]
HIDDescriptor == [type |-> "hid"]

\* NewClassDriver: HID boot keyboards and mice.
HasDriver(descriptor) ==
  descriptor.type = "interface" /\ descriptor.protocol \in {"keyboard", "mouse"}
Supported(c) == {i \in DOMAIN c : HasDriver(c[i])}

\* ConfigurationDescriptorReader: the endpoints of the first interface that has
\* a driver, MakeEPConfig; and class_drivers_, the endpoint numbers they have.
IsEndpoint(descriptor) == descriptor.type = "endpoint"
EndpointConfigs(c) ==
  LET i == Min(Supported(c))
  IN  SubSeq(SelectSeq(SubSeq(c, i + 1, Len(c)), IsEndpoint), 1, c[i].num_endpoints)
EndpointNumbers(configs) == {configs[i].number : i \in DOMAIN configs}

\* One SetProtocol for each endpoint number fits the control pipe's ring and
\* setup_stage_map_ (15 numbers, 31 TRBs, 16 places).
ASSUME EndpointsAssumption ==
  \A c \in Configurations : Supported(c) # {} =>
    LET configs == EndpointConfigs(c)
        n == Cardinality(EndpointNumbers(configs))
    IN  /\ configs \in Seq([type : {"endpoint"}, number : Nat, dir_in : BOOLEAN, interrupt : BOOLEAN])
        /\ n <= MapSize /\ 2 * n < RingSize - 1

\* The pool has room for the driver and the rings, each with what alignment
\* and boundary may cost.
RingSpace == 2 * (Sizes.alignment + Sizes.ring + Sizes.buffer - 2)
ASSUME SizesAssumption ==
  /\ Sizes \in [driver : Nat, ring : Nat \ {0}, buffer : Nat \ {0}, alignment : Nat \ {0},
                ringBoundary : Nat \ {0}, bufferBoundary : Nat \ {0}]
  /\ Sizes.ring <= Sizes.ringBoundary /\ Sizes.ringBoundary % Sizes.alignment = 0
  /\ Sizes.buffer <= Sizes.bufferBoundary /\ Sizes.bufferBoundary % Sizes.alignment = 0
  /\ \A c \in Configurations : Supported(c) # {} =>
       Sizes.alignment + Sizes.driver + Len(EndpointConfigs(c)) * RingSpace <= kMemoryPoolSize

-----------------------------------------------------------------------------
(* The default control pipe.                                               *)

GetDescriptor(type) == [request |-> "kGetDescriptor", value |-> type]
SetConfiguration == [request |-> "kSetConfiguration", value |-> "configuration"]
SetProtocol == [request |-> "kSetProtocol", value |-> "boot"]

SetupStageTRB(setup) == [type |-> "setup", setup |-> setup]
DataStageTRB == [type |-> "data"]
StatusStageTRB == [type |-> "status"]
NoTRB == [type |-> "none"]

TransferEvent(pointer, ok) == [type |-> "transfer", pointer |-> pointer, ok |-> ok]
ReportEvent(ok) == [type |-> "report", ok |-> ok]
ConfigureCompletion == [type |-> "command"]

HasDataStage(setup) == setup.request = "kGetDescriptor"

\* The place after i: the last TRB of the ring is a link.
After(i) == IF i + 1 = RingSize - 1 THEN 0 ELSE i + 1

Push(d, trb) ==
  [d EXCEPT !.trbs = [d.trbs EXCEPT ![d.write_index] = trb], !.write_index = After(d.write_index)]

\* Device::ControlIn and ControlOut, of usb and of usb::xhci: the event comes
\* for the TRB after the Setup Stage, data or status.
ControlTransfer(d, setup, issuer) ==
  LET begun == Push(d, SetupStageTRB(setup))
      data == IF HasDataStage(setup) THEN Push(begun, DataStageTRB) ELSE begun
  IN  [Push(data, StatusStageTRB) EXCEPT
         !.setup_stage_map = Put(@, begun.write_index, d.write_index),
         !.event_waiters = IF issuer THEN Put(@, setup, 1) ELSE @]

\* The controller executes the next transfer; on a failure the pipe halts, and
\* nothing in the driver restarts it.
ExecuteControl(ok) ==
  /\ 0 \notin failed
  /\ dequeue # dev.write_index
  /\ ok => attached
  /\ LET setup == dev.trbs[dequeue].setup
     IN  /\ dequeue' = IF HasDataStage(setup) THEN After(After(After(dequeue)))
                       ELSE After(After(dequeue))
         /\ dev' = IF ok /\ HasDataStage(setup) THEN [dev EXCEPT !.buf = setup.value] ELSE dev
  /\ events' = Append(events, TransferEvent(After(dequeue), ok))
  /\ failed' = IF ok THEN failed ELSE failed \cup {0}
  /\ UNCHANGED <<conf, pool, port, asked, attached, loop, user>>

-----------------------------------------------------------------------------
(* Initialization.                                                         *)

\* AddressDevice has allocated the device and the control pipe's ring.
NewDevice ==
  [initialize_phase |-> 0, is_initialized |-> FALSE, buf |-> "none",
   ep_configs |-> <<>>, class_drivers |-> {}, class_driver |-> "none",
   event_waiters |-> EmptyTable(Waiters), setup_stage_map |-> EmptyTable(MapSize),
   trbs |-> [i \in 0 .. RingSize - 2 |-> NoTRB], write_index |-> 0,
   hid_phase |-> 0, ep_interrupt_in |-> 0, rings |-> {},
   hid_buf |-> {}, previous_buf |-> {}]

Init ==
  /\ conf \in Configurations
  /\ dev = NewDevice
  /\ alloc_ptr \in PoolStart .. PoolStart + Sizes.alignment
  /\ blocks = {}
  /\ port = "kAddressingDevice"
  /\ dequeue = 0
  /\ asked = 0
  /\ events = <<>>
  /\ attached = TRUE /\ failed = {}
  /\ at = "events" /\ left = {}
  /\ sent = {} /\ owed = {}

Allocation(a, size, alignment, boundary) ==
  [start |-> a.start, size |-> size, alignment |-> alignment, boundary |-> boundary]

\* InitializeDevice, StartInitialize
StartInitialize ==
  /\ port = "kAddressingDevice"
  /\ port' = "kInitializingDevice"
  /\ dev' = ControlTransfer([dev EXCEPT !.initialize_phase = 1], GetDescriptor("device"), FALSE)
  /\ UNCHANGED <<conf, pool, dequeue, asked, events, attached, failed, loop, user>>

InitializePhase1(d) ==
  ControlTransfer([d EXCEPT !.initialize_phase = 2], GetDescriptor("configuration"), FALSE)

InitializePhase2(d) ==
  ControlTransfer(
    [d EXCEPT !.initialize_phase = 3,
              !.class_driver = conf[Min(Supported(conf))].protocol,
              !.ep_configs = EndpointConfigs(conf),
              !.class_drivers = EndpointNumbers(EndpointConfigs(conf))],
    SetConfiguration, FALSE)

\* HIDBaseDriver::SetEndpoint for each endpoint: the last interrupt-in endpoint.
InterruptIn(configs) ==
  LET ins == {i \in DOMAIN configs : configs[i].interrupt /\ configs[i].dir_in}
  IN  IF ins = {} THEN 0 ELSE 2 * configs[Max(ins)].number + 1

InitializePhase3(d) ==
  [d EXCEPT !.ep_interrupt_in = InterruptIn(d.ep_configs),
            !.initialize_phase = 4, !.is_initialized = TRUE]

\* AllocTransferRing: the Ring and then its buffer.
AllocTransferRing ==
  LET a == AllocMem(alloc_ptr, Sizes.ring, Sizes.alignment, Sizes.ringBoundary)
      b == AllocMem(a.ptr, Sizes.buffer, Sizes.alignment, Sizes.bufferBoundary)
  IN  /\ alloc_ptr' = b.ptr
      /\ blocks' = blocks \cup {Allocation(a, Sizes.ring, Sizes.alignment, Sizes.ringBoundary),
                                Allocation(b, Sizes.buffer, Sizes.alignment, Sizes.bufferBoundary)}

-----------------------------------------------------------------------------
(* The events, as ProcessEvent hands them on one by one.                   *)

Event(type) == at = "events" /\ events # <<>> /\ Head(events).type = type

\* OnTransferEventReceived for a control transfer: what was asked.  The Setup
\* Stage TRB is read in the ring.
NoRequest == [request |-> "none", value |-> "none"]
Completed ==
  LET stage == Get(dev.setup_stage_map, Head(events).pointer)
  IN  IF stage # NoValue /\ dev.trbs[stage].type = "setup" THEN dev.trbs[stage].setup ELSE NoRequest
Taken == [dev EXCEPT !.setup_stage_map = Delete(@, Head(events).pointer)]

ControlCompleted(request) ==
  /\ Event("transfer")
  /\ Head(events).ok
  /\ Completed.request = request
  /\ events' = Tail(events)

OnDeviceDescriptor ==
  /\ ControlCompleted("kGetDescriptor")
  /\ dev.initialize_phase = 1 /\ dev.buf = "device"
  /\ dev' = InitializePhase1(Taken)
  /\ UNCHANGED <<conf, pool, port, dequeue, asked, attached, failed, loop, user>>

\* A device without an interface the kernel has a driver for stays in phase 2.
OnConfigurationDescriptor ==
  /\ ControlCompleted("kGetDescriptor")
  /\ dev.initialize_phase = 2 /\ dev.buf = "configuration"
  /\ IF Supported(conf) = {} THEN dev' = Taken /\ UNCHANGED pool
     ELSE LET a == AllocMem(alloc_ptr, Sizes.driver, 0, 0)
          IN  /\ dev' = InitializePhase2(Taken)
              /\ alloc_ptr' = a.ptr
              /\ blocks' = blocks \cup {Allocation(a, Sizes.driver, 0, 0)}
  /\ UNCHANGED <<conf, port, dequeue, asked, attached, failed, loop, user>>

\* Phase 3, and in the same event ConfigureEndpoints, which asks the port for
\* the device's speed.
OnConfigurationSet ==
  /\ ControlCompleted("kSetConfiguration")
  /\ dev.initialize_phase = 3
  /\ dev' = InitializePhase3(Taken)
  /\ IF attached THEN at' = "rings" /\ left' = DOMAIN dev.ep_configs
     ELSE UNCHANGED loop
  /\ UNCHANGED <<conf, pool, port, dequeue, asked, attached, failed, user>>

\* The loop of ConfigureEndpoints: an endpoint context and a ring for each.
Address(c) == 2 * c.number + (IF c.dir_in THEN 1 ELSE 0)
ConfigureEndpoint ==
  /\ at = "rings" /\ left # {}
  /\ AllocTransferRing
  /\ dev' = [dev EXCEPT !.rings = @ \cup {Address(dev.ep_configs[Min(left)])}]
  /\ left' = left \ {Min(left)}
  /\ UNCHANGED <<conf, port, dequeue, asked, events, attached, failed, at, user>>

\* After the loop: the Configure Endpoint Command.
EndpointsReady ==
  /\ at = "rings" /\ left = {}
  /\ at' = "events"
  /\ port' = "kConfiguringEndpoints"
  /\ UNCHANGED <<conf, dev, pool, dequeue, asked, events, attached, failed, left, user>>

\* The controller has executed the Configure Endpoint Command.
EndpointsConfigured ==
  /\ port = "kConfiguringEndpoints"
  /\ ConfigureCompletion \notin {events[i] : i \in DOMAIN events}
  /\ events' = Append(events, ConfigureCompletion)
  /\ UNCHANGED <<conf, dev, pool, port, dequeue, asked, attached, failed, loop, user>>

\* Wrong: the request is sent without its issuer.
HIDOnEndpointsConfigured_NoIssuer(d) ==
  ControlTransfer([d EXCEPT !.hid_phase = 1], SetProtocol, FALSE)

HIDOnEndpointsConfigured(d) ==
  ControlTransfer([d EXCEPT !.hid_phase = 1], SetProtocol, TRUE)

\* CompleteConfiguration, Device::OnEndpointsConfigured: a driver is called once
\* for every endpoint number it has, while the controller works off the ring.
OnEndpointsConfigured ==
  /\ Event("command")
  /\ events' = Tail(events)
  /\ port' = "kConfigured"
  /\ at' = "drivers" /\ left' = dev.class_drivers
  /\ UNCHANGED <<conf, dev, pool, dequeue, asked, attached, failed, user>>

CallDriver ==
  /\ at = "drivers" /\ left # {}
  /\ dev' = HIDOnEndpointsConfigured(dev)
  /\ left' = left \ {Min(left)}
  /\ UNCHANGED <<conf, pool, port, dequeue, asked, events, attached, failed, at, user>>

DriversCalled ==
  /\ at = "drivers" /\ left = {}
  /\ at' = "events"
  /\ UNCHANGED <<conf, dev, pool, port, dequeue, asked, events, attached, failed, left, user>>

\* Device::InterruptIn: no ring, no report.
Ask == asked' = IF dev.ep_interrupt_in \in dev.rings THEN asked + 1 ELSE asked

\* Wrong: every answer to SetProtocol asks for a report.
OnProtocolSet_EveryTime ==
  /\ ControlCompleted("kSetProtocol")
  /\ dev.is_initialized
  /\ Get(dev.event_waiters, SetProtocol) # NoValue
  /\ dev' = [Taken EXCEPT !.hid_phase = 2]
  /\ Ask
  /\ UNCHANGED <<conf, pool, port, dequeue, attached, failed, loop, user>>

\* HIDBaseDriver::OnControlCompleted.  A driver that was called for two
\* endpoints gets two answers and ignores the second.
OnProtocolSet ==
  /\ ControlCompleted("kSetProtocol")
  /\ dev.is_initialized
  /\ Get(dev.event_waiters, SetProtocol) # NoValue
  /\ IF dev.hid_phase = 1
     THEN dev' = [Taken EXCEPT !.hid_phase = 2] /\ Ask
     ELSE dev' = Taken /\ UNCHANGED asked
  /\ UNCHANGED <<conf, pool, port, dequeue, attached, failed, loop, user>>

\* OnDataReceived: keys the report before did not have, or the move.
Notified(d) ==
  IF d.class_driver = "keyboard" THEN d.hid_buf \ d.previous_buf ELSE d.hid_buf

\* Wrong: the report is not kept to compare the next one with.
OnReport_NotKept ==
  /\ Event("report")
  /\ Head(events).ok
  /\ events' = Tail(events)
  /\ Ask
  /\ owed' = {}
  /\ UNCHANGED <<conf, dev, pool, port, dequeue, attached, failed, loop, sent>>

\* HIDBaseDriver::OnInterruptCompleted: notify, keep the report, ask again.
OnReport ==
  /\ Event("report")
  /\ Head(events).ok
  /\ events' = Tail(events)
  /\ dev' = [dev EXCEPT !.previous_buf = dev.hid_buf]
  /\ Ask
  /\ owed' = {}
  /\ UNCHANGED <<conf, pool, port, dequeue, attached, failed, loop, sent>>

\* An answer that fits the phase the device is in, OnControlCompleted.
Expected ==
  \/ /\ Completed.request = "kGetDescriptor"
     /\ dev.initialize_phase \in {1, 2}
     /\ dev.buf = <<"device", "configuration">>[dev.initialize_phase]
  \/ Completed.request = "kSetConfiguration" /\ dev.initialize_phase = 3
  \/ /\ Completed.request = "kSetProtocol" /\ dev.is_initialized
     /\ Get(dev.event_waiters, SetProtocol) # NoValue

\* The events the driver answers with an error: a transfer that failed, whose
\* map entry stays, or an answer nobody waits for.
OnError ==
  /\ Event("transfer") \/ Event("report")
  /\ Event("transfer") /\ Head(events).ok => ~Expected
  /\ Event("report") => ~Head(events).ok
  /\ dev' = IF Head(events).ok THEN Taken ELSE dev
  /\ events' = Tail(events)
  /\ UNCHANGED <<conf, pool, port, dequeue, asked, attached, failed, loop, user>>

-----------------------------------------------------------------------------
(* The device and its user.                                                *)

Reports ==
  IF dev.class_driver = "keyboard" THEN SUBSET Keys \ {sent} ELSE {{m} : m \in Moves}

SendReport ==
  /\ attached /\ asked > 0 /\ dev.ep_interrupt_in \notin failed
  /\ \E report \in Reports :
       /\ dev' = [dev EXCEPT !.hid_buf = report]
       /\ sent' = report
       /\ owed' = owed \cup (IF dev.class_driver = "keyboard" THEN report \ sent ELSE report)
  /\ asked' = asked - 1
  /\ events' = Append(events, ReportEvent(TRUE))
  /\ UNCHANGED <<conf, pool, port, dequeue, attached, failed, loop>>

FailReport ==
  /\ asked > 0 /\ dev.ep_interrupt_in \notin failed
  /\ failed' = failed \cup {dev.ep_interrupt_in}
  /\ asked' = asked - 1
  /\ events' = Append(events, ReportEvent(FALSE))
  /\ UNCHANGED <<conf, dev, pool, port, dequeue, attached, loop, user>>

Unplug ==
  /\ attached
  /\ attached' = FALSE
  /\ UNCHANGED <<conf, dev, pool, port, dequeue, asked, events, failed, loop, user>>

-----------------------------------------------------------------------------

DriverStep ==
  \/ StartInitialize
  \/ OnDeviceDescriptor \/ OnConfigurationDescriptor \/ OnConfigurationSet
  \/ ConfigureEndpoint \/ EndpointsReady
  \/ OnEndpointsConfigured \/ CallDriver \/ DriversCalled \/ OnProtocolSet
  \/ OnReport \/ OnError

ControllerStep == (\E ok \in BOOLEAN : ExecuteControl(ok)) \/ EndpointsConfigured

Next == DriverStep \/ ControllerStep \/ SendReport \/ FailReport \/ Unplug

Spec == Init /\ [][Next]_vars

\* The main task handles its events; the controller does its work.  Nobody has
\* to press a key.
FairSpec == Spec /\ WF_vars(DriverStep) /\ WF_vars(ControllerStep)

-----------------------------------------------------------------------------
(* Properties.                                                             *)

\* An answer is matched with the request it is for, although places in the ring
\* are used again, requests overlap and failed ones leave their entry behind.
SetupStageFound ==
  \A i \in DOMAIN events :
    events[i].type = "transfer" /\ events[i].ok =>
      LET stage == Get(dev.setup_stage_map, events[i].pointer)
      IN  stage # NoValue /\ After(stage) = events[i].pointer /\ dev.trbs[stage].type = "setup"

\* Never are two reports under way, which would share one buffer, however often
\* the driver was told that its endpoints are configured.
OneReportAsked ==
  asked + Cardinality({i \in DOMAIN events : events[i].type = "report"}) <= 1

\* Each key press and each move the device reports is notified exactly once.
NotifiedOnce == [][OnReport => Notified(dev) = owed]_vars

\* The blocks the driver works with lie in the pool, apart from each other, and
\* are placed as the hardware needs them.
PoolBlocksOK ==
  \A b \in blocks :
    /\ b.start >= PoolStart /\ b.start + b.size <= PoolStart + kMemoryPoolSize
    /\ b.alignment > 0 => b.start % b.alignment = 0
    /\ b.boundary > 0 => b.start \div b.boundary = (b.start + b.size - 1) \div b.boundary
    /\ \A c \in blocks \ {b} : c.start >= b.start + b.size \/ b.start >= c.start + c.size

\* A device the kernel has a driver for is asked for reports again and again,
\* until a transfer fails or it is unplugged.
KeepsAsking ==
  Supported(conf) # {} /\ InterruptIn(EndpointConfigs(conf)) # 0
    => []<>(asked > 0 \/ failed # {} \/ ~attached)
=============================================================================
