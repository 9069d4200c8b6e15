-------------------------------- MODULE Pci --------------------------------
(***************************************************************************)
(* The PCI bus scan (Kernel/pci.cpp) and the search for the xHCI           *)
(* controller in its result (usb::xhci::Initialize).  A machine is a       *)
(* function from the places <<bus, device, function>> that answer to what  *)
(* their configuration space says.                                         *)
(***************************************************************************)
EXTENDS Integers, Sequences, SequencesExt, FiniteSets, FiniteSetsExt

CONSTANTS
  TableSize,    \* devices.size(), 32
  DeviceMax,    \* devices of a bus, 32
  FunctionMax,  \* functions of a device, 8
  Machines      \* what the PCI bus may hold

ASSUME PciAssumption == TableSize \in Nat /\ DeviceMax \in Nat /\ FunctionMax \in Nat \ {0}

(* Configuration space, as far as the kernel reads it.                     *)
Class == {"host", "bridge", "xhc", "ehc", "other"}
Function == [class: Class, intel: BOOLEAN, secondary: Nat, multi: BOOLEAN,
             caps: Seq({"msi", "msix", "other"})]

Place == Nat \X Nat \X Nat

IsSingleFunctionDevice(fn) == ~fn.multi

(* A machine as PCI wants it: function 0 answers when another function     *)
(* does and says so, every bridge has a secondary bus of its own, and      *)
(* every bus is entered through a bridge or is the bus of a host bridge.   *)
RootBuses(m) ==
  IF IsSingleFunctionDevice(m[<<0, 0, 0>>]) THEN {0}
  ELSE {f \in 0..(FunctionMax - 1) : <<0, 0, f>> \in DOMAIN m}

Bridges(m) == {p \in DOMAIN m : m[p].class = "bridge"}

WellFormed(m) ==
  /\ DOMAIN m \subseteq Place /\ IsFiniteSet(DOMAIN m) /\ <<0, 0, 0>> \in DOMAIN m
  /\ \A p \in DOMAIN m :
       /\ m[p] \in Function
       /\ p[2] < DeviceMax /\ p[3] < FunctionMax
       /\ <<p[1], p[2], 0>> \in DOMAIN m
       /\ p[3] = 0 => m[p].multi = (\E q \in DOMAIN m : q[1] = p[1] /\ q[2] = p[2] /\ q[3] > 0)
       /\ p[1] \in RootBuses(m) \/ \E q \in Bridges(m) : m[q].secondary = p[1]
  /\ \A p \in Bridges(m) : m[p].secondary > p[1] /\ m[p].secondary \notin RootBuses(m)
  /\ \A p, q \in Bridges(m) : m[p].secondary = m[q].secondary => p = q

ASSUME MachinesAssumption == \A m \in Machines : WellFormed(m)

VARIABLES
  mach,    \* the machine, fixed when its bus is first read
  pci      \* pci::devices, the scan that fills it, the xHC found and what was done to it

\* calls: the calls of ScanBus under way, each with the function it looks at next;
\* root: the function of the host bridge that ScanAllBus looks at next.
NoDevices == [devices |-> <<>>, err |-> "kSuccess", calls |-> <<>>, root |-> 0,
              xhc |-> 0, msi |-> "none", routed |-> FALSE]

PciInit == mach = <<>> /\ pci = NoDevices

-----------------------------------------------------------------------------
(* The scan.  It calls itself through the bridges.                         *)

IsPresent(at) == at \in DOMAIN mach   \* ReadVendorId(...) != 0xffff

(* A host bridge with several functions has one root bus for each.         *)
ScanAllBus ==
  /\ mach' \in Machines
  /\ pci' = IF IsSingleFunctionDevice(mach'[<<0, 0, 0>>])
            THEN [NoDevices EXCEPT !.calls = << <<0, 0, 0>> >>, !.root = FunctionMax]
            ELSE NoDevices

ScanRootBus ==
  /\ pci.calls = <<>> /\ pci.root < FunctionMax
  /\ pci' = [pci EXCEPT !.root = @ + 1,
                        !.calls = IF IsPresent(<<0, 0, pci.root>>)
                                  THEN << <<pci.root, 0, 0>> >> ELSE <<>>]
  /\ UNCHANGED mach

ScanOver == pci.calls = <<>> /\ pci.root = FunctionMax

\* The place the innermost ScanBus is at.
At == pci.calls[Len(pci.calls)]

\* The calls once it goes on: to the next function, or, after the last one or
\* when function 0 is alone or absent, to the next device.
MovedOn(alone) ==
  [pci.calls EXCEPT ![Len(pci.calls)] =
     IF alone \/ At[3] + 1 = FunctionMax THEN <<At[1], At[2] + 1, 0>>
                                         ELSE <<At[1], At[2], At[3] + 1>>]

\* ScanBus returns to the scan of the bridge it was called for.
ReturnFromBus ==
  /\ pci.calls # <<>> /\ At[2] = DeviceMax
  /\ pci' = [pci EXCEPT !.calls = SubSeq(@, 1, Len(@) - 1)]
  /\ UNCHANGED mach

PassOver ==
  /\ pci.calls # <<>> /\ At[2] < DeviceMax /\ ~IsPresent(At)
  /\ pci' = [pci EXCEPT !.calls = MovedOn(At[3] = 0)]
  /\ UNCHANGED mach

\* Wrong: one entry more than the table has.
TableFull_OneTooMany == Len(pci.devices) > TableSize

\* AddDevice's test.
TableFull == Len(pci.devices) = TableSize

\* An error goes up through all the calls.
ScanFunction ==
  /\ pci.calls # <<>> /\ At[2] < DeviceMax /\ IsPresent(At)
  /\ LET fn == mach[At]
         moved == MovedOn(At[3] = 0 /\ IsSingleFunctionDevice(fn))
     IN  pci' = IF TableFull
                THEN [pci EXCEPT !.err = "kFull", !.calls = <<>>, !.root = FunctionMax]
                ELSE [pci EXCEPT !.devices = Append(@, [at |-> At, class |-> fn.class]),
                                 !.calls = IF fn.class = "bridge"
                                           THEN Append(moved, <<fn.secondary, 0, 0>>)
                                           ELSE moved]
  /\ UNCHANGED mach

ScanNext == ScanRootBus \/ ReturnFromBus \/ PassOver \/ ScanFunction

-----------------------------------------------------------------------------
(* What is done with the devices found.                                    *)

(* The first xHC of Intel's, or the last one of the others.                *)
FindXhc(devices) ==
  LET xhcs  == {i \in DOMAIN devices : devices[i].class = "xhc"}
      intel == {i \in xhcs : mach[devices[i].at].intel}
  IN  IF xhcs = {} THEN 0
      ELSE IF intel # {} THEN Min(intel) ELSE Max(xhcs)

(* SwitchEhci2Xhci: whether the ports are taken from an Intel EHC.         *)
SwitchEhci2Xhci(devices) ==
  \E i \in DOMAIN devices : devices[i].class = "ehc" /\ mach[devices[i].at].intel

(* MSI is preferred, MSI-X is not implemented.                             *)
ConfigureMSI(caps) ==
  IF Contains(caps, "msi") THEN "kSuccess"
  ELSE IF Contains(caps, "msix") THEN "kNotImplemented" ELSE "kNoPCIMSI"
=============================================================================
