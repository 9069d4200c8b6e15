-------------------------------- MODULE Boot --------------------------------
(***************************************************************************)
(* The boot of the machine: the boot loader, then the part of              *)
(* kernel_main_new_stack that talks to hardware, in the order it runs:     *)
(* InitializePCI, acpi::Initialize, InitializeAPICTimer with its wait, and *)
(* usb::xhci::Initialize up to a running controller.  An error of the      *)
(* kernel's ends in exit(1), one of the loader's in Halt.                  *)
(***************************************************************************)
EXTENDS BootLoader, Pci, AcpiTimer, XhciController

VARIABLE stage   \* how far kernel_main_new_stack is

vars == <<ldr, pm, hc, stage, mach, pci>>

Init ==
  /\ LoaderInit /\ AcpiInit /\ PciInit
  /\ hc = Unread
  /\ stage = "loader"

Load ==
  /\ stage = "loader" /\ LoaderNext
  /\ UNCHANGED <<pm, hc, stage, mach, pci>>

(* The loader's variables are dead once the kernel has the memory map.     *)
EnterKernel ==
  /\ stage = "loader" /\ ldr.at = "entered"
  /\ stage' = "kernel"
  /\ ldr' = [LoaderState("left", 0) EXCEPT !.acpi = ldr.acpi]
  /\ UNCHANGED <<pm, hc, mach, pci>>

InitializePCI ==
  /\ stage = "kernel" /\ ScanAllBus
  /\ stage' = "pci"
  /\ UNCHANGED <<ldr, pm, hc>>

ScanPCI ==
  /\ stage = "pci" /\ ScanNext
  /\ UNCHANGED <<ldr, pm, hc, stage>>

ReturnFromPCI ==
  /\ stage = "pci" /\ ScanOver
  /\ stage' = IF pci.err = "kSuccess" THEN "acpi" ELSE "exit"
  /\ UNCHANGED <<ldr, pm, hc, mach, pci>>

(* A NULL table is read at address 0 and is not a valid RSDP.              *)
InitializeACPI ==
  /\ stage = "acpi" /\ pm.at = "start"
  /\ \E rsdp, xsdt, fadt \in BOOLEAN :
       /\ rsdp => ldr.acpi
       /\ AcpiInitialize(rsdp, xsdt, fadt)
  /\ stage' = IF pm'.at = "exit" THEN "exit" ELSE stage
  /\ UNCHANGED <<ldr, hc, mach, pci>>

InitializeAPICTimer ==
  /\ stage = "acpi" /\ WaitNext
  /\ UNCHANGED <<ldr, hc, stage, mach, pci>>

(* usb::xhci::Initialize as far as the controller's own Initialize.  The   *)
(* answer of ConfigureMSIFixedDestination is not looked at.                *)
InitializeXhci ==
  /\ stage = "acpi" /\ pm.at = "done"
  /\ LET xhc == FindXhc(pci.devices) IN
       IF xhc = 0
       THEN /\ stage' = "exit"
            /\ UNCHANGED <<hc, pci>>
       ELSE LET fn == mach[pci.devices[xhc].at] IN
            /\ stage' = "xhci"
            /\ pci' = [pci EXCEPT !.xhc = xhc, !.msi = ConfigureMSI(fn.caps),
                                  !.routed = fn.intel /\ SwitchEhci2Xhci(pci.devices)]
            /\ hc' \in Controllers
  /\ pm' = NotWaiting("over")
  /\ UNCHANGED <<ldr, mach>>

StartXhci ==
  /\ stage = "xhci" /\ KernelNext
  /\ stage' = CASE hc'.at = "exit" -> "exit" [] hc'.at = "running" -> "ports" [] OTHER -> stage
  /\ UNCHANGED <<ldr, pm, mach, pci>>

Hardware ==
  /\ stage = "xhci" /\ HardwareNext
  /\ UNCHANGED <<ldr, pm, stage, mach, pci>>

(* Halt, exit(1), and the ports being configured, where XhciPorts goes on. *)
Rest ==
  /\ stage \in {"exit", "ports"} \/ ldr.at = "halt"
  /\ UNCHANGED vars

Next ==
  \/ Load \/ EnterKernel \/ InitializePCI \/ ScanPCI \/ ReturnFromPCI
  \/ InitializeACPI \/ InitializeAPICTimer \/ InitializeXhci \/ StartXhci \/ Hardware \/ Rest

Spec == Init /\ [][Next]_vars

-----------------------------------------------------------------------------
TypeOK ==
  /\ LoaderTypeOK /\ AcpiTypeOK /\ ControllerTypeOK
  /\ stage \in {"loader", "kernel", "pci", "acpi", "xhci", "ports", "exit"}

(* The bus scan lists every function of the machine exactly once, behind   *)
(* bridges and on further root buses too, or stops with kFull because      *)
(* there are more than the table holds; and the controller started is an   *)
(* xHC, Intel's when there is one, or there is none.                       *)
ScanComplete ==
  stage \notin {"loader", "kernel", "pci"} =>
    LET found == {pci.devices[i].at : i \in DOMAIN pci.devices} IN
    /\ Cardinality(found) = Len(pci.devices) /\ Len(pci.devices) <= TableSize
    /\ found = DOMAIN mach \/ (pci.err = "kFull" /\ Cardinality(DOMAIN mach) > TableSize)
    /\ stage \in {"xhci", "ports"} =>
         LET fn == mach[pci.devices[pci.xhc].at] IN
         /\ fn.class = "xhc"
         /\ fn.intel \/ ~ \E p \in DOMAIN mach : mach[p].class = "xhc" /\ mach[p].intel
    /\ stage = "exit" /\ pci.err = "kSuccess" /\ hc = Unread /\ pm.at = "over" =>
         ~ \E p \in DOMAIN mach : mach[p].class = "xhc"
=============================================================================
