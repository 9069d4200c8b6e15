---------------------------- MODULE MCXhciPorts ----------------------------
(* Three ports, two or three slots.                                         *)
EXTENDS XhciPorts

Fault(failures, unplugs) == [failures |-> failures, unplugs |-> unplugs]

\* Nothing goes wrong, or commands and transfers fail and a device is unplugged,
\* or two are.
AnyFaults == {Fault(FALSE, 0), Fault(TRUE, 1), Fault(FALSE, 2)}
OneUnplug == {Fault(FALSE, 1)}

UnpluggedWaiting == {"kWaitingAddressed"}
AnyPhase == Phases
=============================================================================
