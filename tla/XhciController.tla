--------------------------- MODULE XhciController ---------------------------
(***************************************************************************)
(* How the kernel takes over the xHCI controller and starts it             *)
(* (Controller::Initialize and Run in usb/xhci/xhci.cpp), beside the       *)
(* controller and the firmware, which answer in their own time.            *)
(***************************************************************************)
EXTENDS Integers, Sequences, Functions

VARIABLE hc

(* What the kernel writes between reset and start, in this order:          *)
(* the slot count, the scratchpad array, DCBAAP, CRCR, the event ring's    *)
(* segment table, IMAN and the interrupter enable of USBCMD.               *)
SetupOrder == <<"CONFIG", "SCRATCHPAD", "DCBAAP", "CRCR", "ERST", "IMAN", "INTE">>

(* External: the firmware may own the controller and have it running.      *)
Controllers ==
  {h \in [at: {"devmgr"}, legacy: BOOLEAN, bios: BOOLEAN, os: BOOLEAN, run: BOOLEAN,
          halted: BOOLEAN, reset: {FALSE}, not_ready: {FALSE}, scratchpad: BOOLEAN,
          step: {1}, written: {{}}] :
     /\ h.bios => h.legacy /\ ~h.os
     /\ h.os => h.legacy
     /\ h.halted = ~h.run}

(* Before the kernel first reads the controller.                           *)
Unread == [(CHOOSE h \in Controllers : h.halted /\ ~h.legacy) EXCEPT !.at = "unread"]

Goto(h, at) == [h EXCEPT !.at = at]

-----------------------------------------------------------------------------
(* External: while it owns the controller the firmware may start it, and   *)
(* it gives it up on request, once it has halted or started.               *)
FirmwareStarts ==
  /\ hc.bios /\ ~hc.run /\ hc.halted
  /\ hc' = [hc EXCEPT !.run = TRUE]

FirmwareReleases ==
  /\ hc.bios /\ hc.os /\ hc.halted = ~hc.run
  /\ hc' = [hc EXCEPT !.bios = FALSE]

(* External: halting, starting, resetting and getting ready take time.     *)
FollowRunStop ==
  /\ hc.halted = hc.run /\ ~hc.reset
  /\ hc' = [hc EXCEPT !.halted = ~hc.run]

FinishReset ==
  /\ hc.reset
  /\ hc' = [hc EXCEPT !.reset = FALSE, !.not_ready = TRUE, !.run = FALSE, !.halted = TRUE,
                      !.written = @ \ {"CONFIG", "DCBAAP", "CRCR", "ERST", "IMAN", "INTE"}]

BecomeReady ==
  /\ hc.not_ready
  /\ hc' = [hc EXCEPT !.not_ready = FALSE]

-----------------------------------------------------------------------------
(* devmgr_.Initialize may find no memory.                                  *)
InitializeDeviceManager ==
  /\ hc.at = "devmgr"
  /\ \E at \in {"own", "exit"} : hc' = Goto(hc, at)

RequestHCOwnership ==
  /\ hc.at = "own"
  /\ hc' = IF ~hc.legacy \/ hc.os THEN Goto(hc, "stop")
           ELSE [hc EXCEPT !.os = TRUE, !.at = "owning"]

WaitOwned ==
  /\ hc.at = "owning"
  /\ ~hc.bios /\ hc.os
  /\ hc' = Goto(hc, "stop")

(* USBCMD is written with interrupts off, and stop if it was not halted.   *)
StopController ==
  /\ hc.at = "stop"
  /\ hc' = [hc EXCEPT !.written = @ \ {"INTE"}, !.run = @ /\ hc.halted, !.at = "halting"]

WaitHalted ==
  /\ hc.at = "halting"
  /\ hc.halted
  /\ hc' = Goto(hc, "reset")

ResetController ==
  /\ hc.at = "reset"
  /\ hc' = [hc EXCEPT !.reset = TRUE, !.at = "resetting"]

\* Wrong: goes on when the reset bit is clear, ready or not.
WaitReady_ResetOnly ==
  /\ hc.at = "resetting"
  /\ ~hc.reset
  /\ hc' = Goto(hc, "setup")

(* The reset bit must be clear, and then controller_not_ready.             *)
WaitReady ==
  /\ hc.at = "resetting"
  /\ ~hc.reset
  /\ ~hc.not_ready
  /\ hc' = Goto(hc, "setup")

(* One write of the set-up.  A controller that is not ready loses it; the  *)
(* rings' Initialize may find no memory.                                   *)
Setup ==
  /\ hc.at = "setup" /\ hc.step <= Len(SetupOrder)
  /\ LET name == SetupOrder[hc.step]
         lost == hc.not_ready \/ (name = "SCRATCHPAD" /\ ~hc.scratchpad)
     IN  \/ name \in {"CRCR", "ERST"} /\ hc' = Goto(hc, "exit")
         \/ hc' = [hc EXCEPT !.written = IF lost THEN @ ELSE @ \union {name}, !.step = @ + 1]

(* Controller::Run                                                         *)
Run ==
  /\ hc.at = "setup" /\ hc.step > Len(SetupOrder)
  /\ hc' = [hc EXCEPT !.run = TRUE, !.at = "starting"]

WaitRunning ==
  /\ hc.at = "starting"
  /\ ~hc.halted
  /\ hc' = Goto(hc, "running")

HardwareNext == FirmwareStarts \/ FirmwareReleases \/ FollowRunStop \/ FinishReset \/ BecomeReady

KernelNext ==
  \/ InitializeDeviceManager \/ RequestHCOwnership \/ WaitOwned
  \/ StopController \/ WaitHalted \/ ResetController \/ WaitReady
  \/ Setup \/ Run \/ WaitRunning

-----------------------------------------------------------------------------
ControllerTypeOK ==
  /\ hc.at \in {"unread", "devmgr", "own", "owning", "stop", "halting", "reset", "resetting", "setup",
                "starting", "running", "exit"}
  /\ hc.step \in 1..(Len(SetupOrder) + 1)
  /\ hc.written \subseteq Range(SetupOrder)

(* The controller is reset only while it is halted and no longer the       *)
(* firmware's, and it runs under the kernel only with everything in place  *)
(* that it reads and writes memory through: the device contexts with the   *)
(* scratchpad it asked for, both rings, and its interrupt on.              *)
ControllerReady ==
  /\ hc.reset => hc.halted /\ ~hc.bios
  /\ hc.at \in {"starting", "running"} /\ ~hc.halted =>
       /\ ~hc.bios
       /\ hc.written = Range(SetupOrder) \ (IF hc.scratchpad THEN {} ELSE {"SCRATCHPAD"})
=============================================================================
