----------------------------- MODULE AcpiTimer -----------------------------
(***************************************************************************)
(* ACPI (Kernel/acpi.cpp): the search for the FADT and WaitMilliseconds,   *)
(* which polls the power management timer while the LAPIC timer is         *)
(* measured (InitializeAPICTimer).                                         *)
(*                                                                         *)
(* The counter has 24 or 32 bits and runs on between two reads.            *)
(* pm.elapsed is the time really passed since the first read, up to a      *)
(* bound.                                                                  *)
(***************************************************************************)
EXTENDS Integers

CONSTANTS
  Values24,         \* 2^24, the values of the narrow counter
  Values32,         \* 2^32, those of the wide one and of uint32_t
  WaitTicks,        \* kPMTimerFreq * msec / 1000
  MaxGap,           \* most ticks between two reads
  MaxElapsed        \* bound on the time counted

ASSUME AcpiTimerAssumption ==
  /\ Values24 \in Nat /\ Values32 \in Nat /\ 2 * Values24 <= Values32
  /\ MaxGap \in Nat \ {0} /\ 2 * MaxGap <= Values24   \* half a round takes 2.3 s
  /\ WaitTicks \in 1..(Values24 - 1 - MaxGap)         \* less than a round
  /\ MaxElapsed \in Nat /\ MaxElapsed >= WaitTicks + 2 * MaxGap

VARIABLE pm

Period(wide) == IF wide THEN Values32 ELSE Values24

(* The locals of WaitMilliseconds while it does not run.                   *)
NotWaiting(at) == [at |-> at, wide |-> TRUE, now |-> 0, start |-> 0, end |-> 0, elapsed |-> 0]

AcpiInit == pm = NotWaiting("start")

(* acpi::Initialize: RSDP and XSDT must be valid and an entry be the FADT; *)
(* each failure ends in exit(1).  The tables are external.                 *)
AcpiInitialize(rsdp, xsdt, fadt) ==
  /\ pm.at = "start"
  /\ pm' = [pm EXCEPT !.at = IF rsdp /\ xsdt /\ fadt THEN "ready" ELSE "exit"]

(* The counter is read and the end computed, in 32 bits and cut to 24.     *)
WaitMilliseconds ==
  /\ pm.at = "ready"
  /\ \E wide \in BOOLEAN : \E start \in 0..(Period(wide) - 1) :
       LET end32 == (start + WaitTicks) % Values32
           end == IF wide THEN end32 ELSE end32 % Values24
       IN  pm' = [at |-> IF end < start THEN "overflowed" ELSE "counting",
                  wide |-> wide, now |-> start, start |-> start, end |-> end, elapsed |-> 0]

(* Time passes until the next read of the counter.                         *)
After(gap) ==
  LET e == pm.elapsed + gap IN
  [pm EXCEPT !.now = (@ + gap) % Period(pm.wide), !.elapsed = IF e > MaxElapsed THEN MaxElapsed ELSE e]

\* Wrong: does not wait for the counter to wrap.
PollOverflowed_NoWrap ==
  /\ pm.at = "overflowed"
  /\ \E gap \in 0..MaxGap : pm' = [After(gap) EXCEPT !.at = "counting"]

(* while(IoIn32(pm_tmr_blk) >= start)                                      *)
PollOverflowed ==
  /\ pm.at = "overflowed"
  /\ \E gap \in 0..MaxGap :
       LET p == After(gap) IN
       pm' = IF p.now >= pm.start THEN p ELSE [p EXCEPT !.at = "counting"]

(* while(IoIn32(pm_tmr_blk) < end)                                         *)
PollCounting ==
  /\ pm.at = "counting"
  /\ \E gap \in 0..MaxGap :
       LET p == After(gap) IN
       pm' = IF p.now < pm.end THEN p ELSE [p EXCEPT !.at = "done"]

WaitNext == WaitMilliseconds \/ PollOverflowed \/ PollCounting

-----------------------------------------------------------------------------
AcpiTypeOK ==
  /\ pm.at \in {"start", "ready", "overflowed", "counting", "done", "over", "exit"}
  /\ {pm.now, pm.start, pm.end} \subseteq 0..(Period(pm.wide) - 1)
  /\ pm.elapsed \in 0..MaxElapsed

(* WaitMilliseconds never returns early, whatever the value it starts at   *)
(* and however the counter wraps, and returns at most two reads late; the  *)
(* exception is an end so near the top of the counter that a read can miss *)
(* all values from it on, when the wait takes another round.               *)
WaitAccurate ==
  pm.at = "done" =>
    /\ pm.elapsed >= WaitTicks
    /\ \/ pm.elapsed < WaitTicks + 2 * MaxGap
       \/ pm.end > Period(pm.wide) - MaxGap
=============================================================================
