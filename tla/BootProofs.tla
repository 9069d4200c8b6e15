----------------------------- MODULE BootProofs -----------------------------
(***************************************************************************)
(* The boot, for every machine, kernel image, width of the ACPI timer and  *)
(* order of the controller's answers.  The parts share no state but the    *)
(* stage, so each has an invariant of its own.                             *)
(***************************************************************************)
EXTENDS Boot, FiniteSetTheorems, NaturalsInduction, WellFoundedInduction, SequenceTheorems, TLAPS

-----------------------------------------------------------------------------
(* The ACPI timer.                                                         *)

TimerRecord == [at : {"start", "ready", "overflowed", "counting", "done", "over", "exit"},
                wide : BOOLEAN, now : Int, start : Int, end : Int, elapsed : Int]

\* While the kernel waits: it has not wrapped yet; it counts up to an end on
\* the way, with or without a wrap before; or it has missed an end near the top
\* and goes around again.
NotWrapped(p) ==
  /\ p.end = p.start + WaitTicks - Period(p.wide)
  /\ p.start <= p.now /\ p.elapsed = p.now - p.start
Ahead(p) ==
  /\ p.end = p.start + WaitTicks
  /\ p.start <= p.now /\ p.now < p.end /\ p.elapsed = p.now - p.start
Wrapped(p) ==
  /\ p.end = p.start + WaitTicks - Period(p.wide)
  /\ p.now < p.end \/ p.now < MaxGap
  /\ p.elapsed = p.now + Period(p.wide) - p.start
Missed(p) == p.elapsed >= WaitTicks /\ p.end > Period(p.wide) - MaxGap

Accurate(p) ==
  /\ p.elapsed >= WaitTicks
  /\ p.elapsed < WaitTicks + 2 * MaxGap \/ p.end > Period(p.wide) - MaxGap

InRange(p) ==
  /\ 0 <= p.now /\ p.now < Period(p.wide) /\ 0 <= p.start /\ p.start < Period(p.wide)
  /\ 0 <= p.end /\ p.end < Period(p.wide)
  /\ p.elapsed <= MaxElapsed

TimerInv ==
  /\ pm \in TimerRecord
  /\ InRange(pm)
  /\ pm.at = "overflowed" => NotWrapped(pm)
  /\ pm.at = "counting" => Ahead(pm) \/ Wrapped(pm) \/ Missed(pm)
  /\ pm.at = "done" => Accurate(pm)

\* The counter's width.
LEMMA PeriodFacts ==
  ASSUME NEW wide
  PROVE  /\ Period(wide) \in Nat /\ WaitTicks \in Nat /\ MaxGap \in Nat /\ MaxElapsed \in Nat
         /\ WaitTicks >= 1 /\ MaxGap >= 1
         /\ WaitTicks + MaxGap < Period(wide) /\ 2 * MaxGap <= Period(wide)
         /\ MaxElapsed >= WaitTicks + 2 * MaxGap
BY AcpiTimerAssumption DEF Period

\* A number below two rounds is cut to one.
LEMMA CutToRound ==
  ASSUME NEW P \in Nat, NEW x \in Nat, x < 2 * P
  PROVE  x % P = IF x < P THEN x ELSE x - P
<1>1. CASE x < P
  BY <1>1
<1>2. CASE x >= P
  <2>1. x - P \in 0 .. P - 1 /\ x = 1 * P + (x - P)
    BY <1>2
  <2> QED BY <1>2, <2>1
<1> QED BY <1>1, <1>2

\* A wait starts ahead of its end or before a wrap.
LEMMA WaitMillisecondsInv ==
  ASSUME TimerInv, WaitMilliseconds
  PROVE  TimerInv'
<1>0. PICK wide \in BOOLEAN : \E start \in 0..(Period(wide) - 1) :
        LET end32 == (start + WaitTicks) % Values32
            end == IF wide THEN end32 ELSE end32 % Values24
        IN  pm' = [at |-> IF end < start THEN "overflowed" ELSE "counting",
                   wide |-> wide, now |-> start, start |-> start, end |-> end, elapsed |-> 0]
  BY DEF WaitMilliseconds
<1>1. PICK start \in 0..(Period(wide) - 1) :
        LET end32 == (start + WaitTicks) % Values32
            end == IF wide THEN end32 ELSE end32 % Values24
        IN  pm' = [at |-> IF end < start THEN "overflowed" ELSE "counting",
                   wide |-> wide, now |-> start, start |-> start, end |-> end, elapsed |-> 0]
  BY <1>0
<1> DEFINE end32 == (start + WaitTicks) % Values32
           end == IF wide THEN end32 ELSE end32 % Values24
           P == Period(wide)
           x == start + WaitTicks
<1>2. /\ P \in Nat /\ WaitTicks \in Nat /\ WaitTicks >= 1 /\ WaitTicks + MaxGap < P
      /\ MaxGap \in Nat /\ MaxElapsed \in Nat /\ start \in Nat /\ start < P
  BY PeriodFacts
<1>x. x \in Nat /\ x < 2 * P
  BY <1>2
<1>3. end = IF start + WaitTicks < P THEN start + WaitTicks ELSE (start + WaitTicks) - P
  <2>1. CASE wide
    <3>1. P = Values32
      BY <2>1 DEF Period
    <3>2. end = x % P
      BY <2>1, <3>1
    <3> HIDE DEF end, P, end32, x
    <3>3. x % P = IF x < P THEN x ELSE x - P
      BY <1>2, <1>x, CutToRound
    <3>4. end = IF x < P THEN x ELSE x - P
      BY <3>2, <3>3
    <3> QED BY <3>4 DEF x
  <2>2. CASE ~wide
    <3>1. P = Values24 /\ Values32 \in Nat /\ start + WaitTicks < Values32
      BY <1>2, <2>2, AcpiTimerAssumption DEF Period
    <3>2. end32 = x % Values32 /\ end = end32 % P
      BY <2>2, <3>1
    <3> HIDE DEF end, P, end32, x
    <3>3. x % Values32 = IF x < Values32 THEN x ELSE x - Values32
      BY <1>x, <3>1, CutToRound DEF x
    <3>4. end32 = x
      BY <3>1, <3>2, <3>3 DEF x
    <3>5. x % P = IF x < P THEN x ELSE x - P
      BY <1>2, <1>x, CutToRound
    <3>6. end = IF x < P THEN x ELSE x - P
      BY <3>2, <3>4, <3>5
    <3> QED BY <3>6 DEF x
  <2> QED BY <2>1, <2>2
<1>4. pm' = [at |-> IF end < start THEN "overflowed" ELSE "counting",
             wide |-> wide, now |-> start, start |-> start, end |-> end, elapsed |-> 0]
  BY <1>1
<1> HIDE DEF end, end32
<1>5. /\ pm'.at = (IF end < start THEN "overflowed" ELSE "counting") /\ pm'.wide = wide
      /\ pm'.now = start /\ pm'.start = start /\ pm'.end = end /\ pm'.elapsed = 0
      /\ pm' \in TimerRecord
  BY <1>2, <1>3, <1>4 DEF TimerRecord
<1>6. InRange(pm')
  BY <1>2, <1>3, <1>5 DEF InRange
<1>7. CASE start + WaitTicks < P
  <2>1. pm'.at = "counting" /\ Ahead(pm')
    BY <1>2, <1>3, <1>5, <1>7 DEF Ahead
  <2> QED BY <1>5, <1>6, <2>1 DEF TimerInv
<1>8. CASE start + WaitTicks >= P
  <2>1. pm'.at = "overflowed" /\ NotWrapped(pm')
    BY <1>2, <1>3, <1>5, <1>8 DEF NotWrapped
  <2> QED BY <1>5, <1>6, <2>1 DEF TimerInv
<1> QED BY <1>2, <1>7, <1>8

\* The counter at the next read.
LEMMA NextRead ==
  ASSUME TimerInv, NEW gap \in 0..MaxGap
  PROVE  LET p == After(gap)
             e == pm.elapsed + gap
         IN  /\ p \in TimerRecord /\ p.at = pm.at
             /\ p.wide = pm.wide /\ p.start = pm.start /\ p.end = pm.end
             /\ p.now = IF pm.now + gap < Period(pm.wide) THEN pm.now + gap
                        ELSE (pm.now + gap) - Period(pm.wide)
             /\ p.elapsed = IF e > MaxElapsed THEN MaxElapsed ELSE e
             /\ InRange(p)
<1> DEFINE p == After(gap)
           e == pm.elapsed + gap
           P == Period(pm.wide)
<1>1. /\ P \in Nat /\ MaxGap \in Nat /\ MaxGap < P /\ MaxElapsed \in Nat /\ gap \in Nat
      /\ gap <= MaxGap
  BY PeriodFacts
<1>2. /\ pm \in TimerRecord /\ InRange(pm) /\ pm.now \in Int /\ pm.start \in Int
      /\ pm.end \in Int /\ pm.elapsed \in Int
  BY DEF TimerInv, TimerRecord
<1>3. (pm.now + gap) % P = IF pm.now + gap < P THEN pm.now + gap ELSE (pm.now + gap) - P
  <2> DEFINE x == pm.now + gap
  <2>1. x \in Nat /\ x < 2 * P
    BY <1>1, <1>2 DEF InRange
  <2> HIDE DEF P, x
  <2>2. x % P = IF x < P THEN x ELSE x - P
    BY <1>1, <2>1, CutToRound
  <2> QED BY <2>2 DEF x
<1>4. p = [pm EXCEPT !.now = (@ + gap) % P, !.elapsed = IF e > MaxElapsed THEN MaxElapsed ELSE e]
  BY DEF After
<1> HIDE DEF p
<1>5. /\ p.at = pm.at /\ p.wide = pm.wide /\ p.start = pm.start /\ p.end = pm.end
      /\ p.now = (pm.now + gap) % P
      /\ p.elapsed = IF e > MaxElapsed THEN MaxElapsed ELSE e
      /\ p.now \in Int /\ p.elapsed \in Int
  BY <1>1, <1>2, <1>3, <1>4 DEF TimerRecord
<1>6. p \in TimerRecord
  BY <1>2, <1>4, <1>5 DEF TimerRecord
<1>7. InRange(p)
  BY <1>1, <1>2, <1>3, <1>5 DEF InRange
<1> QED BY <1>3, <1>5, <1>6, <1>7 DEF p

LEMMA PollOverflowedInv ==
  ASSUME TimerInv, PollOverflowed
  PROVE  TimerInv'
<1>1. PICK gap \in 0..MaxGap :
        pm' = IF After(gap).now >= pm.start THEN After(gap)
              ELSE [After(gap) EXCEPT !.at = "counting"]
  BY DEF PollOverflowed
<1> DEFINE p == After(gap)
           e == pm.elapsed + gap
           P == Period(pm.wide)
<1>2. /\ p \in TimerRecord /\ p.at = pm.at
      /\ p.wide = pm.wide /\ p.start = pm.start /\ p.end = pm.end
      /\ p.now = IF pm.now + gap < P THEN pm.now + gap ELSE (pm.now + gap) - P
      /\ p.elapsed = IF e > MaxElapsed THEN MaxElapsed ELSE e
      /\ InRange(p)
  BY NextRead
<1>3. pm.at = "overflowed" /\ NotWrapped(pm) /\ InRange(pm)
  BY DEF PollOverflowed, TimerInv
<1>4. /\ P \in Nat /\ MaxGap \in Nat /\ MaxElapsed \in Nat /\ WaitTicks \in Nat
      /\ WaitTicks + MaxGap < P /\ MaxElapsed >= WaitTicks + 2 * MaxGap
      /\ gap \in Nat /\ gap <= MaxGap
      /\ pm.now \in Int /\ pm.start \in Int /\ pm.end \in Int
  BY PeriodFacts DEF TimerInv, TimerRecord
<1> HIDE DEF p
<1>5. CASE pm.now + gap < P
  <2>1. p.now >= pm.start /\ NotWrapped(p)
    BY <1>2, <1>3, <1>4, <1>5 DEF NotWrapped, InRange
  <2>2. pm' = p
    BY <1>1, <2>1 DEF p
  <2> QED BY <1>2, <1>3, <2>1, <2>2 DEF TimerInv
<1>6. CASE pm.now + gap >= P
  <2>1. p.now < pm.start /\ Wrapped(p)
    BY <1>2, <1>3, <1>4, <1>6 DEF NotWrapped, Wrapped, InRange
  <2>2. pm' = [p EXCEPT !.at = "counting"]
    BY <1>1, <1>2, <1>4, <2>1 DEF p, TimerRecord
  <2>3. /\ pm' \in TimerRecord /\ pm'.at = "counting" /\ pm'.wide = p.wide /\ pm'.now = p.now
        /\ pm'.start = p.start /\ pm'.end = p.end /\ pm'.elapsed = p.elapsed
    BY <1>2, <2>2 DEF TimerRecord
  <2>4. InRange(pm') /\ Wrapped(pm')
    BY <1>2, <2>1, <2>3 DEF InRange, Wrapped
  <2> QED BY <2>3, <2>4 DEF TimerInv
<1> QED BY <1>4, <1>5, <1>6

LEMMA PollCountingInv ==
  ASSUME TimerInv, PollCounting
  PROVE  TimerInv'
<1>1. PICK gap \in 0..MaxGap :
        pm' = IF After(gap).now < pm.end THEN After(gap)
              ELSE [After(gap) EXCEPT !.at = "done"]
  BY DEF PollCounting
<1> DEFINE p == After(gap)
           e == pm.elapsed + gap
           P == Period(pm.wide)
<1>2. /\ p \in TimerRecord /\ p.at = pm.at
      /\ p.wide = pm.wide /\ p.start = pm.start /\ p.end = pm.end
      /\ p.now = IF pm.now + gap < P THEN pm.now + gap ELSE (pm.now + gap) - P
      /\ p.elapsed = IF e > MaxElapsed THEN MaxElapsed ELSE e
      /\ InRange(p)
  BY NextRead
<1>3. pm.at = "counting" /\ InRange(pm) /\ (Ahead(pm) \/ Wrapped(pm) \/ Missed(pm))
  BY DEF PollCounting, TimerInv
<1>4. /\ P \in Nat /\ MaxGap \in Nat /\ MaxElapsed \in Nat /\ WaitTicks \in Nat
      /\ WaitTicks + MaxGap < P /\ MaxElapsed >= WaitTicks + 2 * MaxGap /\ 2 * MaxGap <= P
      /\ gap \in Nat /\ gap <= MaxGap
      /\ pm.now \in Int /\ pm.start \in Int /\ pm.end \in Int /\ pm.elapsed \in Int
  BY PeriodFacts DEF TimerInv, TimerRecord
<1> HIDE DEF p
<1>5. /\ p.now < p.end => Ahead(p) \/ Wrapped(p) \/ Missed(p)
      /\ p.now >= p.end => Accurate(p)
  <2>1. CASE Missed(pm)
    BY <1>2, <1>4, <2>1 DEF Missed, Accurate
  <2>2. CASE Ahead(pm) /\ pm.now + gap < P
    BY <1>2, <1>3, <1>4, <2>2 DEF Ahead, Accurate, InRange
  <2>3. CASE Ahead(pm) /\ pm.now + gap >= P
    <3>1. Missed(p)
      BY <1>2, <1>3, <1>4, <2>3 DEF Ahead, Missed, InRange
    <3> QED BY <3>1 DEF Missed, Accurate
  <2>4. CASE Wrapped(pm) /\ pm.now + gap < P
    BY <1>2, <1>3, <1>4, <2>4 DEF Wrapped, Accurate, InRange
  <2>5. CASE Wrapped(pm) /\ pm.now + gap >= P
    <3>1. Missed(p)
      BY <1>2, <1>3, <1>4, <2>5 DEF Wrapped, Missed, InRange
    <3> QED BY <3>1 DEF Missed, Accurate
  <2> QED BY <1>3, <1>4, <2>1, <2>2, <2>3, <2>4, <2>5
<1>6. CASE p.now < pm.end
  <2>1. pm' = p
    BY <1>1, <1>6 DEF p
  <2> QED BY <1>2, <1>3, <1>5, <1>6, <2>1 DEF TimerInv
<1>7. CASE ~(p.now < pm.end)
  <2>1. pm' = [p EXCEPT !.at = "done"]
    BY <1>1, <1>7 DEF p
  <2>2. /\ pm' \in TimerRecord /\ pm'.at = "done" /\ pm'.wide = p.wide /\ pm'.now = p.now
        /\ pm'.start = p.start /\ pm'.end = p.end /\ pm'.elapsed = p.elapsed
    BY <1>2, <2>1 DEF TimerRecord
  <2>3. p.now >= p.end
    BY <1>2, <1>4, <1>7 DEF TimerRecord
  <2>4. InRange(pm') /\ Accurate(pm')
    BY <1>2, <1>5, <2>2, <2>3 DEF InRange, Accurate
  <2> QED BY <2>2, <2>4 DEF TimerInv
<1> QED BY <1>6, <1>7

\* While WaitMilliseconds does not run.
LEMMA NotWaitingInv ==
  ASSUME NEW at \in {"start", "over"}
  PROVE  /\ NotWaiting(at) \in TimerRecord /\ InRange(NotWaiting(at))
         /\ NotWaiting(at).at = at
<1> DEFINE p == NotWaiting(at)
<1>1. p = [at |-> at, wide |-> TRUE, now |-> 0, start |-> 0, end |-> 0, elapsed |-> 0]
  BY DEF NotWaiting
<1>2. Period(p.wide) \in Nat /\ Period(p.wide) >= 1 /\ MaxElapsed \in Nat
  BY PeriodFacts
<1> HIDE DEF p
<1>3. p \in TimerRecord /\ p.at = at
  BY <1>1 DEF TimerRecord
<1>4. p.now = 0 /\ p.start = 0 /\ p.end = 0 /\ p.elapsed = 0
  BY <1>1
<1>5. InRange(p)
  BY <1>2, <1>4 DEF InRange
<1> QED BY <1>3, <1>5 DEF p

LEMMA AcpiInitializeInv ==
  ASSUME TimerInv, NEW rsdp, NEW xsdt, NEW fadt, AcpiInitialize(rsdp, xsdt, fadt)
  PROVE  TimerInv'
<1>1. PICK at \in {"ready", "exit"} : pm' = [pm EXCEPT !.at = at]
  BY DEF AcpiInitialize
<1>2. /\ pm' \in TimerRecord /\ pm'.at = at /\ pm'.wide = pm.wide /\ pm'.now = pm.now
      /\ pm'.start = pm.start /\ pm'.end = pm.end /\ pm'.elapsed = pm.elapsed
  BY <1>1 DEF TimerInv, TimerRecord
<1>3. InRange(pm')
  BY <1>2 DEF TimerInv, InRange
<1> QED BY <1>2, <1>3 DEF TimerInv

-----------------------------------------------------------------------------
(* The xHCI controller.                                                    *)

Early == {"unread", "devmgr", "own"}
Owned == {"stop", "halting", "reset", "resetting", "setup", "starting", "running"}

ControllerRecord ==
  [at : Early \cup Owned \cup {"owning", "exit"}, legacy : BOOLEAN, bios : BOOLEAN,
   os : BOOLEAN, run : BOOLEAN, halted : BOOLEAN, reset : BOOLEAN, not_ready : BOOLEAN,
   scratchpad : BOOLEAN, step : Nat, written : SUBSET Range(SetupOrder)]

\* What the first n writes of the set-up leave in place.
Written(n, scratchpad) ==
  {SetupOrder[i] : i \in 1..n} \ (IF scratchpad THEN {} ELSE {"SCRATCHPAD"})

\* Who owns the controller, and whether it stands still: what the kernel waited
\* for stays true, since the firmware lets go only when its last command has
\* been followed.
OwnerInv ==
  /\ hc.at \in Early /\ hc.bios => hc.legacy /\ ~hc.os
  /\ hc.at \in Owned => ~hc.bios
  /\ hc.at \in Early \cup {"owning", "stop"} /\ ~hc.bios => (hc.halted <=> ~hc.run)
  /\ hc.at \in {"halting", "reset", "resetting", "setup"} => ~hc.run
  /\ hc.at \in {"reset", "resetting", "setup"} => hc.halted
  /\ hc.reset => hc.at = "resetting"
  /\ hc.at = "setup" => ~hc.not_ready

SetupInv ==
  /\ hc.at \notin {"setup", "starting", "running", "exit"} => hc.step = 1 /\ hc.written = {}
  /\ hc.at = "setup" => /\ hc.step \in 1..8
                        /\ hc.written = Written(hc.step - 1, hc.scratchpad)
  /\ hc.at \in {"starting", "running"} => hc.written = Written(7, hc.scratchpad)

ControllerInv == hc \in ControllerRecord /\ OwnerInv /\ SetupInv

\* The controller as the kernel finds it, and before.
LEMMA ControllersInv == hc \in Controllers \/ hc = Unread => ControllerInv
<1> SUFFICES ASSUME hc \in Controllers \/ hc = Unread PROVE ControllerInv
  OBVIOUS
<1> DEFINE Fresh(h, at) ==
             /\ h \in [at : {at}, legacy : BOOLEAN, bios : BOOLEAN, os : BOOLEAN, run : BOOLEAN,
                       halted : BOOLEAN, reset : {FALSE}, not_ready : {FALSE},
                       scratchpad : BOOLEAN, step : {1}, written : {{}}]
             /\ h.bios => h.legacy /\ ~h.os
             /\ h.halted = ~h.run
<1>1. \A h \in Controllers : Fresh(h, "devmgr")
  BY DEF Controllers
<1>2. \E h \in Controllers : h.halted /\ ~h.legacy
  <2> DEFINE h == [at |-> "devmgr", legacy |-> FALSE, bios |-> FALSE, os |-> FALSE, run |-> FALSE,
                   halted |-> TRUE, reset |-> FALSE, not_ready |-> FALSE, scratchpad |-> FALSE,
                   step |-> 1, written |-> {}]
  <2>1. h \in Controllers
    BY DEF Controllers
  <2> QED BY <2>1
<1>3. Fresh(Unread, "unread")
  <2> DEFINE h == CHOOSE h \in Controllers : h.halted /\ ~h.legacy
  <2>1. h \in Controllers
    BY <1>2
  <2>2. Fresh(h, "devmgr")
    BY <1>1, <2>1
  <2>3. Unread = [h EXCEPT !.at = "unread"]
    BY DEF Unread
  <2> HIDE DEF h
  <2> QED BY <2>2, <2>3
<1>4. PICK at \in {"devmgr", "unread"} : Fresh(hc, at)
  BY <1>1, <1>3
<1>5. /\ hc.at = at /\ ~hc.reset /\ ~hc.not_ready /\ hc.step = 1 /\ hc.written = {}
      /\ hc.halted <=> ~hc.run
      /\ hc.bios => hc.legacy /\ ~hc.os
  BY <1>4
<1>6. hc \in ControllerRecord
  <2>1. at \in Early \cup Owned \cup {"owning", "exit"}
    BY <1>4 DEF Early
  <2>2. 1 \in Nat /\ {} \in SUBSET Range(SetupOrder)
    OBVIOUS
  <2>3. {FALSE} \subseteq BOOLEAN
    OBVIOUS
  <2> QED BY <1>4, <2>1, <2>2, <2>3, Zenon DEF ControllerRecord
<1> QED BY <1>5, <1>6 DEF ControllerInv, OwnerInv, SetupInv, Early, Owned

\* The set-up's writes are seven names.
LEMMA SetupNames ==
  /\ Len(SetupOrder) = 7
  /\ \A i \in 1..7 : SetupOrder[i] \in Range(SetupOrder)
  /\ Range(SetupOrder) = {SetupOrder[i] : i \in 1..7}
<1>1. DOMAIN SetupOrder = 1..7 /\ Len(SetupOrder) = 7
  BY DEF SetupOrder
<1> QED BY <1>1 DEF Range

\* What the firmware and the controller do in their own time.
LEMMA HardwareInv ==
  ASSUME ControllerInv, HardwareNext
  PROVE  ControllerInv'
<1> USE DEF ControllerInv, Early, Owned
<1>0. hc \in ControllerRecord
  OBVIOUS
<1>1. CASE FirmwareStarts
  <2>1. /\ hc.bios /\ ~hc.run /\ hc.halted /\ hc' = [hc EXCEPT !.run = TRUE]
    BY <1>1 DEF FirmwareStarts
  <2>2. /\ hc' \in ControllerRecord /\ hc'.run
        /\ hc'.at = hc.at /\ hc'.legacy = hc.legacy /\ hc'.bios = hc.bios /\ hc'.os = hc.os
        /\ hc'.halted = hc.halted /\ hc'.reset = hc.reset /\ hc'.not_ready = hc.not_ready
        /\ hc'.scratchpad = hc.scratchpad /\ hc'.step = hc.step /\ hc'.written = hc.written
    BY <1>0, <2>1 DEF ControllerRecord
  <2>3. OwnerInv'
    BY <2>1, <2>2 DEF OwnerInv
  <2> QED BY <2>2, <2>3 DEF SetupInv
<1>2. CASE FirmwareReleases
  <2>1. /\ hc.bios /\ hc.os /\ (hc.halted <=> ~hc.run) /\ hc' = [hc EXCEPT !.bios = FALSE]
    BY <1>0, <1>2 DEF FirmwareReleases, ControllerRecord
  <2>2. /\ hc' \in ControllerRecord /\ ~hc'.bios
        /\ hc'.at = hc.at /\ hc'.legacy = hc.legacy /\ hc'.run = hc.run /\ hc'.os = hc.os
        /\ hc'.halted = hc.halted /\ hc'.reset = hc.reset /\ hc'.not_ready = hc.not_ready
        /\ hc'.scratchpad = hc.scratchpad /\ hc'.step = hc.step /\ hc'.written = hc.written
    BY <1>0, <2>1 DEF ControllerRecord
  <2>3. OwnerInv'
    BY <2>1, <2>2 DEF OwnerInv
  <2> QED BY <2>2, <2>3 DEF SetupInv
<1>3. CASE FollowRunStop
  <2>1. /\ (hc.halted <=> hc.run) /\ ~hc.reset /\ hc' = [hc EXCEPT !.halted = ~hc.run]
    BY <1>0, <1>3 DEF FollowRunStop, ControllerRecord
  <2>2. /\ hc' \in ControllerRecord /\ (hc'.halted <=> ~hc.run)
        /\ hc'.at = hc.at /\ hc'.legacy = hc.legacy /\ hc'.run = hc.run /\ hc'.os = hc.os
        /\ hc'.bios = hc.bios /\ hc'.reset = hc.reset /\ hc'.not_ready = hc.not_ready
        /\ hc'.scratchpad = hc.scratchpad /\ hc'.step = hc.step /\ hc'.written = hc.written
    BY <1>0, <2>1 DEF ControllerRecord
  <2>3. OwnerInv'
    BY <2>1, <2>2 DEF OwnerInv
  <2> QED BY <2>2, <2>3 DEF SetupInv
<1>4. CASE FinishReset
  <2> DEFINE left == hc.written \ {"CONFIG", "DCBAAP", "CRCR", "ERST", "IMAN", "INTE"}
  <2>1. hc.reset /\ hc' = [hc EXCEPT !.reset = FALSE, !.not_ready = TRUE, !.run = FALSE,
                                     !.halted = TRUE, !.written = left]
    BY <1>4 DEF FinishReset
  <2>2. hc.at = "resetting" /\ hc.written = {} /\ left = {}
    BY <2>1 DEF OwnerInv, SetupInv
  <2>3. /\ hc' \in ControllerRecord /\ ~hc'.reset /\ hc'.not_ready /\ ~hc'.run /\ hc'.halted
        /\ hc'.at = hc.at /\ hc'.legacy = hc.legacy /\ hc'.os = hc.os
        /\ hc'.bios = hc.bios
        /\ hc'.scratchpad = hc.scratchpad /\ hc'.step = hc.step /\ hc'.written = left
    BY <1>0, <2>1 DEF ControllerRecord
  <2>4. OwnerInv'
    BY <2>2, <2>3 DEF OwnerInv
  <2> QED BY <2>2, <2>3, <2>4 DEF SetupInv
<1>5. CASE BecomeReady
  <2>1. hc' = [hc EXCEPT !.not_ready = FALSE]
    BY <1>5 DEF BecomeReady
  <2>2. /\ hc' \in ControllerRecord /\ ~hc'.not_ready
        /\ hc'.at = hc.at /\ hc'.legacy = hc.legacy /\ hc'.run = hc.run /\ hc'.os = hc.os
        /\ hc'.bios = hc.bios /\ hc'.reset = hc.reset /\ hc'.halted = hc.halted
        /\ hc'.scratchpad = hc.scratchpad /\ hc'.step = hc.step /\ hc'.written = hc.written
    BY <1>0, <2>1 DEF ControllerRecord
  <2>3. OwnerInv'
    BY <2>1, <2>2 DEF OwnerInv
  <2> QED BY <2>2, <2>3 DEF SetupInv
<1> QED BY <1>1, <1>2, <1>3, <1>4, <1>5 DEF HardwareNext

\* A step of the kernel's that only moves on.
LEMMA MovesOn ==
  ASSUME ControllerInv, NEW at \in Early \cup Owned \cup {"owning", "exit"}, hc' = Goto(hc, at)
  PROVE  /\ hc' \in ControllerRecord /\ hc'.at = at
         /\ hc'.bios = hc.bios /\ hc'.legacy = hc.legacy /\ hc'.run = hc.run /\ hc'.os = hc.os
         /\ hc'.halted = hc.halted /\ hc'.reset = hc.reset /\ hc'.not_ready = hc.not_ready
         /\ hc'.scratchpad = hc.scratchpad /\ hc'.step = hc.step /\ hc'.written = hc.written
BY DEF ControllerInv, ControllerRecord, Goto

\* Up to the reset.
LEMMA StoppingInv ==
  ASSUME ControllerInv,
         \/ InitializeDeviceManager \/ RequestHCOwnership \/ WaitOwned
         \/ StopController \/ WaitHalted \/ ResetController \/ WaitReady
  PROVE  ControllerInv'
<1> USE DEF ControllerInv
<1>0. hc \in ControllerRecord
  OBVIOUS
<1>1. ASSUME NEW at \in Early \cup Owned \cup {"owning", "exit"}, hc' = Goto(hc, at),
             \/ hc.at = "devmgr" /\ at \in {"own", "exit"}
             \/ hc.at = "own" /\ at = "stop" /\ (~hc.legacy \/ hc.os)
             \/ hc.at = "owning" /\ at = "stop" /\ ~hc.bios
             \/ hc.at = "halting" /\ at = "reset" /\ hc.halted
             \/ hc.at = "resetting" /\ at = "setup" /\ ~hc.reset /\ ~hc.not_ready
      PROVE  ControllerInv'
  <2>1. /\ hc' \in ControllerRecord /\ hc'.at = at
        /\ hc'.bios = hc.bios /\ hc'.legacy = hc.legacy /\ hc'.run = hc.run /\ hc'.os = hc.os
        /\ hc'.halted = hc.halted /\ hc'.reset = hc.reset /\ hc'.not_ready = hc.not_ready
        /\ hc'.scratchpad = hc.scratchpad /\ hc'.step = hc.step /\ hc'.written = hc.written
    BY <1>1, MovesOn
  <2>2. OwnerInv'
    BY <1>1, <2>1 DEF OwnerInv, Early, Owned
  <2>3. Written(0, hc.scratchpad) = {}
    BY DEF Written
  <2>4. SetupInv'
    BY <1>1, <2>1, <2>3 DEF SetupInv
  <2> QED BY <2>1, <2>2, <2>4
<1>2. CASE InitializeDeviceManager
  BY <1>1, <1>2 DEF InitializeDeviceManager, Early
<1>3. CASE RequestHCOwnership
  <2>1. CASE ~hc.legacy \/ hc.os
    BY <1>1, <1>3, <2>1 DEF RequestHCOwnership, Owned
  <2>2. CASE ~(~hc.legacy \/ hc.os)
    <3>1. hc.at = "own" /\ hc' = [hc EXCEPT !.os = TRUE, !.at = "owning"]
      BY <1>3, <2>2 DEF RequestHCOwnership
    <3>2. /\ hc' \in ControllerRecord /\ hc'.at = "owning"
          /\ hc'.bios = hc.bios /\ hc'.run = hc.run /\ hc'.step = hc.step
          /\ hc'.halted = hc.halted /\ hc'.reset = hc.reset /\ hc'.written = hc.written
      BY <1>0, <3>1 DEF ControllerRecord
    <3>3. OwnerInv'
      BY <3>1, <3>2 DEF OwnerInv, Early, Owned
    <3> QED BY <3>1, <3>2, <3>3 DEF SetupInv
  <2> QED BY <2>1, <2>2
<1>4. CASE WaitOwned
  BY <1>1, <1>4 DEF WaitOwned, Owned
<1>5. CASE StopController
  <2>1. /\ hc.at = "stop"
        /\ hc' = [hc EXCEPT !.written = @ \ {"INTE"}, !.run = @ /\ hc.halted, !.at = "halting"]
    BY <1>5 DEF StopController
  <2>2. /\ ~hc.bios /\ (hc.halted <=> ~hc.run) /\ hc.written = {} /\ hc.step = 1
        /\ ~hc.reset /\ ~(hc.run /\ hc.halted)
    BY <2>1 DEF OwnerInv, SetupInv, Early, Owned
  <2>3. /\ hc' \in ControllerRecord /\ hc'.at = "halting" /\ ~hc'.run
        /\ hc'.bios = hc.bios /\ hc'.step = hc.step
        /\ hc'.reset = hc.reset /\ hc'.written = hc.written \ {"INTE"}
    <3>1. (hc.run /\ hc.halted) = FALSE
      BY <2>2
    <3>2. hc' = [hc EXCEPT !.written = @ \ {"INTE"}, !.run = FALSE, !.at = "halting"]
      BY <2>1, <3>1, Zenon
    <3> QED BY <1>0, <3>2 DEF ControllerRecord, Owned
  <2>4. OwnerInv'
    BY <2>2, <2>3 DEF OwnerInv, Early, Owned
  <2> QED BY <2>2, <2>3, <2>4 DEF SetupInv
<1>6. CASE WaitHalted
  BY <1>1, <1>6 DEF WaitHalted, Owned
<1>7. CASE ResetController
  <2>1. hc.at = "reset" /\ hc' = [hc EXCEPT !.reset = TRUE, !.at = "resetting"]
    BY <1>7 DEF ResetController
  <2>2. /\ hc' \in ControllerRecord /\ hc'.at = "resetting"
        /\ hc'.bios = hc.bios /\ hc'.run = hc.run /\ hc'.step = hc.step
        /\ hc'.halted = hc.halted /\ hc'.written = hc.written
    BY <1>0, <2>1 DEF ControllerRecord, Owned
  <2>3. OwnerInv'
    BY <2>1, <2>2 DEF OwnerInv, Early, Owned
  <2> QED BY <2>1, <2>2, <2>3 DEF SetupInv
<1>8. CASE WaitReady
  BY <1>1, <1>8 DEF WaitReady, Owned
<1> QED BY <1>2, <1>3, <1>4, <1>5, <1>6, <1>7, <1>8

\* The writes of the set-up, and the start.
LEMMA StartingInv ==
  ASSUME ControllerInv, Setup \/ Run \/ WaitRunning
  PROVE  ControllerInv'
<1> USE DEF ControllerInv
<1>0. hc \in ControllerRecord
  OBVIOUS
<1>1. CASE Setup
  <2> DEFINE name == SetupOrder[hc.step]
  <2>1. hc.at = "setup" /\ hc.step <= 7
    BY <1>1, SetupNames DEF Setup
  <2>2. /\ hc.step \in 1..7 /\ ~hc.not_ready
        /\ hc.written = Written(hc.step - 1, hc.scratchpad)
    BY <2>1 DEF OwnerInv, SetupInv
  <2>3. CASE hc' = Goto(hc, "exit")
    <3>1. /\ hc' \in ControllerRecord /\ hc'.at = "exit" /\ hc'.reset = hc.reset
      BY <2>3, MovesOn
    <3>2. ~hc.reset
      BY <2>1 DEF OwnerInv
    <3> QED BY <3>1, <3>2 DEF OwnerInv, SetupInv, Early, Owned
  <2>4. CASE ~(hc' = Goto(hc, "exit"))
    <3> DEFINE lost == hc.not_ready \/ (name = "SCRATCHPAD" /\ ~hc.scratchpad)
               w == IF lost THEN hc.written ELSE hc.written \cup {name}
    <3>1. hc' = [hc EXCEPT !.written = w, !.step = @ + 1]
      BY <1>1, <2>4 DEF Setup
    <3>2. w = Written(hc.step, hc.scratchpad)
      <4>1. {SetupOrder[i] : i \in 1..hc.step} = {SetupOrder[i] : i \in 1..(hc.step - 1)} \cup {name}
        <5>1. 1..hc.step = 1..(hc.step - 1) \cup {hc.step}
          BY <2>2
        <5> QED BY <5>1
      <4>2. lost <=> name = "SCRATCHPAD" /\ ~hc.scratchpad
        BY <2>2
      <4> HIDE DEF name, lost
      <4> QED BY <2>2, <4>1, <4>2 DEF Written
    <3>3. name \in Range(SetupOrder)
      BY <2>2, SetupNames
    <3>4. w \in SUBSET Range(SetupOrder) /\ hc.step + 1 \in Nat
      BY <1>0, <2>2, <3>3 DEF ControllerRecord
    <3> HIDE DEF w
    <3>5. /\ hc' \in ControllerRecord /\ hc'.at = "setup" /\ hc'.step = hc.step + 1
          /\ hc'.written = w /\ hc'.scratchpad = hc.scratchpad
          /\ hc'.bios = hc.bios /\ hc'.run = hc.run /\ hc'.halted = hc.halted
          /\ hc'.reset = hc.reset /\ hc'.not_ready = hc.not_ready
      BY <1>0, <2>1, <3>1, <3>4 DEF ControllerRecord
    <3>6. OwnerInv'
      BY <2>1, <3>5 DEF OwnerInv, Early, Owned
    <3>7. hc'.step \in 1..8 /\ hc'.written = Written(hc'.step - 1, hc'.scratchpad)
      <4>1. hc'.step - 1 = hc.step
        BY <2>2, <3>5
      <4> QED BY <2>2, <3>2, <3>5, <4>1
    <3> QED BY <3>5, <3>6, <3>7 DEF SetupInv
  <2> QED BY <2>3, <2>4
<1>2. CASE Run
  <2>1. hc.at = "setup" /\ hc.step > 7 /\ hc' = [hc EXCEPT !.run = TRUE, !.at = "starting"]
    BY <1>2, SetupNames DEF Run
  <2>2. hc.step - 1 = 7
    BY <2>1 DEF SetupInv
  <2>3. /\ hc' \in ControllerRecord /\ hc'.at = "starting"
        /\ hc'.bios = hc.bios /\ hc'.reset = hc.reset
        /\ hc'.written = hc.written /\ hc'.scratchpad = hc.scratchpad
    BY <1>0, <2>1 DEF ControllerRecord, Owned
  <2>4. hc'.written = Written(7, hc'.scratchpad)
    BY <2>1, <2>2, <2>3 DEF SetupInv
  <2>5. OwnerInv'
    BY <2>1, <2>3 DEF OwnerInv, Early, Owned
  <2> QED BY <2>3, <2>4, <2>5 DEF SetupInv
<1>3. CASE WaitRunning
  <2>1. hc.at = "starting" /\ hc' = Goto(hc, "running")
    BY <1>3 DEF WaitRunning
  <2>2. /\ hc' \in ControllerRecord /\ hc'.at = "running"
        /\ hc'.bios = hc.bios /\ hc'.reset = hc.reset
        /\ hc'.written = hc.written /\ hc'.scratchpad = hc.scratchpad
    BY <2>1, MovesOn DEF Owned
  <2>3. OwnerInv'
    BY <2>1, <2>2 DEF OwnerInv, Early, Owned
  <2> QED BY <2>1, <2>2, <2>3 DEF SetupInv
<1> QED BY <1>1, <1>2, <1>3

-----------------------------------------------------------------------------
(* The boot loader.                                                        *)

IsLoader(l) ==
  DOMAIN l = {"at", "key", "held", "map", "kernel", "next", "ram", "volume", "acpi"}

Ready == {"exit", "retry", "exit2", "acpi", "entered"}
Loaded == {"volume", "format"} \cup Ready

\* The pages taken at kernel_base_addr.
KernelArea(phdr) ==
  LET r == CalcLoadAddressRange(phdr)
      num_pages == (r.last - r.first + 1) \div 2
  IN  {KernelPage(Page(KernelBase) + p) : p \in 0..(num_pages - 1)}

\* The firmware's key stands for its memory map, and what the loader took is in it.
KeyInv ==
  /\ ldr.key \in Int /\ ldr.map.key \in Int /\ ldr.map.key <= ldr.key
  /\ ldr.map.key = ldr.key => ldr.map.held = ldr.held
  /\ ldr.at \in {"acpi", "entered"} => ldr.map.key = ldr.key

AreasInv ==
  /\ ldr.at \in {"pages", "copy"} \cup Loaded =>
       ldr.kernel \in Kernels /\ Pool("kernel_file") \in ldr.held
  /\ ldr.at \in {"copy"} \cup Loaded => KernelArea(ldr.kernel) \subseteq ldr.held
  /\ ldr.at \in {"format"} \cup Ready => Pool("volume") \in ldr.held

\* The first n program headers are copied, and nothing outside the segments.
Copied(phdr, ram, n) ==
  /\ \A i \in Loads(phdr) : i <= n =>
       \A a \in Address :
         phdr[i].vaddr <= a /\ a < LoadEnd(phdr[i]) =>
           ram[a] = IF a < phdr[i].vaddr + phdr[i].filesz THEN <<i, a - phdr[i].vaddr>> ELSE Zero
  /\ \A a \in Address : ram[a] # Junk =>
       \E i \in Loads(phdr) : phdr[i].vaddr <= a /\ a < LoadEnd(phdr[i])

CopyInv ==
  /\ ldr.at \in {"start", "open", "kernel", "pages"} =>
       ldr.next = 1 /\ \A a \in Address : ldr.ram[a] = Junk
  /\ ldr.at = "copy" => /\ ldr.next \in Nat /\ ldr.next >= 1
                        /\ Copied(ldr.kernel, ldr.ram, ldr.next - 1)
  /\ ldr.at \in Loaded => Copied(ldr.kernel, ldr.ram, Len(ldr.kernel))

LoaderInv == IsLoader(ldr) /\ KeyInv /\ AreasInv /\ CopyInv

\* A kernel image's program headers.
LEMMA KernelFacts ==
  ASSUME NEW phdr \in Kernels
  PROVE  /\ phdr \in Seq(ProgramHeader) /\ Len(phdr) \in Nat /\ DOMAIN phdr = 1..Len(phdr)
         /\ \A i \in DOMAIN phdr : phdr[i] \in ProgramHeader
         /\ Loads(phdr) \subseteq DOMAIN phdr
         /\ \A i \in Loads(phdr) :
              /\ phdr[i].vaddr \in Nat /\ phdr[i].filesz \in Nat /\ phdr[i].memsz \in Nat
              /\ LoadEnd(phdr[i]) \in Nat /\ LoadEnd(phdr[i]) <= MemoryEnd
              /\ KernelBase <= phdr[i].vaddr /\ phdr[i].filesz <= phdr[i].memsz
              /\ LoadEnd(phdr[i]) = phdr[i].vaddr + phdr[i].memsz
<1>1. phdr \in Seq(ProgramHeader)
  BY KernelsAssumption
<1>2. Len(phdr) \in Nat /\ DOMAIN phdr = 1..Len(phdr) /\ \A i \in DOMAIN phdr : phdr[i] \in ProgramHeader
  BY <1>1, LenProperties, ElementOfSeq
<1>3. Loads(phdr) \subseteq DOMAIN phdr
  BY DEF Loads
<1>4. ASSUME NEW i \in Loads(phdr)
      PROVE  /\ phdr[i].vaddr \in Nat /\ phdr[i].filesz \in Nat /\ phdr[i].memsz \in Nat
             /\ LoadEnd(phdr[i]) \in Nat /\ LoadEnd(phdr[i]) <= MemoryEnd
             /\ KernelBase <= phdr[i].vaddr /\ phdr[i].filesz <= phdr[i].memsz
             /\ LoadEnd(phdr[i]) = phdr[i].vaddr + phdr[i].memsz
  <2>1. phdr[i] \in ProgramHeader
    BY <1>2, <1>3
  <2>2. phdr[i].vaddr \in Nat /\ phdr[i].filesz \in Nat /\ phdr[i].memsz \in Nat
    BY <2>1, MemoryAssumption DEF ProgramHeader
  <2>3. /\ phdr[i].vaddr >= KernelBase /\ phdr[i].filesz <= phdr[i].memsz
        /\ LoadEnd(phdr[i]) <= MemoryEnd
    BY KernelsAssumption
  <2> QED BY <2>2, <2>3, MemoryAssumption DEF LoadEnd
<1> QED BY <1>1, <1>2, <1>3, <1>4

\* The range starts at kernel_base_addr and ends with the last segment.
LEMMA LoadRange ==
  ASSUME NEW phdr \in Kernels
  PROVE  LET r == CalcLoadAddressRange(phdr)
         IN  /\ r.first = KernelBase /\ r.last \in Nat
             /\ \A i \in Loads(phdr) : LoadEnd(phdr[i]) <= r.last
<1> DEFINE S == Loads(phdr)
           starts == {phdr[i].vaddr : i \in S}
           ends == {LoadEnd(phdr[i]) : i \in S}
           first == CHOOSE a \in starts : \A i \in S : a <= phdr[i].vaddr
           last == CHOOSE a \in ends : \A i \in S : a >= LoadEnd(phdr[i])
           room == {MemoryEnd - e : e \in ends}
<1>1. PICK i0 \in S : phdr[i0].vaddr = KernelBase
  BY KernelsAssumption
<1>2. \A i \in S : /\ phdr[i].vaddr \in Nat /\ KernelBase <= phdr[i].vaddr
                   /\ LoadEnd(phdr[i]) \in Nat /\ LoadEnd(phdr[i]) <= MemoryEnd
  BY KernelFacts
<1>3. MemoryEnd \in Nat /\ KernelBase \in Nat
  BY MemoryAssumption
<1>4. first = KernelBase
  <2>1. KernelBase \in starts /\ \A i \in S : KernelBase <= phdr[i].vaddr
    BY <1>1, <1>2
  <2>2. first \in starts /\ \A i \in S : first <= phdr[i].vaddr
    BY <2>1
  <2>3. starts \subseteq Nat
    BY <1>2
  <2>4. first <= KernelBase
    BY <1>1, <2>2
  <2>5. KernelBase <= first
    BY <1>2, <2>2
  <2> HIDE DEF first
  <2> QED BY <1>3, <2>2, <2>3, <2>4, <2>5
<1>5. \E a \in ends : \A i \in S : a >= LoadEnd(phdr[i])
  <2>1. room \subseteq Nat /\ room # {}
    BY <1>1, <1>2, <1>3
  <2>2. \E x \in room : \A y \in room : ~(<<y, x>> \in OpToRel(<, Nat))
    BY <2>1, WFMin, NatLessThanWellFounded
  <2>3. PICK x \in room : \A y \in room : ~(<<y, x>> \in OpToRel(<, Nat))
    BY <2>2
  <2>4. ASSUME NEW y \in room PROVE x <= y
    <3>1. x \in Nat /\ y \in Nat
      BY <2>1
    <3>2. y < x => <<y, x>> \in OpToRel(<, Nat)
      BY <3>1 DEF OpToRel
    <3>3. ~(y < x)
      BY <2>3, <3>2, Zenon
    <3> QED BY <3>1, <3>3
  <2>5. PICK a \in ends : x = MemoryEnd - a
    OBVIOUS
  <2>6. ASSUME NEW i \in S PROVE a >= LoadEnd(phdr[i])
    <3>1. MemoryEnd - a <= MemoryEnd - LoadEnd(phdr[i])
      BY <2>4, <2>5
    <3>2. a \in Nat
      BY <1>2
    <3> QED BY <1>2, <1>3, <3>1, <3>2
  <2> QED BY <2>6
<1>6. last \in ends /\ \A i \in S : last >= LoadEnd(phdr[i])
  BY <1>5
<1>7. last \in Nat
  BY <1>2, <1>6
<1>8. CalcLoadAddressRange(phdr) = [first |-> first, last |-> last]
  BY DEF CalcLoadAddressRange
<1> HIDE DEF first, last
<1>9. \A i \in S : LoadEnd(phdr[i]) <= last
  BY <1>2, <1>6, <1>7
<1> QED BY <1>4, <1>7, <1>8, <1>9

\* Every address of a segment lies in a page of the kernel's area.
LEMMA AreaCovers ==
  ASSUME NEW phdr \in Kernels, NEW a \in Address,
         NEW i \in Loads(phdr), phdr[i].vaddr <= a, a < LoadEnd(phdr[i])
  PROVE  KernelPage(Page(a)) \in KernelArea(phdr)
<1> DEFINE r == CalcLoadAddressRange(phdr)
           num_pages == (r.last - r.first + 1) \div 2
           p == Page(a) - Page(KernelBase)
<1>1. r.first = KernelBase /\ r.last \in Nat /\ LoadEnd(phdr[i]) <= r.last
  BY LoadRange
<1>2. /\ KernelBase \in Nat /\ KernelBase % 2 = 0 /\ a \in Nat /\ KernelBase <= a /\ a < r.last
  <2>1. KernelBase \in Nat /\ KernelBase % 2 = 0 /\ a \in Nat
    BY MemoryAssumption DEF Address
  <2>2. KernelBase <= phdr[i].vaddr /\ phdr[i].vaddr \in Nat /\ LoadEnd(phdr[i]) \in Nat
    BY KernelFacts
  <2> HIDE DEF r
  <2> QED BY <1>1, <2>1, <2>2
<1> HIDE DEF r
<1>3. p \in 0..(num_pages - 1)
  BY <1>1, <1>2 DEF Page
<1>4. Page(a) = Page(KernelBase) + p
  BY <1>2 DEF Page
<1>5. KernelArea(phdr) = {KernelPage(Page(KernelBase) + q) : q \in 0..(num_pages - 1)}
  BY DEF KernelArea, r
<1> HIDE DEF p, num_pages
<1> QED BY <1>3, <1>4, <1>5

\* One program header more.
LEMMA CopiedOneMore ==
  ASSUME NEW phdr \in Kernels, NEW ram, NEW n \in DOMAIN phdr, Copied(phdr, ram, n - 1)
  PROVE  Copied(phdr, CopySegment(ram, n, phdr[n]), n)
<1> DEFINE z == CopySegment(ram, n, phdr[n])
           Inside(a, i) == phdr[i].vaddr <= a /\ a < LoadEnd(phdr[i])
           Byte(a, i) == IF a < phdr[i].vaddr + phdr[i].filesz THEN <<i, a - phdr[i].vaddr>> ELSE Zero
<1>1. /\ n \in Nat /\ Address \subseteq Nat
      /\ Loads(phdr) \subseteq Nat
      /\ \A i \in Loads(phdr) : phdr[i].vaddr \in Nat /\ LoadEnd(phdr[i]) \in Nat
  BY KernelFacts, MemoryAssumption DEF Address
<1>2. n \in Loads(phdr) <=> phdr[n].load
  BY DEF Loads
<1>3. \A a \in Address :
        z[a] = IF n \in Loads(phdr) /\ Inside(a, n) THEN Byte(a, n) ELSE ram[a]
  <2>1. phdr[n] \in ProgramHeader
    BY KernelFacts
  <2>2. phdr[n].vaddr \in Nat /\ LoadEnd(phdr[n]) \in Nat
    BY <2>1, MemoryAssumption DEF ProgramHeader, LoadEnd
  <2>3. \A a \in Address : z[a] = IF ~phdr[n].load \/ a < phdr[n].vaddr \/ a >= LoadEnd(phdr[n])
                                  THEN ram[a] ELSE Byte(a, n)
    BY Zenon DEF CopySegment
  <2> HIDE DEF z, Byte
  <2>4. ASSUME NEW a \in Address
        PROVE  ~phdr[n].load \/ a < phdr[n].vaddr \/ a >= LoadEnd(phdr[n])
                 <=> ~(n \in Loads(phdr) /\ Inside(a, n))
    BY <1>1, <1>2, <2>2
  <2> QED BY <2>3, <2>4, Zenon
<1>4. \A i, j \in Loads(phdr) : \A a \in Address : i # j => ~(Inside(a, i) /\ Inside(a, j))
  <2>1. \A i, j \in Loads(phdr) :
          i # j => LoadEnd(phdr[i]) <= phdr[j].vaddr \/ LoadEnd(phdr[j]) <= phdr[i].vaddr
    BY KernelsAssumption
  <2> QED BY <1>1, <2>1
<1> HIDE DEF z
<1>5. ASSUME NEW i \in Loads(phdr), i <= n, NEW a \in Address, Inside(a, i)
      PROVE  z[a] = Byte(a, i)
  <2>1. CASE i = n
    BY <1>3, <1>5, <2>1
  <2>2. CASE i # n
    <3>1. i <= n - 1
      BY <1>1, <1>5, <2>2
    <3>2. ram[a] = Byte(a, i)
      BY <1>5, <3>1 DEF Copied
    <3>3. ~(n \in Loads(phdr) /\ Inside(a, n))
      BY <1>4, <1>5, <2>2
    <3> QED BY <1>3, <3>2, <3>3
  <2> QED BY <2>1, <2>2
<1>6. ASSUME NEW a \in Address, z[a] # Junk
      PROVE  \E i \in Loads(phdr) : Inside(a, i)
  BY <1>3, <1>6 DEF Copied
<1> QED BY <1>5, <1>6 DEF Copied, z

\* A step that leaves the kernel's image alone.
LEMMA ImageKept ==
  ASSUME LoaderInv, IsLoader(ldr'), KeyInv',
         ldr'.kernel = ldr.kernel, ldr'.next = ldr.next, ldr'.ram = ldr.ram,
         ldr.held \subseteq ldr'.held,
         \/ ldr'.at = ldr.at \/ ldr'.at = "halt"
         \/ ldr.at = "start" /\ ldr'.at = "open"
         \/ ldr.at = "open" /\ ldr'.at = "kernel"
         \/ ldr.at = "volume" /\ ldr'.at = "format" /\ Pool("volume") \in ldr'.held
         \/ ldr.at \in {"format"} \cup Ready /\ ldr'.at \in Ready
  PROVE  LoaderInv'
<1>1. AreasInv'
  BY DEF LoaderInv, AreasInv, Loaded, Ready
<1>2. CopyInv'
  <2>1. \A n : Copied(ldr'.kernel, ldr'.ram, n) <=> Copied(ldr.kernel, ldr.ram, n)
    OBVIOUS
  <2> QED BY <2>1 DEF LoaderInv, CopyInv, Loaded, Ready
<1> QED BY <1>1, <1>2 DEF LoaderInv

\* A new key stands for a new map, whatever is taken.
LEMMA Counted ==
  ASSUME LoaderInv, ldr'.key = ldr.key + 1, ldr'.map = ldr.map,
         ldr'.at \notin {"acpi", "entered"}
  PROVE  KeyInv'
BY DEF LoaderInv, KeyInv

LEMMA FirmwareInv ==
  ASSUME LoaderInv, FirmwareAllocates \/ FirstMemoryMap \/ OpenRootDirAndGOP
  PROVE  LoaderInv'
<1>0. IsLoader(ldr) /\ KeyInv
  BY DEF LoaderInv
<1>1. CASE FirmwareAllocates
  <2>1. /\ ldr.at \notin {"acpi", "entered", "halt"}
        /\ ldr' = [ldr EXCEPT !.held = @ \union {Pool("firmware")}, !.key = @ + 1]
    BY <1>1 DEF FirmwareAllocates, Allocate
  <2>2. /\ IsLoader(ldr') /\ ldr'.at = ldr.at /\ ldr'.key = ldr.key + 1 /\ ldr'.map = ldr.map
        /\ ldr'.kernel = ldr.kernel /\ ldr'.next = ldr.next /\ ldr'.ram = ldr.ram
        /\ ldr'.held = ldr.held \cup {Pool("firmware")}
    BY <1>0, <2>1 DEF IsLoader
  <2>3. KeyInv'
    BY <2>1, <2>2, Counted
  <2> QED BY <2>2, <2>3, ImageKept
<1>2. CASE FirstMemoryMap
  <2>0. ldr.at = "start"
    BY <1>2 DEF FirstMemoryMap
  <2>1. /\ ldr.at = "start"
        /\ \/ ldr' = [[ldr EXCEPT !.map = [key |-> ldr.key, held |-> ldr.held]] EXCEPT !.at = "open"]
           \/ ldr' = [ldr EXCEPT !.at = "open"]
    BY <1>2 DEF FirstMemoryMap, GetMemoryMap
  <2>2. CASE ldr' = [ldr EXCEPT !.at = "open"]
    <3>1. /\ IsLoader(ldr') /\ ldr'.at = "open" /\ ldr'.key = ldr.key /\ ldr'.map = ldr.map
          /\ ldr'.kernel = ldr.kernel /\ ldr'.next = ldr.next /\ ldr'.ram = ldr.ram
          /\ ldr'.held = ldr.held
      BY <1>0, <2>2 DEF IsLoader
    <3>2. KeyInv'
      BY <1>0, <3>1 DEF KeyInv
    <3> QED BY <2>0, <3>1, <3>2, ImageKept
  <2>3. CASE ldr' = [[ldr EXCEPT !.map = [key |-> ldr.key, held |-> ldr.held]] EXCEPT !.at = "open"]
    <3>1. /\ IsLoader(ldr') /\ ldr'.at = "open" /\ ldr'.key = ldr.key
          /\ ldr'.kernel = ldr.kernel /\ ldr'.next = ldr.next /\ ldr'.ram = ldr.ram
          /\ ldr'.held = ldr.held /\ ldr'.map.key = ldr.key /\ ldr'.map.held = ldr.held
      BY <1>0, <2>3 DEF IsLoader
    <3>2. KeyInv'
      BY <1>0, <3>1 DEF KeyInv
    <3> QED BY <2>0, <3>1, <3>2, ImageKept
  <2> QED BY <2>1, <2>2, <2>3
<1>3. CASE OpenRootDirAndGOP
  <2>1. ldr.at = "open" /\ ldr' = [ldr EXCEPT !.at = "kernel", !.key = @ + 1]
    BY <1>3 DEF OpenRootDirAndGOP
  <2>2. /\ IsLoader(ldr') /\ ldr'.at = "kernel" /\ ldr'.key = ldr.key + 1 /\ ldr'.map = ldr.map
        /\ ldr'.kernel = ldr.kernel /\ ldr'.next = ldr.next /\ ldr'.ram = ldr.ram
        /\ ldr'.held = ldr.held
    BY <1>0, <2>1 DEF IsLoader
  <2>3. KeyInv'
    BY <2>2, Counted
  <2> QED BY <2>1, <2>2, <2>3, ImageKept
<1> QED BY <1>1, <1>2, <1>3

LEMMA HaltInv ==
  ASSUME LoaderInv, Halt
  PROVE  LoaderInv'
<1>1. /\ IsLoader(ldr') /\ ldr'.at = "halt" /\ ldr'.key = ldr.key /\ ldr'.map = ldr.map
      /\ ldr'.kernel = ldr.kernel /\ ldr'.next = ldr.next /\ ldr'.ram = ldr.ram
      /\ ldr'.held = ldr.held
  BY DEF Halt, LoaderInv, IsLoader
<1>2. KeyInv'
  BY <1>1 DEF LoaderInv, KeyInv
<1> QED BY <1>1, <1>2, ImageKept

LEMMA ReadKernelFileInv ==
  ASSUME LoaderInv, ReadKernelFile
  PROVE  LoaderInv'
<1> SUFFICES ASSUME ~Halt PROVE LoaderInv'
  BY HaltInv
<1>1. PICK phdr \in Kernels :
        /\ ldr.at = "kernel"
        /\ ldr' = [[ldr EXCEPT !.held = @ \union {Pool("kernel_file")}, !.key = @ + 1]
                     EXCEPT !.at = "pages", !.kernel = phdr]
  BY DEF ReadKernelFile, ReadFile, Allocate
<1>2. /\ IsLoader(ldr') /\ ldr'.at = "pages" /\ ldr'.key = ldr.key + 1 /\ ldr'.map = ldr.map
      /\ ldr'.kernel = phdr /\ ldr'.next = ldr.next /\ ldr'.ram = ldr.ram
      /\ ldr'.held = ldr.held \cup {Pool("kernel_file")}
  BY <1>1 DEF LoaderInv, IsLoader
<1>3. KeyInv'
  BY <1>2, Counted
<1>4. AreasInv' /\ CopyInv'
  BY <1>1, <1>2 DEF LoaderInv, AreasInv, CopyInv, Loaded, Ready
<1> QED BY <1>2, <1>3, <1>4 DEF LoaderInv

LEMMA AllocateKernelAreaInv ==
  ASSUME LoaderInv, AllocateKernelArea
  PROVE  LoaderInv'
<1> SUFFICES ASSUME ~Halt PROVE LoaderInv'
  BY HaltInv
<1>1. /\ ldr.at = "pages"
      /\ ldr' = [[ldr EXCEPT !.held = @ \union KernelArea(ldr.kernel), !.key = @ + 1]
                   EXCEPT !.at = "copy"]
  BY DEF AllocateKernelArea, Allocate, KernelArea
<1>2. /\ IsLoader(ldr') /\ ldr'.at = "copy" /\ ldr'.key = ldr.key + 1 /\ ldr'.map = ldr.map
      /\ ldr'.kernel = ldr.kernel /\ ldr'.next = ldr.next /\ ldr'.ram = ldr.ram
      /\ ldr'.held = ldr.held \cup KernelArea(ldr.kernel)
  BY <1>1 DEF LoaderInv, IsLoader
<1>3. KeyInv'
  BY <1>2, Counted
<1>4. AreasInv'
  BY <1>1, <1>2 DEF LoaderInv, AreasInv, Loaded, Ready
<1>5. CopyInv'
  <2>1. ldr.next = 1 /\ \A a \in Address : ldr.ram[a] = Junk
    BY <1>1 DEF LoaderInv, CopyInv
  <2>2. ldr.kernel \in Kernels
    BY <1>1 DEF LoaderInv, AreasInv
  <2>3. \A i \in Loads(ldr.kernel) : ~(i <= 0)
    BY <2>2, KernelFacts
  <2>4. Copied(ldr.kernel, ldr.ram, 0)
    BY <2>1, <2>3 DEF Copied
  <2>5. 1 - 1 = 0 /\ 1 \in Nat
    OBVIOUS
  <2> QED BY <1>2, <2>1, <2>4, <2>5 DEF CopyInv, Loaded, Ready
<1> QED BY <1>2, <1>3, <1>4, <1>5 DEF LoaderInv

LEMMA CopyLoadSegmentInv ==
  ASSUME LoaderInv, CopyLoadSegment
  PROVE  LoaderInv'
<1>0. /\ IsLoader(ldr) /\ KeyInv /\ ldr.at = "copy" /\ ldr.kernel \in Kernels /\ ldr.next \in Nat
      /\ Copied(ldr.kernel, ldr.ram, ldr.next - 1)
      /\ ldr.next >= 1
  BY DEF LoaderInv, AreasInv, CopyInv, CopyLoadSegment
<1>1. Len(ldr.kernel) \in Nat /\ DOMAIN ldr.kernel = 1..Len(ldr.kernel)
  BY <1>0, KernelFacts
<1>2. CASE ldr.next > Len(ldr.kernel)
  <2>1. ldr' = [ldr EXCEPT !.at = "volume"]
    BY <1>2 DEF CopyLoadSegment
  <2>2. /\ IsLoader(ldr') /\ ldr'.at = "volume" /\ ldr'.key = ldr.key /\ ldr'.map = ldr.map
        /\ ldr'.kernel = ldr.kernel /\ ldr'.ram = ldr.ram /\ ldr'.held = ldr.held
    BY <1>0, <2>1 DEF IsLoader
  <2>3. Copied(ldr.kernel, ldr.ram, Len(ldr.kernel))
    <3>1. \A i \in Loads(ldr.kernel) : i <= ldr.next - 1
      BY <1>0, <1>1, <1>2, KernelFacts
    <3> QED BY <1>0, <3>1 DEF Copied
  <2>4. KeyInv' /\ AreasInv'
    BY <1>0, <2>2 DEF LoaderInv, KeyInv, AreasInv, Loaded, Ready
  <2>5. CopyInv'
    BY <2>2, <2>3 DEF CopyInv, Loaded, Ready
  <2> QED BY <2>2, <2>4, <2>5 DEF LoaderInv
<1>3. CASE ~(ldr.next > Len(ldr.kernel))
  <2> DEFINE n == ldr.next
             ram == CopySegment(ldr.ram, n, ldr.kernel[n])
  <2>1. ldr' = [ldr EXCEPT !.ram = ram, !.next = @ + 1]
    BY <1>3 DEF CopyLoadSegment
  <2>2. Copied(ldr.kernel, ram, n)
    <3>1. n \in DOMAIN ldr.kernel
      BY <1>0, <1>1, <1>3
    <3> QED BY <1>0, <3>1, CopiedOneMore
  <2> HIDE DEF ram
  <2>3. /\ IsLoader(ldr') /\ ldr'.at = "copy" /\ ldr'.key = ldr.key /\ ldr'.map = ldr.map
        /\ ldr'.kernel = ldr.kernel /\ ldr'.ram = ram /\ ldr'.held = ldr.held
        /\ ldr'.next = n + 1
    BY <1>0, <2>1 DEF IsLoader
  <2>4. KeyInv' /\ AreasInv'
    BY <1>0, <2>3 DEF LoaderInv, KeyInv, AreasInv, Loaded, Ready
  <2>5. ldr'.next \in Nat /\ ldr'.next >= 1 /\ ldr'.next - 1 = n
    BY <1>0, <2>3
  <2>6. CopyInv'
    BY <2>2, <2>3, <2>5 DEF CopyInv, Loaded, Ready
  <2> QED BY <2>3, <2>4, <2>6 DEF LoaderInv
<1> QED BY <1>2, <1>3

\* From the volume to the kernel's entry point.
LEMMA LeavingInv ==
  ASSUME LoaderInv,
         ReadVolume \/ SetPixelFormat \/ FirstExit \/ RetryMemoryMap \/ SecondExit \/ CallEntryPoint
  PROVE  LoaderInv'
<1> SUFFICES ASSUME ~Halt PROVE LoaderInv'
  BY HaltInv
<1>0. IsLoader(ldr) /\ KeyInv
  BY DEF LoaderInv
<1>1. CASE ReadVolume
  <2>1. /\ ldr.at = "volume"
        /\ \E name \in {"fat_disk", "boot device"} :
             ldr' = [[ldr EXCEPT !.held = @ \union {Pool("volume")}, !.key = @ + 1]
                       EXCEPT !.at = "format", !.volume = name]
    BY <1>1 DEF ReadVolume, ReadFile, ReadBlocks, Allocate
  <2>2. /\ IsLoader(ldr') /\ ldr'.at = "format" /\ ldr'.key = ldr.key + 1 /\ ldr'.map = ldr.map
        /\ ldr'.kernel = ldr.kernel /\ ldr'.next = ldr.next /\ ldr'.ram = ldr.ram
        /\ ldr'.held = ldr.held \cup {Pool("volume")}
    BY <1>0, <2>1 DEF IsLoader
  <2>3. KeyInv'
    BY <2>2, Counted
  <2> QED BY <2>1, <2>2, <2>3, ImageKept
<1>2. CASE RetryMemoryMap
  <2>1. /\ ldr.at = "retry"
        /\ ldr' = [[ldr EXCEPT !.map = [key |-> ldr.key, held |-> ldr.held]] EXCEPT !.at = "exit2"]
    BY <1>2 DEF RetryMemoryMap, GetMemoryMap
  <2>2. /\ IsLoader(ldr') /\ ldr'.at = "exit2" /\ ldr'.key = ldr.key
        /\ ldr'.kernel = ldr.kernel /\ ldr'.next = ldr.next /\ ldr'.ram = ldr.ram
        /\ ldr'.held = ldr.held /\ ldr'.map.key = ldr.key /\ ldr'.map.held = ldr.held
    BY <1>0, <2>1 DEF IsLoader
  <2>3. KeyInv'
    BY <1>0, <2>2 DEF KeyInv
  <2> QED BY <2>1, <2>2, <2>3, ImageKept DEF Ready
<1>3. ASSUME NEW at, NEW found, ldr' = [ldr EXCEPT !.at = at, !.acpi = found],
             \/ ldr.at \in {"format"} \cup Ready /\ at \in Ready
             \/ at = "halt",
             at \in {"acpi", "entered"} => ldr.map.key = ldr.key
      PROVE  LoaderInv'
  <2>1. /\ IsLoader(ldr') /\ ldr'.at = at /\ ldr'.key = ldr.key /\ ldr'.map = ldr.map
        /\ ldr'.kernel = ldr.kernel /\ ldr'.next = ldr.next /\ ldr'.ram = ldr.ram
        /\ ldr'.held = ldr.held
    BY <1>0, <1>3 DEF IsLoader
  <2>2. KeyInv'
    BY <1>0, <1>3, <2>1 DEF KeyInv
  <2> QED BY <1>3, <2>1, <2>2, ImageKept
<1>4. \A at : [ldr EXCEPT !.at = at] = [ldr EXCEPT !.at = at, !.acpi = ldr.acpi]
  BY <1>0 DEF IsLoader
<1>5. CASE SetPixelFormat
  <2>1. ldr.at = "format" /\ ldr' = [ldr EXCEPT !.at = "exit"]
    BY <1>5 DEF SetPixelFormat
  <2>2. ldr' = [ldr EXCEPT !.at = "exit", !.acpi = ldr.acpi]
    BY <1>4, <2>1
  <2> QED BY <1>3, <2>1, <2>2 DEF Ready
<1>6. CASE FirstExit \/ SecondExit
  <2>1. PICK failed \in {"retry", "halt"} :
          /\ ldr.at \in {"exit", "exit2"}
          /\ ldr' = [ldr EXCEPT !.at = IF ldr.map.key = ldr.key THEN "acpi" ELSE failed]
    BY <1>6 DEF FirstExit, SecondExit, ExitBootServices
  <2>2. ldr' = [ldr EXCEPT !.at = IF ldr.map.key = ldr.key THEN "acpi" ELSE failed,
                           !.acpi = ldr.acpi]
    BY <1>4, <2>1
  <2> QED BY <1>3, <2>1, <2>2 DEF Ready
<1>7. CASE CallEntryPoint
  <2>1. PICK found \in BOOLEAN :
          ldr.at = "acpi" /\ ldr' = [ldr EXCEPT !.at = "entered", !.acpi = found]
    BY <1>7 DEF CallEntryPoint
  <2>2. ldr.map.key = ldr.key
    BY <1>0, <2>1 DEF KeyInv
  <2> QED BY <1>3, <2>1, <2>2 DEF Ready
<1> QED BY <1>1, <1>2, <1>5, <1>6, <1>7

-----------------------------------------------------------------------------
(* The whole boot.                                                         *)

\* The inductive invariant.
IInv == LoaderInv /\ TimerInv /\ ControllerInv

\* The loader's variables before the loader and after it.
LEMMA LoaderStateInv ==
  ASSUME NEW at \in {"start", "left"}, NEW key \in {0, 1}, NEW l,
         l = LoaderState(at, key) \/ \E found : l = [LoaderState(at, key) EXCEPT !.acpi = found]
  PROVE  /\ IsLoader(l) /\ l.at = at /\ l.key = key /\ l.held = {}
         /\ l.map.key = 0 /\ l.map.held = {} /\ l.next = 1
         /\ \A a \in Address : l.ram[a] = Junk
<1> DEFINE z == LoaderState(at, key)
<1>1. z = [at |-> at, key |-> key, held |-> {}, map |-> [key |-> 0, held |-> {}], kernel |-> <<>>,
           next |-> 1, ram |-> [a \in Address |-> Junk], volume |-> "none", acpi |-> FALSE]
  BY DEF LoaderState
<1> HIDE DEF z
<1>2. /\ IsLoader(z) /\ z.at = at /\ z.key = key /\ z.held = {}
      /\ z.map.key = 0 /\ z.map.held = {} /\ z.next = 1 /\ z.ram = [a \in Address |-> Junk]
  BY <1>1 DEF IsLoader
<1>3. CASE l = z
  BY <1>2, <1>3
<1>4. ASSUME NEW found, l = [z EXCEPT !.acpi = found]
      PROVE  /\ IsLoader(l) /\ l.at = z.at /\ l.key = z.key /\ l.held = z.held
             /\ l.map = z.map /\ l.next = z.next /\ l.ram = z.ram
  BY <1>2, <1>4 DEF IsLoader
<1>5. l = z \/ \E found : l = [z EXCEPT !.acpi = found]
  BY DEF z
<1> QED BY <1>2, <1>3, <1>4, <1>5

LEMMA InitInv == Init => IInv
<1> SUFFICES ASSUME Init PROVE IInv
  OBVIOUS
<1>1. LoaderInv
  <2>1. ldr = LoaderState("start", 1)
    BY DEF Init, LoaderInit
  <2>2. /\ IsLoader(ldr) /\ ldr.at = "start" /\ ldr.key = 1 /\ ldr.held = {}
        /\ ldr.map.key = 0 /\ ldr.map.held = {} /\ ldr.next = 1
        /\ \A a \in Address : ldr.ram[a] = Junk
    BY <2>1, LoaderStateInv
  <2> QED BY <2>2 DEF LoaderInv, KeyInv, AreasInv, CopyInv, Loaded, Ready
<1>2. TimerInv
  BY NotWaitingInv DEF Init, AcpiInit, TimerInv
<1>3. ControllerInv
  BY ControllersInv DEF Init
<1> QED BY <1>1, <1>2, <1>3 DEF IInv

LEMMA NextInv == IInv /\ [Next]_vars => IInv'
<1> SUFFICES ASSUME IInv, [Next]_vars PROVE IInv'
  OBVIOUS
<1>0. LoaderInv /\ TimerInv /\ ControllerInv
  BY DEF IInv
<1>l. ldr' = ldr => LoaderInv'
  BY <1>0 DEF LoaderInv, KeyInv, AreasInv, CopyInv
<1>t. pm' = pm => TimerInv'
  BY <1>0 DEF TimerInv
<1>c. hc' = hc => ControllerInv'
  BY <1>0 DEF ControllerInv, OwnerInv, SetupInv
<1>1. CASE Load
  <2>1. LoaderNext /\ UNCHANGED <<pm, hc>>
    BY <1>1 DEF Load
  <2>2. LoaderInv'
    BY <1>0, <2>1, FirmwareInv, ReadKernelFileInv, AllocateKernelAreaInv, CopyLoadSegmentInv,
       LeavingInv DEF LoaderNext
  <2> QED BY <1>t, <1>c, <2>1, <2>2 DEF IInv
<1>2. CASE EnterKernel
  <2>1. ldr' = [LoaderState("left", 0) EXCEPT !.acpi = ldr.acpi] /\ UNCHANGED <<pm, hc>>
    BY <1>2 DEF EnterKernel
  <2>2. /\ IsLoader(ldr') /\ ldr'.at = "left" /\ ldr'.key = 0 /\ ldr'.held = {}
        /\ ldr'.map.key = 0 /\ ldr'.map.held = {}
    BY <2>1, LoaderStateInv
  <2>3. LoaderInv'
    BY <2>2 DEF LoaderInv, KeyInv, AreasInv, CopyInv, Loaded, Ready
  <2> QED BY <1>t, <1>c, <2>1, <2>3 DEF IInv
<1>3. CASE InitializePCI \/ ScanPCI \/ ReturnFromPCI
  BY <1>l, <1>t, <1>c, <1>3 DEF InitializePCI, ScanPCI, ReturnFromPCI, IInv
<1>4. CASE InitializeACPI
  <2>1. /\ \E rsdp, xsdt, fadt \in BOOLEAN : AcpiInitialize(rsdp, xsdt, fadt)
        /\ UNCHANGED <<ldr, hc>>
    BY <1>4 DEF InitializeACPI
  <2>2. TimerInv'
    BY <1>0, <2>1, AcpiInitializeInv
  <2> QED BY <1>l, <1>c, <2>1, <2>2 DEF IInv
<1>5. CASE InitializeAPICTimer
  <2>1. WaitNext /\ UNCHANGED <<ldr, hc>>
    BY <1>5 DEF InitializeAPICTimer
  <2>2. TimerInv'
    BY <1>0, <2>1, WaitMillisecondsInv, PollOverflowedInv, PollCountingInv DEF WaitNext
  <2> QED BY <1>l, <1>c, <2>1, <2>2 DEF IInv
<1>6. CASE InitializeXhci
  <2>1. pm' = NotWaiting("over") /\ ldr' = ldr /\ (hc' = hc \/ hc' \in Controllers)
    BY <1>6 DEF InitializeXhci
  <2>2. TimerInv'
    BY <2>1, NotWaitingInv DEF TimerInv
  <2>3. ControllerInv'
    <3>1. hc' \in Controllers => ControllerInv'
      <4>1. (hc \in Controllers \/ hc = Unread => ControllerInv)'
        BY ControllersInv, PTL
      <4> QED BY <4>1
    <3> QED BY <1>c, <2>1, <3>1
  <2> QED BY <1>l, <2>1, <2>2, <2>3 DEF IInv
<1>7. CASE StartXhci
  <2>1. KernelNext /\ UNCHANGED <<ldr, pm>>
    BY <1>7 DEF StartXhci
  <2>2. ControllerInv'
    BY <1>0, <2>1, StoppingInv, StartingInv DEF KernelNext
  <2> QED BY <1>l, <1>t, <2>1, <2>2 DEF IInv
<1>8. CASE Hardware
  <2>1. HardwareNext /\ UNCHANGED <<ldr, pm>>
    BY <1>8 DEF Hardware
  <2>2. ControllerInv'
    BY <1>0, <2>1, HardwareInv
  <2> QED BY <1>l, <1>t, <2>1, <2>2 DEF IInv
<1>9. CASE Rest \/ UNCHANGED vars
  BY <1>l, <1>t, <1>c, <1>9 DEF Rest, vars, IInv
<1> QED BY <1>1, <1>2, <1>3, <1>4, <1>5, <1>6, <1>7, <1>8, <1>9 DEF Next

\* The inductive invariant holds of every boot.
THEOREM InvariantHolds == Spec => []IInv
BY InitInv, NextInv, PTL DEF Spec

\* WaitMilliseconds is never early, and late by less than two reads unless its
\* end lies at the very top of the counter: for every wait shorter than a
\* round, every start of the counter, and both of its widths.
THEOREM WaitAccurateHolds == Spec => []WaitAccurate
<1>1. IInv => WaitAccurate
  BY DEF IInv, TimerInv, Accurate, WaitAccurate
<1> QED BY <1>1, InvariantHolds, PTL

\* However long the firmware and the controller take, the controller is reset
\* only when halted and released, and runs only with its set-up complete.
THEOREM ControllerReadyHolds == Spec => []ControllerReady
<1>1. IInv => ControllerReady
  <2> SUFFICES ASSUME IInv PROVE ControllerReady
    OBVIOUS
  <2>1. ControllerInv
    BY DEF IInv
  <2>2. hc.reset => hc.halted /\ ~hc.bios
    BY <2>1 DEF ControllerInv, OwnerInv, Owned
  <2>3. hc.at \in {"starting", "running"} =>
          /\ ~hc.bios
          /\ hc.written = Range(SetupOrder) \ (IF hc.scratchpad THEN {} ELSE {"SCRATCHPAD"})
    BY <2>1, SetupNames DEF ControllerInv, OwnerInv, SetupInv, Owned, Written
  <2> QED BY <2>2, <2>3 DEF ControllerReady
<1> QED BY <1>1, InvariantHolds, PTL

\* Every kernel image, however the firmware's memory map moves meanwhile, is
\* handed over whole, with a memory map that knows all that is in use.
THEOREM KernelHandoverHolds == Spec => []KernelHandover
<1>1. IInv => KernelHandover
  <2> SUFFICES ASSUME IInv, ldr.at = "entered"
               PROVE  /\ ldr.map.held = ldr.held
                      /\ {Pool("kernel_file"), Pool("volume")} \subseteq ldr.map.held
                      /\ \A i \in Loads(ldr.kernel) :
                           LET ph == ldr.kernel[i] IN
                           \A n \in 0..(ph.memsz - 1) :
                             ldr.ram[ph.vaddr + n] = IF n < ph.filesz THEN <<i, n>> ELSE Zero
                      /\ \A a \in Address : ldr.ram[a] # Junk =>
                           KernelPage(Page(a)) \in ldr.map.held
    BY DEF KernelHandover
  <2> DEFINE phdr == ldr.kernel
  <2>1. /\ ldr.map.held = ldr.held /\ phdr \in Kernels
        /\ Pool("kernel_file") \in ldr.held /\ Pool("volume") \in ldr.held
        /\ KernelArea(phdr) \subseteq ldr.held
        /\ Copied(phdr, ldr.ram, Len(phdr))
    BY DEF IInv, LoaderInv, KeyInv, AreasInv, CopyInv, Loaded, Ready
  <2> HIDE DEF phdr
  <2>2. ASSUME NEW i \in Loads(phdr), NEW n \in 0..(phdr[i].memsz - 1)
        PROVE  ldr.ram[phdr[i].vaddr + n] = IF n < phdr[i].filesz THEN <<i, n>> ELSE Zero
    <3> DEFINE a == phdr[i].vaddr + n
    <3>1. /\ i \in 1..Len(phdr) /\ Len(phdr) \in Nat
          /\ phdr[i].vaddr \in Nat /\ phdr[i].filesz \in Nat /\ phdr[i].memsz \in Nat
          /\ LoadEnd(phdr[i]) = phdr[i].vaddr + phdr[i].memsz
          /\ LoadEnd(phdr[i]) <= MemoryEnd /\ MemoryEnd \in Nat
      BY <2>1, KernelFacts, MemoryAssumption
    <3>2. /\ a \in Address /\ phdr[i].vaddr <= a /\ a < LoadEnd(phdr[i]) /\ i <= Len(phdr)
          /\ a - phdr[i].vaddr = n /\ (a < phdr[i].vaddr + phdr[i].filesz <=> n < phdr[i].filesz)
      <4> DEFINE v == phdr[i].vaddr
                 m == phdr[i].memsz
                 f == phdr[i].filesz
                 e == LoadEnd(phdr[i])
      <4>1. v \in Nat /\ m \in Nat /\ f \in Nat /\ n \in 0..(m - 1) /\ e = v + m /\ e <= MemoryEnd
        BY <3>1
      <4> HIDE DEF v, m, f, e
      <4>2. /\ v + n \in 0..MemoryEnd /\ v <= v + n /\ v + n < e
            /\ (v + n) - v = n /\ (v + n < v + f <=> n < f)
        BY <3>1, <4>1
      <4> QED BY <3>1, <4>2 DEF Address, v, m, f, e
    <3> HIDE DEF a
    <3>3. ldr.ram[a] = IF a < phdr[i].vaddr + phdr[i].filesz THEN <<i, a - phdr[i].vaddr>> ELSE Zero
      BY <2>1, <3>2 DEF Copied
    <3>4. ldr.ram[a] = IF n < phdr[i].filesz THEN <<i, n>> ELSE Zero
      BY <3>2, <3>3
    <3> QED BY <3>4 DEF a
  <2>3. ASSUME NEW a \in Address, ldr.ram[a] # Junk
        PROVE  KernelPage(Page(a)) \in ldr.held
    BY <2>1, <2>3, AreaCovers DEF Copied
  <2> QED BY <2>1, <2>2, <2>3 DEF phdr
<1> QED BY <1>1, InvariantHolds, PTL
-----------------------------------------------------------------------------
(* The scan of the PCI bus: what is found is what lies behind it.          *)

PciRecord == [devices : Seq([at : Place, class : Class]), err : {"kSuccess", "kFull"},
              calls : Seq(Place), root : Nat, xhc : Nat,
              msi : {"none", "kSuccess", "kNotImplemented", "kNoPCIMSI"}, routed : BOOLEAN]

Found == {pci.devices[i].at : i \in DOMAIN pci.devices}

\* A function is before the place a call of ScanBus is at.
Before(p, at) == p[2] < at[2] \/ (p[2] = at[2] /\ p[3] < at[3])

\* ScanBus has been called for the bus ...
Entered(b) ==
  \/ b \in RootBuses(mach) /\ b < pci.root
  \/ \E q \in Bridges(mach) : q \in Found /\ mach[q].secondary = b

\* ... and is past the function.
Passed(p) ==
  /\ Entered(p[1])
  /\ \A i \in DOMAIN pci.calls : pci.calls[i][1] = p[1] => Before(p, pci.calls[i])

ScanTyped ==
  /\ mach \in Machines /\ pci \in PciRecord
  /\ \A i \in DOMAIN pci.devices :
       pci.devices[i].at \in DOMAIN mach /\ pci.devices[i].class = mach[pci.devices[i].at].class
  /\ \A i \in DOMAIN pci.calls : pci.calls[i][2] <= DeviceMax /\ pci.calls[i][3] < FunctionMax
  /\ pci.root <= FunctionMax
  /\ IsSingleFunctionDevice(mach[<<0, 0, 0>>]) => pci.root = FunctionMax

\* The calls under way are for different buses.
CallsInv ==
  /\ \A i, j \in DOMAIN pci.calls : pci.calls[i][1] = pci.calls[j][1] => i = j
  /\ \A i \in DOMAIN pci.calls : Entered(pci.calls[i][1])

TableInv ==
  /\ \A i, j \in DOMAIN pci.devices : pci.devices[i].at = pci.devices[j].at => i = j
  /\ Len(pci.devices) <= TableSize
  /\ pci.err = "kSuccess" => \A p \in DOMAIN mach : p \in Found <=> Passed(p)
  /\ pci.err = "kFull" => /\ ScanOver /\ Len(pci.devices) = TableSize
                          /\ \E p \in DOMAIN mach : p \notin Found

ScanInv == ScanTyped /\ CallsInv /\ TableInv

\* The parts of WellFormed, for the machine that is scanned.
LEMMA MachineFacts ==
  ASSUME mach \in Machines
  PROVE  /\ DOMAIN mach \subseteq Place /\ IsFiniteSet(DOMAIN mach) /\ <<0, 0, 0>> \in DOMAIN mach
         /\ \A p \in DOMAIN mach :
              /\ mach[p] \in Function
              /\ p[1] \in Nat /\ p[2] \in Nat /\ p[3] \in Nat /\ p = <<p[1], p[2], p[3]>>
              /\ p[2] < DeviceMax /\ p[3] < FunctionMax
              /\ <<p[1], p[2], 0>> \in DOMAIN mach
              /\ p[3] = 0 => mach[p].multi = (\E q \in DOMAIN mach : q[1] = p[1] /\ q[2] = p[2] /\ q[3] > 0)
              /\ p[1] \in RootBuses(mach) \/ \E q \in Bridges(mach) : mach[q].secondary = p[1]
         /\ \A p \in Bridges(mach) : /\ mach[p].secondary \in Nat /\ mach[p].secondary > p[1]
                                     /\ mach[p].secondary \notin RootBuses(mach)
         /\ \A p, q \in Bridges(mach) : mach[p].secondary = mach[q].secondary => p = q
<1>1. WellFormed(mach)
  BY MachinesAssumption
<1>2. \A p \in DOMAIN mach : p \in Place
  BY <1>1 DEF WellFormed
<1>3. \A p \in Place : p[1] \in Nat /\ p[2] \in Nat /\ p[3] \in Nat /\ p = <<p[1], p[2], p[3]>>
  BY DEF Place
<1>4. \A p \in Bridges(mach) : p \in DOMAIN mach
  BY DEF Bridges
<1>5. \A p \in DOMAIN mach : mach[p].secondary \in Nat
  BY <1>1 DEF WellFormed, Function
<1> QED BY <1>1, <1>2, <1>3, <1>4, <1>5 DEF WellFormed

\* Where the innermost call is.
LEMMA AtFacts ==
  ASSUME ScanTyped, pci.calls # <<>>
  PROVE  /\ Len(pci.calls) \in DOMAIN pci.calls /\ Len(pci.calls) \in Nat /\ Len(pci.calls) >= 1
         /\ DOMAIN pci.calls = 1 .. Len(pci.calls)
         /\ At = pci.calls[Len(pci.calls)] /\ At \in Place
         /\ At[1] \in Nat /\ At[2] \in Nat /\ At[3] \in Nat /\ At = <<At[1], At[2], At[3]>>
         /\ At[2] <= DeviceMax /\ At[3] < FunctionMax
<1>1. pci.calls \in Seq(Place)
  BY DEF ScanTyped, PciRecord
<1>2. /\ Len(pci.calls) \in DOMAIN pci.calls /\ Len(pci.calls) \in Nat /\ Len(pci.calls) >= 1
      /\ DOMAIN pci.calls = 1 .. Len(pci.calls) /\ pci.calls[Len(pci.calls)] \in Place
  BY <1>1
<1>3. At = pci.calls[Len(pci.calls)]
  BY DEF At
<1>4. At[2] <= DeviceMax /\ At[3] < FunctionMax
  BY <1>2, <1>3 DEF ScanTyped
<1>5. \A p \in Place : p[1] \in Nat /\ p[2] \in Nat /\ p[3] \in Nat /\ p = <<p[1], p[2], p[3]>>
  BY DEF Place
<1> QED BY <1>2, <1>3, <1>4, <1>5

\* Moving on passes exactly the function the call was at, if it is there.
LEMMA MovedOnFacts ==
  ASSUME ScanTyped, pci.calls # <<>>, At[2] < DeviceMax, NEW alone \in BOOLEAN,
         alone => \A q \in DOMAIN mach : ~(q[1] = At[1] /\ q[2] = At[2] /\ q[3] > At[3])
  PROVE  LET n == Len(pci.calls)
             moved == MovedOn(alone)
         IN  /\ moved \in Seq(Place) /\ Len(moved) = n
             /\ \A i \in 1 .. n - 1 : moved[i] = pci.calls[i]
             /\ moved[n][1] = At[1] /\ moved[n][2] <= DeviceMax /\ moved[n][3] < FunctionMax
             /\ \A p \in DOMAIN mach : p[1] = At[1] =>
                  (Before(p, moved[n]) <=> Before(p, At) \/ p = At)
<1> DEFINE n == Len(pci.calls)
           next == IF alone \/ At[3] + 1 = FunctionMax THEN <<At[1], At[2] + 1, 0>>
                                                      ELSE <<At[1], At[2], At[3] + 1>>
           moved == MovedOn(alone)
<1>1. /\ n \in DOMAIN pci.calls /\ n \in Nat /\ n >= 1 /\ DOMAIN pci.calls = 1 .. n
      /\ At[1] \in Nat /\ At[2] \in Nat /\ At[3] \in Nat /\ At = <<At[1], At[2], At[3]>>
      /\ At[2] <= DeviceMax /\ At[3] < FunctionMax
  BY AtFacts
<1>2. pci.calls \in Seq(Place) /\ FunctionMax \in Nat \ {0} /\ DeviceMax \in Nat
  BY PciAssumption DEF ScanTyped, PciRecord
<1>3. moved = [pci.calls EXCEPT ![n] = next]
  BY DEF MovedOn
<1>4. /\ next \in Place /\ next[1] = At[1] /\ next[2] <= DeviceMax /\ next[3] < FunctionMax
  <2>1. CASE alone \/ At[3] + 1 = FunctionMax
    <3>1. next = <<At[1], At[2] + 1, 0>>
      BY <2>1
    <3> HIDE DEF next
    <3>2. At[2] + 1 \in Nat /\ At[2] + 1 <= DeviceMax /\ 0 < FunctionMax /\ At[1] \in Nat
      BY <1>1, <1>2
    <3>3. next[1] = At[1] /\ next[2] = At[2] + 1 /\ next[3] = 0
      BY <3>1
    <3>4. next \in Place
      BY <3>1, <3>2 DEF Place
    <3> QED BY <3>2, <3>3, <3>4
  <2>2. CASE ~(alone \/ At[3] + 1 = FunctionMax)
    <3>1. next = <<At[1], At[2], At[3] + 1>>
      BY <2>2
    <3> HIDE DEF next
    <3>2. At[3] + 1 \in Nat /\ At[3] + 1 < FunctionMax
      BY <1>1, <1>2, <2>2
    <3> QED BY <1>1, <1>2, <3>1, <3>2 DEF Place
  <2> QED BY <2>1, <2>2
<1>5. ASSUME NEW p \in DOMAIN mach, p[1] = At[1]
      PROVE  Before(p, next) <=> Before(p, At) \/ p = At
  <2>1. /\ p[2] \in Nat /\ p[3] \in Nat /\ p = <<p[1], p[2], p[3]>> /\ p[3] < FunctionMax
        /\ alone /\ p[2] = At[2] => ~(p[3] > At[3])
    BY <1>5, MachineFacts DEF ScanTyped
  <2>2. p = At <=> p[2] = At[2] /\ p[3] = At[3]
    BY <1>1, <1>5, <2>1
  <2>3. CASE alone \/ At[3] + 1 = FunctionMax
    <3>1. next[2] = At[2] + 1 /\ next[3] = 0
      BY <2>3
    <3> HIDE DEF next
    <3> QED BY <1>1, <1>2, <2>1, <2>2, <2>3, <3>1 DEF Before
  <2>4. CASE ~(alone \/ At[3] + 1 = FunctionMax)
    <3>1. next[2] = At[2] /\ next[3] = At[3] + 1
      BY <2>4
    <3> HIDE DEF next
    <3> QED BY <1>1, <1>2, <2>1, <2>2, <3>1 DEF Before
  <2> QED BY <2>3, <2>4
<1> HIDE DEF next
<1>6. moved \in Seq(Place) /\ Len(moved) = n /\ moved[n] = next
      /\ \A i \in 1 .. n - 1 : moved[i] = pci.calls[i]
  BY <1>1, <1>2, <1>3, <1>4
<1> QED BY <1>4, <1>5, <1>6

\* A step that leaves the table as it is.
LEMMA SameFound ==
  ASSUME pci'.devices = pci.devices, mach' = mach
  PROVE  /\ Found' = Found /\ Bridges(mach)' = Bridges(mach) /\ RootBuses(mach)' = RootBuses(mach)
         /\ pci'.root = pci.root => \A b : Entered(b)' <=> Entered(b)
BY DEF Found, Entered, Bridges, RootBuses

\* When a call has come to the end of its bus, all functions there are passed.
LEMMA ReturnFromBusInv ==
  ASSUME ScanInv, ReturnFromBus
  PROVE  ScanInv'
<1> DEFINE n == Len(pci.calls)
<1>1. ScanTyped /\ CallsInv /\ TableInv /\ pci.calls # <<>> /\ At[2] = DeviceMax
  BY DEF ScanInv, ReturnFromBus
<1>2. /\ n \in DOMAIN pci.calls /\ n \in Nat /\ n >= 1 /\ DOMAIN pci.calls = 1 .. n
      /\ At = pci.calls[n] /\ At[1] \in Nat /\ At[2] \in Nat /\ At[3] \in Nat
  BY <1>1, AtFacts
<1>3. /\ mach' = mach /\ pci' = [pci EXCEPT !.calls = SubSeq(@, 1, n - 1)]
      /\ pci \in PciRecord /\ pci.calls \in Seq(Place)
  BY <1>1 DEF ReturnFromBus, ScanTyped, PciRecord
<1>4. /\ pci'.calls \in Seq(Place) /\ Len(pci'.calls) = n - 1 /\ DOMAIN pci'.calls = 1 .. n - 1
      /\ \A i \in 1 .. n - 1 : pci'.calls[i] = pci.calls[i]
  <2>1. pci'.calls = SubSeq(pci.calls, 1, n - 1)
    BY <1>3 DEF PciRecord
  <2> QED BY <1>2, <1>3, <2>1
<1>5. /\ pci' \in PciRecord /\ pci'.devices = pci.devices /\ pci'.err = pci.err
      /\ pci'.root = pci.root
  BY <1>3, <1>4 DEF PciRecord
<1>6. \A b : Entered(b)' <=> Entered(b)
  BY <1>3, <1>5, SameFound
<1>7. ScanTyped'
  BY <1>1, <1>2, <1>3, <1>4, <1>5 DEF ScanTyped
<1>a. /\ \A i \in 1 .. n - 1 : i \in 1 .. n /\ i # n
      /\ \A i \in 1 .. n : i = n \/ i \in 1 .. n - 1
  BY <1>2
<1>8. CallsInv'
  <2>1. ASSUME NEW i \in 1 .. n - 1, NEW j \in 1 .. n - 1, pci'.calls[i][1] = pci'.calls[j][1]
        PROVE  i = j
    BY <1>1, <1>2, <1>4, <1>a, <2>1 DEF CallsInv
  <2>2. ASSUME NEW i \in 1 .. n - 1
        PROVE  Entered(pci.calls[i][1])
    BY <1>1, <1>2, <1>a DEF CallsInv
  <2> QED BY <1>4, <1>6, <2>1, <2>2 DEF CallsInv
<1>9. ASSUME NEW p \in DOMAIN mach
      PROVE  Passed(p)' <=> Passed(p)
  <2>1. p[1] = At[1] => Before(p, At)
    BY <1>1, MachineFacts DEF ScanTyped, Before
  <2>2. Entered(p[1])' <=> Entered(p[1])
    BY <1>6
  <2>3. (\A i \in 1 .. n : pci.calls[i][1] = p[1] => Before(p, pci.calls[i])) <=>
        (\A i \in 1 .. n - 1 : pci.calls[i][1] = p[1] => Before(p, pci.calls[i]))
    BY <1>2, <1>a, <2>1
  <2>4. ASSUME NEW i \in 1 .. n - 1
        PROVE  (pci.calls[i][1] = p[1] => Before(p, pci.calls[i]))' <=>
               (pci.calls[i][1] = p[1] => Before(p, pci.calls[i]))
    BY <1>4 DEF Before
  <2> QED BY <1>2, <1>4, <2>2, <2>3, <2>4 DEF Passed
<1>10. TableInv'
  <2>1. pci.err = "kFull" => FALSE
    BY <1>1 DEF TableInv, ScanOver
  <2>2. Found' = Found
    BY <1>3, <1>5, SameFound
  <2> QED BY <1>1, <1>3, <1>5, <1>9, <2>1, <2>2 DEF TableInv
<1> QED BY <1>7, <1>8, <1>10 DEF ScanInv

\* When nothing answers, nothing is passed.
LEMMA PassOverInv ==
  ASSUME ScanInv, PassOver
  PROVE  ScanInv'
<1> DEFINE n == Len(pci.calls)
           moved == MovedOn(At[3] = 0)
<1>1. /\ ScanTyped /\ CallsInv /\ TableInv /\ pci.calls # <<>> /\ At[2] < DeviceMax
      /\ At \notin DOMAIN mach
  BY DEF ScanInv, PassOver, IsPresent
<1>2. /\ n \in DOMAIN pci.calls /\ n \in Nat /\ n >= 1 /\ DOMAIN pci.calls = 1 .. n
      /\ At = pci.calls[n] /\ At[1] \in Nat /\ At[2] \in Nat /\ At[3] \in Nat
      /\ At = <<At[1], At[2], At[3]>>
  BY <1>1, AtFacts
<1>3. At[3] = 0 => \A q \in DOMAIN mach : ~(q[1] = At[1] /\ q[2] = At[2] /\ q[3] > At[3])
  <2> SUFFICES ASSUME At[3] = 0, NEW q \in DOMAIN mach, q[1] = At[1], q[2] = At[2] PROVE FALSE
    OBVIOUS
  <2>1. <<q[1], q[2], 0>> \in DOMAIN mach
    BY <1>1, MachineFacts DEF ScanTyped
  <2> QED BY <1>1, <1>2, <2>1
<1>4. /\ moved \in Seq(Place) /\ Len(moved) = n
      /\ \A i \in 1 .. n - 1 : moved[i] = pci.calls[i]
      /\ moved[n][1] = At[1] /\ moved[n][2] <= DeviceMax /\ moved[n][3] < FunctionMax
      /\ \A p \in DOMAIN mach : p[1] = At[1] => (Before(p, moved[n]) <=> Before(p, At) \/ p = At)
  <2>1. (At[3] = 0) \in BOOLEAN
    OBVIOUS
  <2> QED BY <1>1, <1>3, <2>1, MovedOnFacts
<1>5. mach' = mach /\ pci' = [pci EXCEPT !.calls = moved] /\ pci \in PciRecord
  BY <1>1 DEF PassOver, ScanTyped
<1> HIDE DEF moved
<1>6. /\ pci' \in PciRecord /\ pci'.devices = pci.devices /\ pci'.err = pci.err
      /\ pci'.root = pci.root /\ pci'.calls = moved
  BY <1>4, <1>5 DEF PciRecord
<1>7. \A i \in 1 .. n : moved[i][1] = pci.calls[i][1] /\ (i = n \/ moved[i] = pci.calls[i])
  BY <1>2, <1>4
<1>8. DOMAIN moved = 1 .. n
  BY <1>4
<1>9. \A b : Entered(b)' <=> Entered(b)
  BY <1>5, <1>6, SameFound
<1>10. ScanTyped'
  BY <1>1, <1>2, <1>4, <1>5, <1>6, <1>7, <1>8 DEF ScanTyped
<1>11. CallsInv'
  BY <1>1, <1>2, <1>6, <1>7, <1>8, <1>9 DEF CallsInv
<1>12. ASSUME NEW p \in DOMAIN mach
       PROVE  Passed(p)' <=> Passed(p)
  <2>1. p # At
    BY <1>1
  <2>2. \A i \in 1 .. n : moved[i][1] = p[1] =>
          (Before(p, moved[i]) <=> Before(p, pci.calls[i]))
    BY <1>2, <1>4, <1>7, <2>1
  <2>3. Entered(p[1])' <=> Entered(p[1])
    BY <1>9
  <2>4. Passed(p) <=> /\ Entered(p[1])
                      /\ \A i \in 1 .. n : moved[i][1] = p[1] => Before(p, moved[i])
    BY <1>2, <1>7, <2>2 DEF Passed
  <2>5. Passed(p)' <=> /\ Entered(p[1])'
                       /\ \A i \in 1 .. n : moved[i][1] = p[1] => Before(p, moved[i])
    BY <1>6, <1>8 DEF Passed, Before
  <2> QED BY <2>3, <2>4, <2>5
<1>13. TableInv'
  <2>1. pci.err = "kFull" => FALSE
    BY <1>1 DEF TableInv, ScanOver
  <2>2. Found' = Found
    BY <1>5, <1>6, SameFound
  <2> QED BY <1>1, <1>5, <1>6, <1>12, <2>1, <2>2 DEF TableInv
<1> QED BY <1>10, <1>11, <1>13 DEF ScanInv

\* A root bus is entered once, and nothing on it is passed yet.
LEMMA ScanRootBusInv ==
  ASSUME ScanInv, ScanRootBus
  PROVE  ScanInv'
<1> DEFINE r == pci.root
           here == <<0, 0, r>> \in DOMAIN mach
<1>1. /\ ScanTyped /\ CallsInv /\ TableInv /\ pci.calls = <<>> /\ pci \in PciRecord
      /\ r \in Nat /\ r < FunctionMax /\ FunctionMax \in Nat \ {0} /\ DeviceMax \in Nat
      /\ mach \in Machines
  BY PciAssumption DEF ScanInv, ScanRootBus, ScanTyped, PciRecord
<1>2. /\ mach' = mach
      /\ pci' = [pci EXCEPT !.root = r + 1, !.calls = IF here THEN << <<r, 0, 0>> >> ELSE <<>>]
  BY DEF ScanRootBus, IsPresent
<1>3. <<r, 0, 0>> \in Place /\ << <<r, 0, 0>> >> \in Seq(Place) /\ <<>> \in Seq(Place)
  BY <1>1 DEF Place
<1>4. /\ pci'.devices = pci.devices /\ pci'.err = pci.err /\ pci'.root = r + 1
      /\ pci'.calls = (IF here THEN << <<r, 0, 0>> >> ELSE <<>>)
      /\ pci' \in PciRecord
  <2> DEFINE c == IF here THEN << <<r, 0, 0>> >> ELSE <<>>
  <2>1. c \in Seq(Place) /\ r + 1 \in Nat /\ pci' = [pci EXCEPT !.root = r + 1, !.calls = c]
    BY <1>1, <1>2, <1>3
  <2> HIDE DEF c
  <2>2. /\ pci'.devices = pci.devices /\ pci'.err = pci.err /\ pci'.root = r + 1
        /\ pci'.calls = c /\ pci' \in PciRecord
    BY <1>1, <2>1 DEF PciRecord
  <2> QED BY <2>2 DEF c
<1>5. /\ RootBuses(mach) = {f \in 0..(FunctionMax - 1) : <<0, 0, f>> \in DOMAIN mach}
      /\ ~IsSingleFunctionDevice(mach[<<0, 0, 0>>])
  BY <1>1 DEF ScanTyped, RootBuses
<1>6. (r \in RootBuses(mach) <=> here) /\ \A b \in RootBuses(mach) : b \in Nat
  BY <1>1, <1>5
<1>7. ~Entered(r) \/ ~here
  BY <1>1, <1>6, MachineFacts DEF Entered
<1>8. /\ Found' = Found /\ Bridges(mach)' = Bridges(mach) /\ RootBuses(mach)' = RootBuses(mach)
  BY <1>2, <1>4, SameFound
<1>9. \A b : Entered(b)' <=> Entered(b) \/ (here /\ b = r)
  <2>1. \A b \in RootBuses(mach) : b < r + 1 <=> b < r \/ (here /\ b = r)
    BY <1>1, <1>6
  <2>2. here => r \in RootBuses(mach)
    BY <1>6
  <2> QED BY <1>2, <1>4, <1>8, <2>1, <2>2 DEF Entered
<1>10. DOMAIN pci'.calls = IF here THEN {1} ELSE {}
  BY <1>4
<1>11. here => pci'.calls[1] = <<r, 0, 0>>
  BY <1>4
<1>12. ScanTyped'
  <2>1. r + 1 <= FunctionMax
    BY <1>1
  <2>2. \A i \in DOMAIN pci'.calls : pci'.calls[i][2] <= DeviceMax /\ pci'.calls[i][3] < FunctionMax
    BY <1>1, <1>10, <1>11
  <2> HIDE DEF here
  <2> QED BY <1>1, <1>2, <1>4, <1>5, <2>1, <2>2 DEF ScanTyped
<1>13. CallsInv'
  <2>1. ASSUME NEW i \in DOMAIN pci'.calls PROVE i = 1 /\ here /\ pci'.calls[i][1] = r
    BY <1>10, <1>11
  <2>2. \A i, j \in DOMAIN pci'.calls : i = j
    BY <2>1
  <2>3. \A i \in DOMAIN pci'.calls : Entered(pci.calls[i][1])'
    BY <1>9, <2>1
  <2> QED BY <2>2, <2>3 DEF CallsInv
<1>14. ASSUME NEW p \in DOMAIN mach
       PROVE  Passed(p)' <=> Passed(p)
  <2>1. Passed(p) <=> Entered(p[1])
    BY <1>1 DEF Passed
  <2>2. Entered(p[1])' <=> Entered(p[1]) \/ (here /\ p[1] = r)
    BY <1>9
  <2>3. p[2] \in Nat /\ p[3] \in Nat
    BY <1>1, MachineFacts
  <2>4. CASE here
    <3>1. (\A i \in DOMAIN pci.calls : pci.calls[i][1] = p[1] => Before(p, pci.calls[i]))' <=> p[1] # r
      BY <1>10, <1>11, <2>3, <2>4 DEF Before
    <3> QED BY <1>7, <2>1, <2>2, <2>4, <3>1 DEF Passed
  <2>5. CASE ~here
    <3>1. (\A i \in DOMAIN pci.calls : pci.calls[i][1] = p[1] => Before(p, pci.calls[i]))'
      BY <1>10, <2>5
    <3> QED BY <2>1, <2>2, <2>5, <3>1 DEF Passed
  <2> QED BY <2>4, <2>5
<1>15. TableInv'
  <2>1. pci.err = "kFull" => FALSE
    BY <1>1 DEF TableInv, ScanOver
  <2> QED BY <1>1, <1>2, <1>4, <1>8, <1>14, <2>1 DEF TableInv
<1> QED BY <1>12, <1>13, <1>15 DEF ScanInv

\* A function that answers is new to the table, and a bridge leads to a bus
\* that nothing has led to before.
LEMMA ScanFunctionInv ==
  ASSUME ScanInv, ScanFunction
  PROVE  ScanInv'
<1> DEFINE n == Len(pci.calls)
           m == Len(pci.devices)
           fn == mach[At]
           moved == MovedOn(At[3] = 0 /\ IsSingleFunctionDevice(fn))
           bridge == fn.class = "bridge"
           down == <<fn.secondary, 0, 0>>
           calls == IF bridge THEN Append(moved, down) ELSE moved
           entry == [at |-> At, class |-> fn.class]
<1>1. /\ ScanTyped /\ CallsInv /\ TableInv /\ pci.calls # <<>> /\ At[2] < DeviceMax
      /\ At \in DOMAIN mach /\ mach' = mach /\ pci \in PciRecord /\ mach \in Machines
  BY DEF ScanInv, ScanFunction, IsPresent, ScanTyped
<1>2. /\ n \in DOMAIN pci.calls /\ n \in Nat /\ n >= 1 /\ DOMAIN pci.calls = 1 .. n
      /\ At = pci.calls[n] /\ At \in Place /\ At[1] \in Nat /\ At[2] \in Nat /\ At[3] \in Nat
      /\ At = <<At[1], At[2], At[3]>>
  BY <1>1, AtFacts
<1>3. /\ FunctionMax \in Nat \ {0} /\ DeviceMax \in Nat /\ TableSize \in Nat
      /\ fn \in Function /\ fn.secondary \in Nat /\ fn.class \in Class
      /\ pci.devices \in Seq([at : Place, class : Class]) /\ m \in Nat
      /\ DOMAIN pci.devices = 1 .. m
  <2>1. fn \in Function
    BY <1>1, MachineFacts
  <2>2. fn.secondary \in Nat /\ fn.class \in Class
    BY <2>1 DEF Function
  <2>4. pci.devices \in Seq([at : Place, class : Class])
    BY <1>1 DEF PciRecord
  <2>5. m \in Nat /\ DOMAIN pci.devices = 1 .. m
    BY <2>4
  <2> QED BY <2>1, <2>2, <2>4, <2>5, PciAssumption
<1>4. /\ moved \in Seq(Place) /\ Len(moved) = n
      /\ \A i \in 1 .. n - 1 : moved[i] = pci.calls[i]
      /\ moved[n][1] = At[1] /\ moved[n][2] <= DeviceMax /\ moved[n][3] < FunctionMax
      /\ \A p \in DOMAIN mach : p[1] = At[1] => (Before(p, moved[n]) <=> Before(p, At) \/ p = At)
  <2> DEFINE alone == At[3] = 0 /\ IsSingleFunctionDevice(fn)
  <2>1. alone => \A q \in DOMAIN mach : ~(q[1] = At[1] /\ q[2] = At[2] /\ q[3] > At[3])
    <3>1. At[3] = 0 => fn.multi = (\E q \in DOMAIN mach : q[1] = At[1] /\ q[2] = At[2] /\ q[3] > 0)
      BY <1>1, MachineFacts
    <3> QED BY <3>1 DEF IsSingleFunctionDevice
  <2>2. alone \in BOOLEAN
    OBVIOUS
  <2> HIDE DEF alone
  <2>3. moved = MovedOn(alone)
    BY DEF alone
  <2> QED BY <1>1, <2>1, <2>2, <2>3, MovedOnFacts
<1>5. At \notin Found /\ pci.err = "kSuccess"
  <2>1. pci.err = "kSuccess"
    BY <1>1 DEF TableInv, ScanOver, PciRecord
  <2>2. ~Before(At, At)
    BY <1>2 DEF Before
  <2>3. ~Passed(At)
    BY <1>2, <2>2 DEF Passed
  <2> QED BY <1>1, <2>1, <2>3 DEF TableInv
<1>6. Entered(At[1])
  BY <1>1, <1>2 DEF CallsInv
<1>7. CASE TableFull
  <2>1. /\ pci' = [pci EXCEPT !.err = "kFull", !.calls = <<>>, !.root = FunctionMax]
        /\ m = TableSize
    BY <1>7 DEF ScanFunction, TableFull
  <2>2. /\ pci'.err = "kFull" /\ pci'.calls = <<>> /\ pci'.root = FunctionMax
        /\ pci'.devices = pci.devices /\ pci' \in PciRecord
    <3>1. <<>> \in Seq(Place) /\ FunctionMax \in Nat
      BY <1>3
    <3> QED BY <1>1, <2>1, <3>1 DEF PciRecord
  <2>3. DOMAIN pci'.calls = {}
    BY <2>2
  <2>4. Found' = Found
    BY <1>1, <2>2, SameFound
  <2>5. ScanTyped'
    <3>1. /\ mach' \in Machines /\ pci'.root <= FunctionMax
          /\ IsSingleFunctionDevice(mach[<<0, 0, 0>>])' => pci'.root = FunctionMax
      BY <1>1, <1>3, <2>2
    <3>2. \A i \in DOMAIN pci'.devices : /\ pci'.devices[i].at \in DOMAIN mach'
                                         /\ pci'.devices[i].class = mach'[pci'.devices[i].at].class
      BY <1>1, <2>2 DEF ScanTyped
    <3> QED BY <2>2, <2>3, <3>1, <3>2 DEF ScanTyped
  <2>6. CallsInv'
    BY <2>3 DEF CallsInv
  <2>7. TableInv'
    BY <1>1, <1>3, <1>5, <2>1, <2>2, <2>4 DEF TableInv, ScanOver
  <2> QED BY <2>5, <2>6, <2>7 DEF ScanInv
<1>8. CASE ~TableFull
  <2>1. /\ pci' = [pci EXCEPT !.devices = Append(pci.devices, entry), !.calls = calls]
        /\ m # TableSize
    BY <1>8 DEF ScanFunction, TableFull
  <2>2. /\ calls \in Seq(Place) /\ Len(calls) = IF bridge THEN n + 1 ELSE n
        /\ \A i \in 1 .. n : calls[i] = moved[i]
        /\ bridge => calls[n + 1] = down
    <3>1. down \in Place
      BY <1>3 DEF Place
    <3> HIDE DEF moved, down
    <3> QED BY <1>2, <1>4, <3>1
  <2>3. Append(pci.devices, entry) \in Seq([at : Place, class : Class])
    <3>1. entry \in [at : Place, class : Class]
      BY <1>2, <1>3
    <3> QED BY <1>3, <3>1
  <2> HIDE DEF calls, moved, entry
  <2>4. /\ pci'.devices = Append(pci.devices, entry) /\ pci'.calls = calls
        /\ pci'.err = pci.err /\ pci'.root = pci.root /\ pci' \in PciRecord
    BY <1>1, <2>1, <2>2, <2>3 DEF PciRecord
  <2>5. /\ DOMAIN pci'.devices = 1 .. m + 1 /\ Len(pci'.devices) = m + 1
        /\ \A i \in 1 .. m : pci'.devices[i] = pci.devices[i]
        /\ pci'.devices[m + 1] = entry
        /\ \A i \in 1 .. m + 1 : i = m + 1 \/ i \in 1 .. m
        /\ \A i \in 1 .. m : i \in 1 .. m + 1
        /\ m + 1 \in 1 .. m + 1
    <3>1. entry \in [at : Place, class : Class]
      BY <1>2, <1>3 DEF entry
    <3> QED BY <1>3, <2>4, <3>1
  <2>6. entry.at = At /\ entry.class = mach[At].class
    BY DEF entry
  <2>7. Found' = Found \cup {At}
    <3>1. Found' = {pci'.devices[i].at : i \in 1 .. m + 1}
      BY <2>5 DEF Found
    <3>2. Found = {pci.devices[i].at : i \in 1 .. m}
      BY <1>3 DEF Found
    <3> QED BY <2>5, <2>6, <3>1, <3>2
  <2>8. /\ DOMAIN pci'.calls = IF bridge THEN 1 .. n + 1 ELSE 1 .. n
        /\ \A i \in 1 .. n : pci'.calls[i][1] = pci.calls[i][1]
        /\ \A i \in 1 .. n - 1 : pci'.calls[i] = pci.calls[i]
        /\ pci'.calls[n] = moved[n]
        /\ bridge => pci'.calls[n + 1] = down
        /\ \A i \in 1 .. n + 1 : i = n + 1 \/ i \in 1 .. n
        /\ \A i \in 1 .. n : i = n \/ i \in 1 .. n - 1
    <3>1. DOMAIN calls = IF bridge THEN 1 .. n + 1 ELSE 1 .. n
      BY <2>2
    <3>2. /\ \A i \in 1 .. n + 1 : i = n + 1 \/ i \in 1 .. n
          /\ \A i \in 1 .. n : i = n \/ i \in 1 .. n - 1
          /\ \A i \in 1 .. n - 1 : i \in 1 .. n
          /\ n \in 1 .. n
      BY <1>2
    <3>3. \A i \in 1 .. n : moved[i][1] = pci.calls[i][1]
      BY <1>2, <1>4, <3>2
    <3> HIDE DEF down, bridge
    <3> QED BY <1>4, <2>2, <2>4, <3>1, <3>2, <3>3
  <2>9. /\ Bridges(mach)' = Bridges(mach) /\ RootBuses(mach)' = RootBuses(mach)
        /\ bridge <=> At \in Bridges(mach)
    BY <1>1 DEF Bridges, RootBuses
  <2>10. \A b : Entered(b)' <=> Entered(b) \/ (bridge /\ b = fn.secondary)
    BY <1>1, <2>4, <2>7, <2>9 DEF Entered
  <2>11. bridge => ~Entered(fn.secondary)
    BY <1>1, <1>5, <2>9, MachineFacts DEF Entered
  <2>12. ScanTyped'
    <3>1. \A i \in DOMAIN pci'.devices : /\ pci'.devices[i].at \in DOMAIN mach
                                         /\ pci'.devices[i].class = mach[pci'.devices[i].at].class
      BY <1>1, <1>3, <2>5, <2>6 DEF ScanTyped
    <3>2. \A i \in 1 .. n : pci'.calls[i][2] <= DeviceMax /\ pci'.calls[i][3] < FunctionMax
      BY <1>1, <1>2, <1>4, <2>8 DEF ScanTyped
    <3>3. down[2] <= DeviceMax /\ down[3] < FunctionMax
      BY <1>3
    <3> HIDE DEF down
    <3>4. \A i \in DOMAIN pci'.calls : pci'.calls[i][2] <= DeviceMax /\ pci'.calls[i][3] < FunctionMax
      BY <2>8, <3>2, <3>3
    <3> QED BY <1>1, <2>4, <3>1, <3>4 DEF ScanTyped
  <2>13. CallsInv'
    <3>1. \A i \in 1 .. n : Entered(pci.calls[i][1])
      BY <1>1, <1>2 DEF CallsInv
    <3>2. bridge => pci'.calls[n + 1][1] = fn.secondary
      BY <2>8
    <3>3. bridge => \A i \in 1 .. n : pci'.calls[i][1] # pci'.calls[n + 1][1]
      <4> SUFFICES ASSUME bridge, NEW i \in 1 .. n, pci'.calls[i][1] = fn.secondary PROVE FALSE
        BY <3>2
      <4>1. pci.calls[i][1] = fn.secondary
        BY <2>8
      <4> QED BY <2>11, <3>1, <4>1
    <3>4. \A i, j \in 1 .. n : pci'.calls[i][1] = pci'.calls[j][1] => i = j
      <4>1. \A i, j \in 1 .. n : pci.calls[i][1] = pci.calls[j][1] => i = j
        BY <1>1, <1>2 DEF CallsInv
      <4>2. \A i \in 1 .. n : pci'.calls[i][1] = pci.calls[i][1]
        BY <2>8
      <4> QED BY <4>1, <4>2
    <3>5. \A i, j \in DOMAIN pci'.calls : pci'.calls[i][1] = pci'.calls[j][1] => i = j
      BY <2>8, <3>3, <3>4
    <3>6. \A i \in DOMAIN pci'.calls : Entered(pci.calls[i][1])'
      BY <2>8, <2>10, <3>1, <3>2
    <3> QED BY <3>5, <3>6 DEF CallsInv
  <2>14. ASSUME NEW p \in DOMAIN mach
         PROVE  Passed(p)' <=> Passed(p) \/ p = At
    <3>1. p[1] \in Nat /\ p[2] \in Nat /\ p[3] \in Nat
      BY <1>1, MachineFacts
    <3>2. Entered(p[1])' <=> Entered(p[1]) \/ (bridge /\ p[1] = fn.secondary)
      BY <2>10
    <3>3. bridge => At[1] # fn.secondary
      BY <1>1, <1>2, <2>9, MachineFacts
    <3>4. bridge => ~Before(p, down)
      BY <3>1 DEF Before
    <3>5. \A i \in 1 .. n : i # n => (pci.calls[i][1] = p[1] => pci.calls[i][1] # At[1] \/ p[1] # At[1])
      BY <1>1, <1>2 DEF CallsInv
    <3>6. \A i \in 1 .. n : p[1] = At[1] /\ pci.calls[i][1] = p[1] => i = n
      BY <1>1, <1>2 DEF CallsInv
    <3> DEFINE Ahead1(c, q) == c[1] = q[1] => Before(q, c)
    <3>7. (\A i \in 1 .. n : Ahead1(pci'.calls[i], p)) <=>
          (\A i \in 1 .. n : Ahead1(pci.calls[i], p)) \/ p = At
      <4>1. CASE p[1] = At[1]
        <5>1. \A i \in 1 .. n - 1 : pci.calls[i][1] # p[1]
          BY <1>2, <3>6, <4>1
        <5> QED BY <1>2, <1>4, <2>8, <4>1, <5>1
      <4>2. CASE p[1] # At[1]
        BY <1>2, <1>4, <2>8, <4>2
      <4> QED BY <4>1, <4>2
    <3>8. (\A i \in DOMAIN pci.calls : pci.calls[i][1] = p[1] => Before(p, pci.calls[i]))' <=>
          /\ \A i \in 1 .. n : Ahead1(pci'.calls[i], p)
          /\ bridge => p[1] # fn.secondary
      <4>1. bridge => (Ahead1(pci'.calls[n + 1], p) <=> p[1] # fn.secondary)
        BY <2>8, <3>4
      <4>2. (\A i \in DOMAIN pci.calls : pci.calls[i][1] = p[1] => Before(p, pci.calls[i]))' <=>
            \A i \in DOMAIN pci'.calls : Ahead1(pci'.calls[i], p)
        BY DEF Before
      <4>3. n + 1 \in 1 .. n + 1 /\ \A i \in 1 .. n : i \in 1 .. n + 1
        BY <1>2
      <4> QED BY <2>8, <4>1, <4>2, <4>3
    <3>9. Passed(p) <=> Entered(p[1]) /\ \A i \in 1 .. n : Ahead1(pci.calls[i], p)
      BY <1>2 DEF Passed
    <3> HIDE DEF Ahead1
    <3>10. Passed(p)' <=> /\ Entered(p[1])'
                          /\ \A i \in 1 .. n : Ahead1(pci'.calls[i], p)
                          /\ bridge => p[1] # fn.secondary
      BY <3>8 DEF Passed
    <3> QED BY <1>6, <2>11, <3>2, <3>3, <3>7, <3>9, <3>10
  <2>15. TableInv'
    <3>1. \A i, j \in DOMAIN pci'.devices : pci'.devices[i].at = pci'.devices[j].at => i = j
      <4>1. \A i \in 1 .. m : pci'.devices[i].at # At
        BY <1>3, <1>5, <2>5 DEF Found
      <4>2. \A i, j \in 1 .. m : pci'.devices[i].at = pci'.devices[j].at => i = j
        BY <1>1, <1>3, <2>5 DEF TableInv
      <4> QED BY <2>5, <2>6, <4>1, <4>2
    <3>2. Len(pci'.devices) <= TableSize
      BY <1>1, <1>3, <2>1, <2>5 DEF TableInv
    <3>3. \A p \in DOMAIN mach : p \in Found' <=> Passed(p)'
      BY <1>1, <1>5, <2>7, <2>14 DEF TableInv
    <3> QED BY <1>1, <1>5, <2>4, <3>1, <3>2, <3>3 DEF TableInv
  <2> QED BY <2>12, <2>13, <2>15 DEF ScanInv
<1> QED BY <1>7, <1>8

\* The table when ScanAllBus has looked at the host bridge.
Starting ==
  pci = IF IsSingleFunctionDevice(mach[<<0, 0, 0>>])
        THEN [NoDevices EXCEPT !.calls = << <<0, 0, 0>> >>, !.root = FunctionMax]
        ELSE NoDevices

\* ScanAllBus starts with nothing found and nothing passed.
LEMMA ScanStartInv == mach \in Machines /\ Starting => ScanInv
<1> SUFFICES ASSUME mach \in Machines, Starting PROVE ScanInv
  OBVIOUS
<1> DEFINE single == IsSingleFunctionDevice(mach[<<0, 0, 0>>])
<1>1. FunctionMax \in Nat \ {0} /\ DeviceMax \in Nat /\ TableSize \in Nat
  BY PciAssumption
<1>2. /\ pci = [devices |-> <<>>, err |-> "kSuccess",
                calls |-> IF single THEN << <<0, 0, 0>> >> ELSE <<>>,
                root |-> IF single THEN FunctionMax ELSE 0,
                xhc |-> 0, msi |-> "none", routed |-> FALSE]
  BY DEF Starting, NoDevices
<1>3. /\ <<0, 0, 0>> \in Place /\ << <<0, 0, 0>> >> \in Seq(Place) /\ <<>> \in Seq(Place)
      /\ <<>> \in Seq([at : Place, class : Class])
  BY DEF Place
<1>4. /\ pci.devices = <<>> /\ pci.err = "kSuccess" /\ pci.root = IF single THEN FunctionMax ELSE 0
      /\ pci.calls = IF single THEN << <<0, 0, 0>> >> ELSE <<>>
      /\ pci \in PciRecord
  <2> DEFINE c == IF single THEN << <<0, 0, 0>> >> ELSE <<>>
             r == IF single THEN FunctionMax ELSE 0
             none == <<>>
  <2>1. c \in Seq(Place) /\ r \in Nat /\ none \in Seq([at : Place, class : Class])
    BY <1>1, <1>3
  <2>2. pci = [devices |-> none, err |-> "kSuccess", calls |-> c, root |-> r,
               xhc |-> 0, msi |-> "none", routed |-> FALSE]
    BY <1>2
  <2> HIDE DEF c, r, none
  <2>3. /\ pci.devices = none /\ pci.err = "kSuccess" /\ pci.root = r /\ pci.calls = c
        /\ pci \in PciRecord
    <3>1. pci.devices = none
      BY <2>2
    <3>2. pci.err = "kSuccess" /\ pci.root = r /\ pci.calls = c
      BY <2>2
    <3>3. pci \in PciRecord
      BY <2>1, <2>2 DEF PciRecord
    <3> QED BY <3>1, <3>2, <3>3
  <2> QED BY <2>3 DEF c, r, none
<1>6. DOMAIN pci.devices = {} /\ Len(pci.devices) = 0 /\ Found = {}
  BY <1>4 DEF Found
<1>7. DOMAIN pci.calls = IF single THEN {1} ELSE {}
  BY <1>4
<1>8. single => pci.calls[1] = <<0, 0, 0>>
  BY <1>4
<1>9. ScanTyped
  <2>1. \A i \in DOMAIN pci.calls : pci.calls[i][2] <= DeviceMax /\ pci.calls[i][3] < FunctionMax
    BY <1>1, <1>7, <1>8
  <2> HIDE DEF single
  <2> QED BY <1>1, <1>4, <1>6, <2>1 DEF ScanTyped, single
<1>10. \A b : Entered(b) <=> single /\ b = 0
  <2>1. \A b \in RootBuses(mach) : b \in Nat /\ (single => b = 0)
    BY <1>1 DEF RootBuses
  <2>2. single => 0 \in RootBuses(mach)
    BY DEF RootBuses
  <2>3. \A b \in RootBuses(mach) : b < pci.root <=> single
    BY <1>1, <1>4, <2>1
  <2> HIDE DEF single
  <2> QED BY <1>6, <2>1, <2>2, <2>3 DEF Entered
<1>11. CallsInv
  <2> HIDE DEF single
  <2> QED BY <1>7, <1>8, <1>10 DEF CallsInv
<1>12. ASSUME NEW p \in DOMAIN mach PROVE ~Passed(p)
  <2>1. p[2] \in Nat /\ p[3] \in Nat
    BY MachineFacts
  <2>2. ~Before(p, <<0, 0, 0>>)
    BY <2>1 DEF Before
  <2> HIDE DEF single
  <2> QED BY <1>7, <1>8, <1>10, <2>2 DEF Passed
<1>13. TableInv
  BY <1>1, <1>4, <1>6, <1>12 DEF TableInv
<1> QED BY <1>9, <1>11, <1>13 DEF ScanInv

\* A scan that ended without an error has found everything: on the least bus
\* with a function missing, the bridge to it would be found already.
LEMMA ScanFinds ==
  ASSUME ScanInv, ScanOver, pci.err = "kSuccess"
  PROVE  Found = DOMAIN mach
<1> DEFINE missing == {p[1] : p \in DOMAIN mach \ Found}
<1>1. ScanTyped /\ TableInv /\ mach \in Machines /\ pci.calls = <<>> /\ pci.root = FunctionMax
  BY DEF ScanInv, ScanTyped, ScanOver
<1>2. FunctionMax \in Nat
  BY PciAssumption
<1>3. Found \subseteq DOMAIN mach
  BY <1>1 DEF Found, ScanTyped
<1>4. \A p \in DOMAIN mach : p \in Found <=> Entered(p[1])
  BY <1>1 DEF TableInv, Passed
<1>5. ASSUME missing # {} PROVE FALSE
  <2>1. missing \subseteq Nat
    <3>1. \A p \in DOMAIN mach : p[1] \in Nat
      BY <1>1, MachineFacts
    <3> QED BY <3>1
  <2>2. \E x \in missing : \A y \in missing : ~(<<y, x>> \in OpToRel(<, Nat))
    BY <1>5, <2>1, WFMin, NatLessThanWellFounded
  <2>3. PICK x \in missing : \A y \in missing : ~(<<y, x>> \in OpToRel(<, Nat))
    BY <2>2
  <2>4. PICK p \in DOMAIN mach \ Found : p[1] = x
    BY <2>3
  <2>5. x \notin RootBuses(mach)
    <3>1. \A b \in RootBuses(mach) : b < FunctionMax
      BY PciAssumption DEF RootBuses
    <3> QED BY <1>1, <1>4, <2>4, <3>1 DEF Entered
  <2>6. PICK q \in Bridges(mach) : mach[q].secondary = x
    BY <1>1, <2>4, <2>5, MachineFacts
  <2>7. q \in DOMAIN mach /\ q[1] \in Nat /\ x \in Nat /\ x > q[1]
    BY <1>1, <2>6, MachineFacts DEF Bridges
  <2>8. q \notin Found
    BY <1>4, <2>4, <2>6 DEF Entered
  <2>9. q[1] \in missing
    BY <2>7, <2>8
  <2>10. <<q[1], x>> \in OpToRel(<, Nat)
    BY <2>7 DEF OpToRel
  <2> QED BY <2>3, <2>9, <2>10, Zenon
<1> QED BY <1>3, <1>5

\* The table has no entry twice, and a full one leaves something out.
LEMMA ScanCounts ==
  ASSUME ScanInv
  PROVE  /\ Cardinality(Found) = Len(pci.devices) /\ Len(pci.devices) <= TableSize
         /\ pci.err = "kFull" => Cardinality(DOMAIN mach) > TableSize
<1> DEFINE m == Len(pci.devices)
           f == [i \in 1 .. m |-> pci.devices[i].at]
<1>1. ScanTyped /\ TableInv /\ mach \in Machines
  BY DEF ScanInv, ScanTyped
<1>2. m \in Nat /\ DOMAIN pci.devices = 1 .. m /\ TableSize \in Nat
  BY <1>1, PciAssumption DEF ScanTyped, PciRecord
<1>3. f \in Bijection(1 .. m, Found)
  <2>1. f \in [1 .. m -> Found]
    BY <1>2 DEF Found
  <2>2. \A i, j \in 1 .. m : f[i] = f[j] => i = j
    BY <1>1, <1>2 DEF TableInv
  <2>3. \A p \in Found : \E i \in 1 .. m : f[i] = p
    BY <1>2 DEF Found
  <2> QED BY <2>1, <2>2, <2>3 DEF Bijection, Injection, Surjection, IsInjective
<1>4. IsFiniteSet(1 .. m) /\ Cardinality(1 .. m) = m
  BY <1>2, FS_Interval
<1>5. IsFiniteSet(Found) /\ Cardinality(Found) = m
  BY <1>3, <1>4, FS_Bijection DEF ExistsBijection
<1>6. ASSUME pci.err = "kFull" PROVE Cardinality(DOMAIN mach) > TableSize
  <2>1. PICK p \in DOMAIN mach : p \notin Found
    BY <1>1, <1>6 DEF TableInv
  <2>2. m = TableSize
    BY <1>1, <1>6 DEF TableInv
  <2>3. Cardinality(Found \cup {p}) = m + 1
    BY <1>5, <2>1, FS_AddElement
  <2>4. Found \cup {p} \in SUBSET DOMAIN mach
    BY <1>1, <2>1 DEF Found, ScanTyped
  <2>5. IsFiniteSet(DOMAIN mach)
    BY <1>1, MachineFacts
  <2>6. Cardinality(Found \cup {p}) <= Cardinality(DOMAIN mach) /\ Cardinality(DOMAIN mach) \in Nat
    BY <2>4, <2>5, FS_Subset, FS_CardinalityType
  <2> QED BY <1>2, <2>2, <2>3, <2>6
<1> QED BY <1>1, <1>5, <1>6 DEF TableInv

\* Of the devices found it chooses an xHC, Intel's if there is one.
LEMMA ChosenXhc ==
  ASSUME ScanTyped
  PROVE  LET k == FindXhc(pci.devices) IN
         /\ k = 0 => ~\E p \in Found : mach[p].class = "xhc"
         /\ k # 0 => /\ k \in DOMAIN pci.devices /\ pci.devices[k].at \in Found
                     /\ mach[pci.devices[k].at].class = "xhc"
                     /\ \/ mach[pci.devices[k].at].intel
                        \/ ~\E p \in Found : mach[p].class = "xhc" /\ mach[p].intel
<1> DEFINE m == Len(pci.devices)
           xhcs == {i \in DOMAIN pci.devices : pci.devices[i].class = "xhc"}
           intel == {i \in xhcs : mach[pci.devices[i].at].intel}
           k == FindXhc(pci.devices)
<1>1. k = IF xhcs = {} THEN 0 ELSE IF intel # {} THEN Min(intel) ELSE Max(xhcs)
  BY DEF FindXhc
<1>2. m \in Nat /\ DOMAIN pci.devices = 1 .. m
  BY DEF ScanTyped, PciRecord
<1>3. \A i \in xhcs : i \in 1 .. m /\ mach[pci.devices[i].at].class = "xhc"
  BY <1>2 DEF ScanTyped
<1>4. \A p \in Found : mach[p].class = "xhc" =>
        \E i \in xhcs : pci.devices[i].at = p
  BY DEF Found, ScanTyped
<1> HIDE DEF xhcs
<1>5. ASSUME NEW S \in SUBSET (1 .. m), S # {} PROVE Min(S) \in S /\ Max(S) \in S
  <2>1. \E x \in S : \A y \in S : x <= y
    <3>0. S \subseteq Nat
      BY <1>2
    <3>a. \E x \in S : \A y \in S : ~(<<y, x>> \in OpToRel(<, Nat))
      BY <1>5, <3>0, WFMin, NatLessThanWellFounded
    <3>1. PICK x \in S : \A y \in S : ~(<<y, x>> \in OpToRel(<, Nat))
      BY <3>a
    <3>2. ASSUME NEW y \in S PROVE x <= y
      <4>1. x \in Nat /\ y \in Nat
        BY <1>2
      <4>2. y < x => <<y, x>> \in OpToRel(<, Nat)
        BY <4>1 DEF OpToRel
      <4>3. ~(y < x)
        BY <3>1, <4>2, Zenon
      <4> QED BY <4>1, <4>3
    <3> QED BY <3>2
  <2>2. \E x \in S : \A y \in S : x >= y
    <3> DEFINE R == {m - y : y \in S}
    <3>0. \A y \in S : y \in Nat /\ m - y \in Nat
      BY <1>2
    <3>1. R \subseteq Nat /\ R # {}
      BY <1>5, <3>0
    <3>a. \E r \in R : \A y \in R : ~(<<y, r>> \in OpToRel(<, Nat))
      BY <3>1, WFMin, NatLessThanWellFounded
    <3>2. PICK r \in R : \A y \in R : ~(<<y, r>> \in OpToRel(<, Nat))
      BY <3>a
    <3>3. PICK x \in S : r = m - x
      BY <3>2
    <3>4. ASSUME NEW y \in S PROVE x >= y
      <4>1. m - y \in R /\ m - y \in Nat /\ r \in Nat /\ x \in Nat /\ y \in Nat
        BY <3>0, <3>1, <3>2
      <4>2. m - y < r => <<m - y, r>> \in OpToRel(<, Nat)
        BY <4>1 DEF OpToRel
      <4>3. ~(m - y < r)
        BY <3>2, <4>1, <4>2, Zenon
      <4> QED BY <1>2, <3>3, <4>1, <4>3
    <3> QED BY <3>4
  <2> QED BY <2>1, <2>2 DEF Min, Max
<1>6. intel \in SUBSET (1 .. m) /\ xhcs \in SUBSET (1 .. m) /\ intel \subseteq xhcs
  BY <1>3
<1>7. k = 0 => xhcs = {}
  <2>1. 0 \notin 1 .. m
    BY <1>2
  <2>2. intel # {} => Min(intel) \in 1 .. m
    BY <1>5, <1>6
  <2>3. xhcs # {} => Max(xhcs) \in 1 .. m
    BY <1>5, <1>6
  <2> QED BY <1>1, <2>1, <2>2, <2>3
<1>8. k # 0 => k \in xhcs /\ (k \in intel \/ intel = {})
  BY <1>1, <1>5, <1>6
<1>9. ASSUME NEW p \in Found, mach[p].class = "xhc", mach[p].intel PROVE intel # {}
  BY <1>4, <1>9
<1>10. \A i \in intel : mach[pci.devices[i].at].intel
  OBVIOUS
<1>11. \A i \in xhcs : i \in DOMAIN pci.devices /\ pci.devices[i].at \in Found
  BY <1>2, <1>3 DEF Found
<1> HIDE DEF k, intel
<1>12. k = 0 => ~\E p \in Found : mach[p].class = "xhc"
  BY <1>4, <1>7
<1>13. k # 0 => /\ k \in DOMAIN pci.devices /\ pci.devices[k].at \in Found
                /\ mach[pci.devices[k].at].class = "xhc"
                /\ \/ mach[pci.devices[k].at].intel
                   \/ ~\E p \in Found : mach[p].class = "xhc" /\ mach[p].intel
  BY <1>3, <1>8, <1>9, <1>10, <1>11
<1> QED BY <1>12, <1>13 DEF k

\* What is done with the devices found leaves the scan alone.
LEMMA ScanKept ==
  ASSUME ScanInv, mach' = mach, pci' \in PciRecord, pci'.devices = pci.devices, pci'.err = pci.err,
         pci'.calls = pci.calls, pci'.root = pci.root
  PROVE  ScanInv' /\ Found' = Found /\ (ScanOver' <=> ScanOver)
<1>1. /\ Found' = Found /\ \A b : Entered(b)' <=> Entered(b)
  BY SameFound
<1>2. ScanOver' <=> ScanOver
  BY DEF ScanOver
<1>3. \A p \in DOMAIN mach : Passed(p)' <=> Passed(p)
  BY <1>1 DEF Passed, Before
<1>4. ScanTyped'
  BY DEF ScanInv, ScanTyped
<1>5. CallsInv'
  BY <1>1 DEF ScanInv, CallsInv
<1>6. TableInv'
  BY <1>1, <1>2, <1>3 DEF ScanInv, TableInv
<1> QED BY <1>1, <1>2, <1>4, <1>5, <1>6 DEF ScanInv

-----------------------------------------------------------------------------
(* The stages of the kernel's start, as far as the scan matters to them.   *)

HasXhc == \E p \in DOMAIN mach : mach[p].class = "xhc"
HasIntelXhc == \E p \in DOMAIN mach : mach[p].class = "xhc" /\ mach[p].intel

ChosenInv ==
  /\ mach[pci.devices[pci.xhc].at].class = "xhc"
  /\ mach[pci.devices[pci.xhc].at].intel \/ ~HasIntelXhc

StageInv ==
  /\ stage \in {"loader", "kernel", "pci", "acpi", "xhci", "ports", "exit"}
  /\ stage \notin {"loader", "kernel"} => ScanInv
  /\ stage \in {"acpi", "xhci", "ports"} => ScanOver /\ pci.err = "kSuccess"
  /\ stage \in {"xhci", "ports"} => ChosenInv
  /\ stage = "exit" => /\ ScanOver
                       /\ pci.err = "kSuccess" /\ hc = Unread /\ pm.at = "over" => ~HasXhc

\* A controller that has given up is not one that was never looked at.
LEMMA UnreadAt == Unread.at = "unread"
<1> DEFINE c == CHOOSE h \in Controllers : h.halted /\ ~h.legacy
           h0 == [at |-> "devmgr", legacy |-> FALSE, bios |-> FALSE, os |-> FALSE, run |-> FALSE,
                  halted |-> TRUE, reset |-> FALSE, not_ready |-> FALSE, scratchpad |-> FALSE,
                  step |-> 1, written |-> {}]
<1>1. h0 \in Controllers /\ h0.halted /\ ~h0.legacy
  BY DEF Controllers
<1> HIDE DEF h0
<1>2. c \in Controllers
  BY <1>1
<1>3. c \in [at : {"devmgr"}, legacy : BOOLEAN, bios : BOOLEAN, os : BOOLEAN, run : BOOLEAN,
             halted : BOOLEAN, reset : {FALSE}, not_ready : {FALSE},
             scratchpad : BOOLEAN, step : {1}, written : {{}}]
  BY <1>2 DEF Controllers
<1>4. Unread = [c EXCEPT !.at = "unread"]
  BY DEF Unread
<1> HIDE DEF c
<1> QED BY <1>3, <1>4

LEMMA StageStep == pm \in TimerRecord /\ StageInv /\ [Next]_vars => StageInv'
<1> SUFFICES ASSUME pm \in TimerRecord, StageInv, [Next]_vars PROVE StageInv'
  OBVIOUS
<1>k. ASSUME UNCHANGED <<mach, pci>>, stage \notin {"loader", "kernel"}
      PROVE  /\ ScanInv' /\ (ScanOver' <=> ScanOver) /\ (ChosenInv' <=> ChosenInv)
             /\ HasXhc' <=> HasXhc
  <2>1. ScanInv /\ pci \in PciRecord
    BY <1>k DEF StageInv, ScanInv, ScanTyped
  <2>2. ScanInv' /\ (ScanOver' <=> ScanOver)
    BY <1>k, <2>1, ScanKept
  <2> QED BY <1>k, <2>2 DEF ChosenInv, HasXhc, HasIntelXhc
<1>1. CASE Load \/ EnterKernel
  BY <1>1 DEF Load, EnterKernel, StageInv
<1>2. CASE InitializePCI
  <2>1. mach' \in Machines /\ Starting' /\ stage' = "pci"
    BY <1>2 DEF InitializePCI, ScanAllBus, Starting
  <2>2. (mach \in Machines /\ Starting => ScanInv)'
    BY ScanStartInv, PTL
  <2>3. ScanInv'
    BY <2>1, <2>2
  <2> QED BY <2>1, <2>3 DEF StageInv
<1>3. CASE ScanPCI
  <2>1. ScanNext /\ stage = "pci" /\ stage' = "pci" /\ ScanInv
    BY <1>3 DEF ScanPCI, StageInv
  <2>2. ScanInv'
    BY <2>1, ScanRootBusInv, ReturnFromBusInv, PassOverInv, ScanFunctionInv DEF ScanNext
  <2> QED BY <2>1, <2>2 DEF StageInv
<1>4. CASE ReturnFromPCI
  <2>1. /\ stage = "pci" /\ ScanOver /\ UNCHANGED <<mach, pci>>
        /\ stage' = IF pci.err = "kSuccess" THEN "acpi" ELSE "exit"
    BY <1>4 DEF ReturnFromPCI
  <2>2. pci'.err = pci.err
    BY <2>1
  <2> QED BY <1>k, <2>1, <2>2 DEF StageInv
<1>5. CASE InitializeACPI
  <2>1. /\ stage = "acpi" /\ UNCHANGED <<mach, pci>>
        /\ stage' = IF pm'.at = "exit" THEN "exit" ELSE stage
    BY <1>5 DEF InitializeACPI
  <2>2. pci'.err = pci.err
    BY <2>1
  <2> QED BY <1>k, <2>1, <2>2 DEF StageInv
<1>6. CASE InitializeAPICTimer
  <2>1. stage = "acpi" /\ stage' = "acpi" /\ UNCHANGED <<mach, pci>> /\ pci'.err = pci.err
    BY <1>6 DEF InitializeAPICTimer
  <2> QED BY <1>k, <2>1 DEF StageInv
<1>7. CASE InitializeXhci
  <2> DEFINE k == FindXhc(pci.devices)
             fn == mach[pci.devices[k].at]
  <2>1. ScanInv /\ ScanOver /\ pci.err = "kSuccess" /\ mach' = mach /\ ScanTyped /\ pci \in PciRecord
    BY <1>7 DEF InitializeXhci, StageInv, ScanInv, ScanTyped
  <2>2. Found = DOMAIN mach
    BY <2>1, ScanFinds
  <2>3. /\ k = 0 => ~\E p \in DOMAIN mach : mach[p].class = "xhc"
        /\ k # 0 => /\ k \in DOMAIN pci.devices /\ fn.class = "xhc"
                    /\ fn.intel \/ ~HasIntelXhc
    BY <2>1, <2>2, ChosenXhc DEF HasIntelXhc
  <2>4. CASE k = 0
    <3>1. stage' = "exit" /\ UNCHANGED <<mach, pci>> /\ stage = "acpi"
      BY <1>7, <2>4 DEF InitializeXhci
    <3>2. ~HasXhc'
      BY <2>3, <2>4, <3>1 DEF HasXhc
    <3> QED BY <1>k, <2>1, <3>1, <3>2 DEF StageInv
  <2>5. CASE k # 0
    <3> DEFINE msi == ConfigureMSI(fn.caps)
               routed == fn.intel /\ SwitchEhci2Xhci(pci.devices)
    <3>1. /\ stage' = "xhci"
          /\ pci' = [pci EXCEPT !.xhc = k, !.msi = msi, !.routed = routed]
      BY <1>7, <2>5 DEF InitializeXhci
    <3>2. msi \in {"kSuccess", "kNotImplemented", "kNoPCIMSI"}
      BY DEF ConfigureMSI
    <3>3. k \in Nat
      BY <2>1, <2>3, <2>5 DEF PciRecord
    <3>4. routed \in BOOLEAN
      BY DEF SwitchEhci2Xhci
    <3> HIDE DEF k, msi, routed
    <3>5. /\ pci' \in PciRecord /\ pci'.devices = pci.devices /\ pci'.err = pci.err
          /\ pci'.calls = pci.calls /\ pci'.root = pci.root /\ pci'.xhc = k
      BY <2>1, <3>1, <3>2, <3>3, <3>4 DEF PciRecord
    <3>6. ScanInv' /\ ScanOver'
      BY <2>1, <3>5, ScanKept
    <3>7. ChosenInv'
      BY <2>1, <2>3, <2>5, <3>5 DEF ChosenInv, HasIntelXhc
    <3> QED BY <2>1, <3>1, <3>5, <3>6, <3>7 DEF StageInv
  <2> QED BY <2>4, <2>5
<1>8. CASE StartXhci
  <2>1. /\ stage = "xhci" /\ UNCHANGED <<mach, pci>> /\ pci'.err = pci.err
        /\ stage' = CASE hc'.at = "exit" -> "exit" [] hc'.at = "running" -> "ports" [] OTHER -> stage
    BY <1>8 DEF StartXhci
  <2>2. stage' \in {"exit", "ports", "xhci"} /\ (stage' = "exit" => hc'.at = "exit")
    BY <2>1
  <2>3. stage' = "exit" => hc' # Unread
    BY <2>2, UnreadAt
  <2> QED BY <1>k, <2>1, <2>2, <2>3 DEF StageInv
<1>9. CASE Hardware
  <2>1. stage = "xhci" /\ stage' = stage /\ UNCHANGED <<mach, pci>> /\ pci'.err = pci.err
    BY <1>9 DEF Hardware
  <2> QED BY <1>k, <2>1 DEF StageInv
<1>10. CASE Rest \/ UNCHANGED vars
  <2>1. UNCHANGED <<stage, mach, pci, hc, pm>> /\ pci'.err = pci.err /\ pm'.at = pm.at
    BY <1>10 DEF Rest, vars
  <2>2. CASE stage \in {"loader", "kernel"}
    BY <2>1, <2>2 DEF StageInv
  <2>3. CASE stage \notin {"loader", "kernel"}
    BY <1>k, <2>1, <2>3 DEF StageInv
  <2> QED BY <2>2, <2>3
<1> QED BY <1>1, <1>2, <1>3, <1>4, <1>5, <1>6, <1>7, <1>8, <1>9, <1>10 DEF Next

\* For every machine in which each bridge has a bus of its own, the scan lists
\* every function exactly once, or stops because there are more than the table
\* holds, and the controller started is an xHC, Intel's when there is one.
THEOREM ScanCompleteHolds == Spec => []ScanComplete
<1>1. Init => StageInv
  BY DEF Init, StageInv
<1>2. IInv => pm \in TimerRecord
  BY DEF IInv, TimerInv
<1>3. StageInv => ScanComplete
  <2> SUFFICES ASSUME StageInv, stage \notin {"loader", "kernel", "pci"} PROVE ScanComplete
    BY DEF ScanComplete
  <2>1. ScanInv /\ ScanOver /\ pci.err \in {"kSuccess", "kFull"}
    BY DEF StageInv, ScanInv, ScanTyped, PciRecord
  <2>2. /\ Cardinality(Found) = Len(pci.devices) /\ Len(pci.devices) <= TableSize
        /\ Found = DOMAIN mach \/ (pci.err = "kFull" /\ Cardinality(DOMAIN mach) > TableSize)
    BY <2>1, ScanFinds, ScanCounts
  <2> QED BY <2>2 DEF ScanComplete, Found, StageInv, ChosenInv, HasXhc, HasIntelXhc
<1> QED BY <1>1, <1>2, <1>3, StageStep, InvariantHolds, PTL DEF Spec
=============================================================================
