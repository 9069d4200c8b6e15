---------------------------- MODULE TimerManager ----------------------------
(***************************************************************************)
(* The timer queue of Kernel/timer.cpp: tick_, the count of local APIC     *)
(* timer interrupts, and timers_, a priority queue ordered by timeout.     *)
(* One of the timers drives the scheduler: when Tick() pops the task timer *)
(* it arms it again and stops looking, leaving other timers due at that    *)
(* tick for the next interrupt.  std::priority_queue does not say which of *)
(* two timers with equal timeouts is on top: either may be.                *)
(*                                                                         *)
(* The methods are operators on a queue [tick, timers], so that the module *)
(* that composes the kernel applies them inside its interrupt handler.     *)
(* timers_ is a set: no caller arms the same timeout and value twice.  The *)
(* sentinel the constructor pushes (the largest timeout) never falls due   *)
(* and is left out.                                                        *)
(***************************************************************************)
EXTENDS Integers, Sequences, FiniteSets

CONSTANTS
  Values,        \* the values of the timers other than the task timer
  MaxTick,       \* bound on tick_
  MaxDelay       \* bound on the distance of a timeout from the current tick

kTaskTimerPeriod == 2          \* static_cast<int>(kTimerFreq * 0.02)
kTaskTimerValue == "task"

ASSUME ValuesAssumption == kTaskTimerValue \notin Values
ASSUME MaxTickAssumption == MaxTick \in Nat
ASSUME MaxDelayAssumption == MaxDelay \in Nat

Timer(timeout, value) == [timeout |-> timeout, value |-> value]

TimerQueue == [tick : Nat,
               timers : SUBSET [timeout : Int, value : Values \cup {kTaskTimerValue}]]

VARIABLES
  q,                   \* the queue: tick_ and timers_
  sent,                \* the timers whose messages the latest Tick() sent, in order
  task_timer_timeout   \* what the latest Tick() returned

timer_vars == <<q, sent, task_timer_timeout>>

-----------------------------------------------------------------------------
(* The methods of TimerManager.                                            *)

AddTimer(s, timer) == [s EXCEPT !.timers = @ \cup {timer}]

Due(s) == {t \in s.timers : t.timeout <= s.tick}
TaskTimers(s) == {t \in s.timers : t.value = kTaskTimerValue}

\* The timer is on top of the queue once those in popped are gone.
IsTop(s, popped, t) ==
  /\ t \in s.timers \ popped
  /\ \A u \in s.timers \ popped : t.timeout <= u.timeout

\* Wrong: the loop never gets past the first timer that is due.
IsPass_OnlyOne(s, popped, endsAt) ==
  \/ endsAt = {} /\ popped = {} /\ Due(s) = {}
  \/ endsAt = {} /\ \E t \in Due(s) \ TaskTimers(s) : popped = {t} /\ IsTop(s, {}, t)
  \/ popped = {} /\ \E k \in Due(s) \cap TaskTimers(s) : endsAt = {k} /\ IsTop(s, {}, k)

\* The loop of Tick() pops and sends the timers in popped, earliest first,
\* and then ends: at the task timer, if endsAt has one, else because nothing
\* that is due is left.
IsPass(s, popped, endsAt) ==
  /\ popped \subseteq Due(s) \ TaskTimers(s)
  /\ \A t \in popped, u \in s.timers \ popped : t.timeout <= u.timeout
  /\ \/ endsAt = {} /\ Due(s) \subseteq popped
     \/ \E k \in Due(s) : endsAt = {k} /\ k \in TaskTimers(s) /\ IsTop(s, popped, k)

\* The orders in which timers can leave the queue.
PopOrders(popped) ==
  {o \in [1 .. Cardinality(popped) -> popped] :
     /\ {o[i] : i \in DOMAIN o} = popped
     /\ \A i, j \in DOMAIN o : i < j => o[i].timeout <= o[j].timeout}

\* Wrong: the task timer is armed from its old timeout plus one tick too many.
AfterPass_LateByOne(s, popped, endsAt) ==
  [s EXCEPT !.timers = (@ \ (popped \cup endsAt)) \cup
     {Timer(k.timeout + kTaskTimerPeriod + 1, kTaskTimerValue) : k \in endsAt}]

\* The queue after the pass; a task timer that expired is pushed again.
AfterPass(s, popped, endsAt) ==
  [s EXCEPT !.timers = (@ \ (popped \cup endsAt)) \cup
     {Timer(s.tick + kTaskTimerPeriod, kTaskTimerValue) : k \in endsAt}]

\* Tick(): the queue it leaves, the timers sent to the main task, its result.
TickResults(s) ==
  LET now == [s EXCEPT !.tick = @ + 1]
      passes == {p \in [popped : SUBSET Due(now), endsAt : SUBSET TaskTimers(now)] :
                   IsPass(now, p.popped, p.endsAt)}
  IN  {[queue |-> AfterPass(now, p.popped, p.endsAt),
        popped |-> p.popped,
        expired |-> p.endsAt # {}] : p \in passes}

-----------------------------------------------------------------------------
(* The queue driven by the timer interrupt and by its callers.             *)

\* InitializeTask() arms the task timer before the first interrupt.
TimerInit ==
  /\ q = [tick |-> 0, timers |-> {Timer(kTaskTimerPeriod, kTaskTimerValue)}]
  /\ sent = <<>>
  /\ task_timer_timeout = FALSE

Tick ==
  /\ q.tick < MaxTick
  /\ \E r \in TickResults(q) :
       /\ q' = r.queue
       /\ sent' \in PopOrders(r.popped)
       /\ task_timer_timeout' = r.expired

\* A caller arms a timer; the main loop, when it runs late, may ask for a
\* timeout that is already past.
Arm(delay, value) ==
  /\ Timer(q.tick + delay, value) \notin q.timers
  /\ q' = AddTimer(q, Timer(q.tick + delay, value))
  /\ UNCHANGED <<sent, task_timer_timeout>>

TimerNext ==
  \/ Tick
  \/ \E delay \in -MaxDelay .. MaxDelay, value \in Values : Arm(delay, value)

TimerSpec == TimerInit /\ [][TimerNext]_timer_vars

-----------------------------------------------------------------------------
(* Properties.                                                             *)

SentTimers == {sent[i] : i \in DOMAIN sent}

TimerTypeOK ==
  /\ q \in TimerQueue
  /\ SentTimers \subseteq [timeout : Int, value : Values]
  /\ task_timer_timeout \in BOOLEAN

\* There is exactly one task timer, armed for one of the next kTaskTimerPeriod
\* interrupts: however many other timers are armed, also in the past, Tick()
\* never loses the time slice, doubles it or lets it slip.
TaskTimerInv ==
  \E k \in q.timers :
    /\ TaskTimers(q) = {k}
    /\ q.tick < k.timeout
    /\ k.timeout <= q.tick + kTaskTimerPeriod

\* Although Tick() stops at the task timer, it sends every timer that had been
\* due before it, sends none early, and keeps every timer it does not send: a
\* timer is late by one interrupt at most.
PromptDelivery ==
  [][q'.tick # q.tick =>
       LET plain == q.timers \ TaskTimers(q)
       IN  /\ \A t \in plain : t.timeout <= q.tick => t \in SentTimers'
           /\ \A t \in SentTimers' : t \in plain /\ t.timeout <= q'.tick
           /\ q'.timers \ TaskTimers(q') = plain \ SentTimers']_timer_vars

\* The scheduler is called at the very interrupt its time slice ends.
SwitchOnTime ==
  [][q'.tick # q.tick =>
       (task_timer_timeout' <=> \E k \in TaskTimers(q) : k.timeout = q'.tick)]_timer_vars

=============================================================================
