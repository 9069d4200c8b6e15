------------------------------- MODULE Kernel -------------------------------
(***************************************************************************)
(* The running kernel: the main task (kernel_main_new_stack after          *)
(* InitializeTask), the terminal task (TaskTerminal), the idle task, the   *)
(* local APIC timer interrupt and the xHCI interrupt, over the scheduler   *)
(* of TaskManager and the timer queue of TimerManager.                     *)
(*                                                                         *)
(* A task runs only while the scheduler has it on the processor (tm.cpu).  *)
(* Interrupts are taken between any two of its steps, except where the     *)
(* code holds them off: a section between cli and sti is one step, and a   *)
(* task that slept inside one wakes with interrupts still off.  Drawing    *)
(* touches nothing the model keeps, so it belongs to the step before it.   *)
(*                                                                         *)
(* Timeouts are kept relative to tick_, which is all they are compared     *)
(* with, and a timeout in a message as its lag, the ticks since.           *)
(***************************************************************************)
EXTENDS Integers, Sequences, FiniteSets

CONSTANTS
  CursorPeriod,   \* kTimer05Sec, in ticks
  MaxEvents,      \* bound on the xHCI interrupts of a behaviour ...
  MaxKeyEvents,   \* ... and of one with a keyboard
  MaxInbox,       \* bound on the messages that wait for a task
  MaxLag          \* bound on the ticks a timeout waits to be handled

ASSUME CursorPeriodAssumption == CursorPeriod \in Nat \ {0}
ASSUME BoundsAssumption == MaxEvents \in Nat /\ MaxKeyEvents \in 0 .. MaxEvents /\ MaxInbox \in Nat /\ MaxLag \in Nat

VARIABLES
  tm,              \* the scheduler
  timers,          \* timers_, timeouts relative to tick_
  inbox,           \* Task::messages_
  pc,              \* where each task is in its code
  msg,             \* the message each task is handling
  layer_task_map,  \* the layers that belong to a task, or NoMap: not allocated
  active,          \* active_layer's layer
  events           \* xHCI interrupts still to come, and whether of a keyboard

vars == <<tm, timers, inbox, pc, msg, layer_task_map, active, events>>

NumTasks == 3
Main == 1
Idle == 2
Terminal == 3
Task == 1 .. NumTasks

TM == INSTANCE TaskManager WITH MaxTasks <- NumTasks, CallerLevels <- {-1}

kTextboxCursorTime == "cursor"
TQ == INSTANCE TimerManager
        WITH Values <- {kTextboxCursorTime}, MaxTick <- 1, MaxDelay <- CursorPeriod,
             q <- [tick |-> 0, timers |-> timers], sent <- <<>>,
             task_timer_timeout <- FALSE

NoMap == {"null"}
TextWindow == "text"
TerminalWindow == "terminal"
NoWindow == "none"
Window == {TextWindow, TerminalWindow, NoWindow}

kInterruptXHCI == [type |-> "kInterruptXHCI"]
kTimerTimeout(lag) == [type |-> "kTimerTimeout", lag |-> lag]
kKeyPush == [type |-> "kKeyPush"]
kLayer == [type |-> "kLayer"]
kLayerFinish == [type |-> "kLayerFinish"]
Unknown == [type |-> "unknown"]
NoMessage == [type |-> "none"]
Message == {kInterruptXHCI, kKeyPush, kLayer, kLayerFinish, Unknown}
           \cup {kTimerTimeout(lag) : lag \in 0 .. MaxLag}

BootPC == {"create", "wakeup", "maps", "devices"}

-----------------------------------------------------------------------------
(* Sending and receiving.                                                  *)

\* Task::SendMessage by a task, with interrupts off: append, then Wakeup().
SendMessage(id, m) ==
  /\ inbox' = [inbox EXCEPT ![id] = Append(@, m)]
  /\ tm' = TM!Wakeup(tm, id, -1)

OnProcessor(task, at) == tm.cpu = task /\ pc[task] = at
Goto(task, at) == pc' = [pc EXCEPT ![task] = at]

\* Wrong: interrupts are turned on again between ReceiveMessage and Sleep.
Receive_ThenSleep(task) ==
  /\ \/ OnProcessor(task, "loop") /\ inbox[task] # <<>>
        /\ msg' = [msg EXCEPT ![task] = Head(inbox[task])]
        /\ inbox' = [inbox EXCEPT ![task] = Tail(@)]
        /\ Goto(task, "handle")
        /\ UNCHANGED tm
     \/ OnProcessor(task, "loop") /\ inbox[task] = <<>>
        /\ Goto(task, "going to sleep")
        /\ UNCHANGED <<tm, inbox, msg>>
     \/ OnProcessor(task, "going to sleep")
        /\ tm' = TM!Sleep(tm, task)
        /\ Goto(task, "slept")
        /\ UNCHANGED <<inbox, msg>>
  /\ UNCHANGED <<timers, layer_task_map, active, events>>

\* cli; ReceiveMessage(); and, if there was none, Sleep().  The task sleeps
\* with interrupts off and turns them on again once it has been resumed.
Receive(task) ==
  /\ OnProcessor(task, "loop")
  /\ IF inbox[task] = <<>>
     THEN /\ tm' = TM!Sleep(tm, task)
          /\ Goto(task, "slept")
          /\ UNCHANGED <<inbox, msg>>
     ELSE /\ msg' = [msg EXCEPT ![task] = Head(inbox[task])]
          /\ inbox' = [inbox EXCEPT ![task] = Tail(@)]
          /\ Goto(task, "handle")
          /\ UNCHANGED tm
  /\ UNCHANGED <<timers, layer_task_map, active, events>>

\* sti; continue
Resume(task) ==
  /\ OnProcessor(task, "slept")
  /\ Goto(task, "loop")
  /\ UNCHANGED <<tm, timers, inbox, msg, layer_task_map, active, events>>

\* The end of a step that handled the message.
Done(task) ==
  /\ Goto(task, "loop")
  /\ msg' = [msg EXCEPT ![task] = NoMessage]

Handling(task, type) == OnProcessor(task, "handle") /\ msg[task].type = type

-----------------------------------------------------------------------------
(* The main task.                                                          *)

\* terminals = new ...; NewTask().InitContext(TaskTerminal, 0)
BootCreate ==
  /\ OnProcessor(Main, "create")
  /\ tm' = TM!InitContext(TM!NewTask(tm), Terminal)
  /\ Goto(Main, "wakeup")
  /\ UNCHANGED <<timers, inbox, msg, layer_task_map, active, events>>

\* .Wakeup(), with interrupts on.
BootWakeup ==
  /\ OnProcessor(Main, "wakeup")
  /\ tm' = TM!Wakeup(tm, Terminal, -1)
  /\ Goto(Main, "maps")
  /\ UNCHANGED <<timers, inbox, msg, layer_task_map, active, events>>

BootMaps ==
  /\ OnProcessor(Main, "maps")
  /\ layer_task_map' = {}
  /\ Goto(Main, "devices")
  /\ UNCHANGED <<tm, timers, inbox, msg, active, events>>

\* usb::xhci::Initialize(); InitializeMouse(); InitializeKeyboard();
BootDevices ==
  /\ OnProcessor(Main, "devices")
  /\ Goto(Main, "loop")
  /\ UNCHANGED <<tm, timers, inbox, msg, layer_task_map, active, events>>

\* usb::xhci::ProcessEvents(): mouse events move and activate layers ...
MainXhci ==
  /\ Handling(Main, "kInterruptXHCI")
  /\ Goto(Main, "events")
  /\ UNCHANGED <<tm, timers, inbox, msg, layer_task_map, active, events>>

MainMouse ==
  /\ OnProcessor(Main, "events")
  /\ active' \in {TextWindow, NoWindow} \cup
                 (IF pc[Terminal] \in {"start", "activate"} THEN {} ELSE {TerminalWindow})
  /\ UNCHANGED <<tm, timers, inbox, pc, msg, layer_task_map, events>>

\* ... and a key event has the observer of keyboard.cpp push a message on the
\* main task's own queue, without cli.
MainKeyEvent ==
  /\ events.keyboard
  /\ OnProcessor(Main, "events")
  /\ Len(inbox[Main]) < MaxInbox
  /\ Goto(Main, "pushing")
  /\ UNCHANGED <<tm, timers, inbox, msg, layer_task_map, active, events>>

MainPushKey ==
  /\ OnProcessor(Main, "pushing")
  /\ SendMessage(Main, kKeyPush)
  /\ Goto(Main, "events")
  /\ UNCHANGED <<timers, msg, layer_task_map, active, events>>

MainEventsDone ==
  /\ OnProcessor(Main, "events")
  /\ Done(Main)
  /\ UNCHANGED <<tm, timers, inbox, layer_task_map, active, events>>

\* Wrong: the cursor's timer is armed by the interrupt's message and again here
\* for the terminal.
MainTimer_ArmsTwice ==
  /\ Handling(Main, "kTimerTimeout")
  /\ timers' = timers \cup {TQ!Timer(CursorPeriod - msg[Main].lag, kTextboxCursorTime),
                            TQ!Timer(CursorPeriod, kTextboxCursorTime)}
  /\ Goto(Main, "blink")
  /\ msg' = [msg EXCEPT ![Main] = NoMessage]
  /\ UNCHANGED <<tm, inbox, layer_task_map, active, events>>

\* AddTimer(Timer{timeout + kTimer05Sec, kTextboxCursorTime}), then a redraw.
MainTimer ==
  /\ Handling(Main, "kTimerTimeout")
  /\ timers' = TQ!AddTimer([tick |-> 0, timers |-> timers],
                           TQ!Timer(CursorPeriod - msg[Main].lag, kTextboxCursorTime)).timers
  /\ Goto(Main, "blink")
  /\ msg' = [msg EXCEPT ![Main] = NoMessage]
  /\ UNCHANGED <<tm, inbox, layer_task_map, active, events>>

\* The message goes on to the terminal, which blinks its own cursor and does
\* not read the timeout in it.
MainForwardTimer ==
  /\ OnProcessor(Main, "blink")
  /\ SendMessage(Terminal, kTimerTimeout(0))
  /\ Done(Main)
  /\ UNCHANGED <<timers, layer_task_map, active, events>>

\* A key goes to the text window, which the main task draws itself, ...
MainKeyLocal ==
  /\ Handling(Main, "kKeyPush")
  /\ active = TextWindow \/ active \notin layer_task_map
  /\ Done(Main)
  /\ UNCHANGED <<tm, timers, inbox, layer_task_map, active, events>>

\* ... or to the task that owns the active layer: looked up, then sent.
MainKeyLookup ==
  /\ Handling(Main, "kKeyPush")
  /\ active # TextWindow /\ active \in layer_task_map
  /\ Goto(Main, "found")
  /\ UNCHANGED <<tm, timers, inbox, msg, layer_task_map, active, events>>

MainForwardKey ==
  /\ OnProcessor(Main, "found")
  /\ SendMessage(Terminal, kKeyPush)
  /\ Done(Main)
  /\ UNCHANGED <<timers, layer_task_map, active, events>>

\* ProcessLayerMessage, and the answer to the task that asked.
MainLayer ==
  /\ Handling(Main, "kLayer")
  /\ SendMessage(Terminal, kLayerFinish)
  /\ Done(Main)
  /\ UNCHANGED <<timers, layer_task_map, active, events>>

MainUnknown ==
  /\ Handling(Main, "unknown") \/ Handling(Main, "kLayerFinish")
  /\ Done(Main)
  /\ UNCHANGED <<tm, timers, inbox, layer_task_map, active, events>>

MainStep ==
  \/ BootCreate \/ BootWakeup \/ BootMaps \/ BootDevices
  \/ Receive(Main) \/ Resume(Main)
  \/ MainXhci \/ MainMouse \/ MainKeyEvent \/ MainPushKey \/ MainEventsDone
  \/ MainTimer \/ MainForwardTimer
  \/ MainKeyLocal \/ MainKeyLookup \/ MainForwardKey
  \/ MainLayer \/ MainUnknown

-----------------------------------------------------------------------------
(* The terminal task.                                                      *)

\* new Terminal: its Print("> ") asks the main task for a redraw and leaves
\* interrupts on, although TaskTerminal had turned them off.
TerminalConstruct ==
  /\ OnProcessor(Terminal, "start")
  /\ SendMessage(Main, kLayer)
  /\ Goto(Terminal, "activate")
  /\ UNCHANGED <<timers, msg, layer_task_map, active, events>>

TerminalActivate ==
  /\ OnProcessor(Terminal, "activate")
  /\ active' = TerminalWindow
  /\ Goto(Terminal, "register")
  /\ UNCHANGED <<tm, timers, inbox, msg, layer_task_map, events>>

TerminalRegister ==
  /\ OnProcessor(Terminal, "register")
  /\ layer_task_map' = layer_task_map \cup {TerminalWindow}
  /\ Goto(Terminal, "loop")
  /\ UNCHANGED <<tm, timers, inbox, msg, active, events>>

\* BlinkCursor, and a request to redraw it.
TerminalTimer ==
  /\ Handling(Terminal, "kTimerTimeout")
  /\ SendMessage(Main, kLayer)
  /\ Done(Terminal)
  /\ UNCHANGED <<timers, layer_task_map, active, events>>

\* InputKey: a command line prints any number of times, each a request.
TerminalPrint ==
  /\ Handling(Terminal, "kKeyPush")
  /\ Len(inbox[Main]) < MaxInbox
  /\ SendMessage(Main, kLayer)
  /\ UNCHANGED <<timers, pc, msg, layer_task_map, active, events>>

TerminalKey ==
  /\ Handling(Terminal, "kKeyPush")
  /\ SendMessage(Main, kLayer)
  /\ Done(Terminal)
  /\ UNCHANGED <<timers, layer_task_map, active, events>>

\* kLayerFinish is received and not looked at.
TerminalIgnore ==
  /\ Handling(Terminal, "kLayerFinish")
  /\ Done(Terminal)
  /\ UNCHANGED <<tm, timers, inbox, layer_task_map, active, events>>

TerminalStep ==
  \/ TerminalConstruct \/ TerminalActivate \/ TerminalRegister
  \/ Receive(Terminal) \/ Resume(Terminal)
  \/ TerminalTimer \/ TerminalPrint \/ TerminalKey \/ TerminalIgnore

-----------------------------------------------------------------------------
(* Interrupts.                                                             *)

\* The idle task halts with interrupts on; a task that has just been resumed
\* inside Sleep still has them off.
InterruptsOn == pc[tm.cpu] # "slept"

\* What the main task's queue can hold, and whether its own push is over,
\* once an interrupt handler has pushed m.  If the handler hit the main task
\* in the middle of push_back - storing at the end, then counting - one of
\* the messages is overwritten, the count misses one, or counts a slot that
\* holds what was there before.
Pushed(queue, m) ==
  [queue : {Append(queue, m)}, over : {FALSE}] \cup
  IF pc[Main] # "pushing" THEN {}
  ELSE [queue : {queue \o <<kKeyPush, m>>, Append(queue, m)} \cup
                {queue \o two : two \in {m, kKeyPush} \X Message},
        over : {TRUE}]

\* SendMessage(1, m) by an interrupt handler.
HandlerSends(m, queue) ==
  \E p \in Pushed(queue, m) :
    /\ inbox' = [inbox EXCEPT ![Main] = p.queue]
    /\ pc' = IF p.over THEN [pc EXCEPT ![Main] = "events"] ELSE pc

\* A tick passes for the messages that carry a timeout.
OlderMessage(m) == IF m.type = "kTimerTimeout" THEN [m EXCEPT !.lag = @ + 1] ELSE m
Older(queue) == [i \in DOMAIN queue |-> OlderMessage(queue[i])]

Rebase(s) == {TQ!Timer(t.timeout - s.tick, t.value) : t \in s.timers}

\* The clock of the model waits for tasks that are far behind it.
ClockMayTick ==
  /\ Len(inbox[Terminal]) < MaxInbox
  /\ kTimerTimeout(MaxLag) \notin {msg[Main]} \cup {inbox[Main][i] : i \in DOMAIN inbox[Main]}

\* LAPICTimerOnInterrupt: Tick(), then, if the task timer expired, SwitchTask.
TimerInterrupt ==
  /\ InterruptsOn
  /\ ClockMayTick
  /\ \E r \in TQ!TickResults([tick |-> 0, timers |-> timers]) :
       LET queue == Older(inbox[Main])
           woken == IF r.popped = {} THEN tm ELSE TM!Wakeup(tm, Main, -1)
       IN  /\ timers' = Rebase(r.queue)
           /\ IF r.popped = {}
              THEN inbox' = [inbox EXCEPT ![Main] = queue] /\ UNCHANGED pc
              ELSE \E t \in r.popped : HandlerSends(kTimerTimeout(1 - t.timeout), queue)
           /\ tm' = IF r.expired THEN TM!SwitchTask(woken) ELSE woken
  /\ msg' = [msg EXCEPT ![Main] = OlderMessage(@)]
  /\ UNCHANGED <<layer_task_map, active, events>>

\* IntHandlerXHCI, once the controller runs.
XhciInterrupt ==
  /\ InterruptsOn
  /\ pc[Main] \notin BootPC \ {"devices"}
  /\ events.left > 0
  /\ Len(inbox[Main]) < MaxInbox
  /\ HandlerSends(kInterruptXHCI, inbox[Main])
  /\ tm' = TM!Wakeup(tm, Main, -1)
  /\ events' = [events EXCEPT !.left = @ - 1]
  /\ UNCHANGED <<timers, msg, layer_task_map, active>>

-----------------------------------------------------------------------------

\* InitializeTask has just turned interrupts on: the cursor timer and the task
\* timer are armed, the scheduler has the main and the idle task.
Init ==
  /\ tm = TM!InitialManager
  /\ timers = {TQ!Timer(CursorPeriod, kTextboxCursorTime),
               TQ!Timer(TQ!kTaskTimerPeriod, TQ!kTaskTimerValue)}
  /\ inbox = [t \in Task |-> <<>>]
  /\ pc = [t \in Task |-> CASE t = Main -> "create"
                            [] t = Idle -> "halt"
                            [] t = Terminal -> "start"]
  /\ msg = [t \in Task |-> NoMessage]
  /\ layer_task_map = NoMap
  /\ active = NoWindow
  /\ events \in {[left |-> MaxEvents, keyboard |-> FALSE],
                 [left |-> MaxKeyEvents, keyboard |-> TRUE]}

Next == MainStep \/ TerminalStep \/ TimerInterrupt \/ XhciInterrupt

Spec == Init /\ [][Next]_vars

\* A task on the processor goes on, ProcessEvents returns, a command line is
\* executed, and the timer interrupts for ever.
FairSpec ==
  /\ Spec
  /\ WF_vars(MainStep /\ pc' # pc) /\ WF_vars(MainEventsDone)
  /\ WF_vars(TerminalStep /\ pc' # pc) /\ WF_vars(TerminalKey)
  /\ WF_vars(TimerInterrupt)

-----------------------------------------------------------------------------
(* Properties.                                                             *)

TypeOK ==
  /\ tm \in TM!TaskManagerState
  /\ timers \subseteq [timeout : Int,
                       value : {kTextboxCursorTime, TQ!kTaskTimerValue}]
  /\ \A t \in Task : \A i \in DOMAIN inbox[t] : inbox[t][i] \in Message
  /\ msg \in [Task -> Message \cup {NoMessage}]
  /\ layer_task_map = NoMap \/ layer_task_map \subseteq {TerminalWindow}
  /\ active \in Window
  /\ events \in [left : 0 .. MaxEvents, keyboard : BOOLEAN]

\* A task with a message waiting is awake: ReceiveMessage and Sleep are one
\* step to the senders, so no message arrives between them and is slept on.
NoLostWakeup == \A t \in Task : inbox[t] # <<>> => t \in tm.awake

\* The terminal uses layer_task_map and the mouse's layer, which the main task
\* sets up only after it has woken the terminal, with interrupts on: the
\* levels alone keep the terminal off the processor until they are there.
BootBeforeTerminal ==
  tm.cpu = Terminal => pc[Main] \notin BootPC /\ layer_task_map # NoMap

\* The cursor's timer is somewhere, once: armed, sent and waiting, or being
\* handled.  It is armed again only by the handling of its message, so were
\* it lost both cursors would stop for ever, were it doubled they would race.
\* With a keyboard it can be lost: its observer pushes on the main task's queue
\* without cli, and an interrupt in between leaves any message in its place.
Cursors ==
  Cardinality({t \in timers : t.value = kTextboxCursorTime})
  + Cardinality({i \in DOMAIN inbox[Main] : inbox[Main][i].type = "kTimerTimeout"})
  + (IF pc[Main] = "handle" /\ msg[Main].type = "kTimerTimeout" THEN 1 ELSE 0)
OneCursorTimer == events.keyboard \/ Cursors = 1

\* The text cursor and the terminal's cursor blink for ever: the interrupt wakes
\* the main task out of idling, the main task gets the processor at the next
\* switch and arms its timer again, and sleeps often enough for the terminal.
CursorsBlink == ~events.keyboard => []<><<MainForwardTimer>>_vars /\ []<><<TerminalTimer>>_vars

=============================================================================
