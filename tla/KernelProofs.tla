---------------------------- MODULE KernelProofs ----------------------------
(***************************************************************************)
(* The running kernel, for every period of the cursor and any number of    *)
(* interrupts and messages.  What the scheduler's methods keep is proved   *)
(* in TaskManagerProofs of every manager state, so those lemmas are cited  *)
(* here for the kernel's scheduler.                                        *)
(***************************************************************************)
EXTENDS Kernel, FiniteSetTheorems, SequenceTheorems, TLAPS

TP == INSTANCE TaskManagerProofs WITH MaxTasks <- NumTasks, CallerLevels <- {-1}

\* A message, whatever the lag of its timeout.
MessageRecord == {kInterruptXHCI, kKeyPush, kLayer, kLayerFinish, Unknown}
                 \cup [type : {"kTimerTimeout"}, lag : Int]
TimerRecord == [timeout : Int, value : {kTextboxCursorTime, TQ!kTaskTimerValue}]

Place == BootPC \cup {"loop", "slept", "handle", "events", "pushing", "blink", "found",
                     "start", "activate", "register", "halt"}

Typed ==
  /\ inbox \in [Task -> Seq(MessageRecord)]
  /\ msg \in [Task -> MessageRecord \cup {NoMessage}]
  /\ pc \in [Task -> Place]
  /\ timers \subseteq TimerRecord
  /\ events \in [left : Int, keyboard : BOOLEAN]

\* The main task is alone at the highest level.
LevelsOK(s) == s.level[Main] = 3 /\ s.level[Idle] = 0 /\ s.level[Terminal] = 1

\* Until the main task has set everything up nobody else runs.
BootInv ==
  /\ tm.latest_id = IF pc[Main] = "create" THEN Idle ELSE Terminal
  /\ pc[Main] \in BootPC => tm.cpu = Main
  /\ pc[Main] \notin BootPC \ {"devices"} => layer_task_map \subseteq {TerminalWindow}

\* The cursor's timer is in exactly one of three places: armed in ts, in a
\* message of the queue q, or in the message being handled.
CursorTimers(ts) == {t \in ts : t.value = kTextboxCursorTime}
CursorMessages(q) == {i \in DOMAIN q : q[i].type = "kTimerTimeout"}
OneCursor(ts, q, handled) ==
  \/ /\ \E t \in ts : CursorTimers(ts) = {t}
     /\ CursorMessages(q) = {} /\ ~handled
  \/ /\ \E i \in DOMAIN q : CursorMessages(q) = {i}
     /\ CursorTimers(ts) = {} /\ ~handled
  \/ /\ handled
     /\ CursorTimers(ts) = {} /\ CursorMessages(q) = {}

Handled == pc[Main] = "handle" /\ msg[Main].type = "kTimerTimeout"
CursorInv ==
  ~events.keyboard => pc[Main] # "pushing" /\ OneCursor(timers, inbox[Main], Handled)

\* The inductive invariant.
IInv ==
  /\ TP!ManagerInv(tm) /\ LevelsOK(tm)
  /\ Typed
  /\ BootInv
  /\ NoLostWakeup
  /\ CursorInv

-----------------------------------------------------------------------------
(* The scheduler.                                                          *)

\* The kernel's scheduler meets the assumptions of TaskManager.
LEMMA SchedulerAssumptions == TP!MaxTasksAssumption /\ TP!CallerLevelsAssumption
BY DEF TP!MaxTasksAssumption, TP!CallerLevelsAssumption, NumTasks, TP!Level, TP!kMaxLevel

\* The methods the kernel calls are those the lemmas are about.
LEMMA SameMethods ==
  ASSUME NEW s, NEW t
  PROVE  /\ TM!SwitchTask(s) = TP!SwitchTask(s)
         /\ TM!Sleep(s, t) = TP!Sleep(s, t)
         /\ TM!Wakeup(s, t, -1) = TP!Wakeup(s, t, -1)
         /\ TM!InitContext(TM!NewTask(s), t) = TP!InitContext(TP!NewTask(s), t)
         /\ TM!InitialManager = TP!InitialManager
<1> USE DEF TM!Level, TP!Level, TM!kMaxLevel, TP!kMaxLevel, TM!NoContext, TP!NoContext,
            TM!CurrentTask, TP!CurrentTask
<1>1. TM!SwitchTask(s) = TP!SwitchTask(s)
  BY DEF TM!SwitchTask, TP!SwitchTask, TM!RotateRunQueue, TP!RotateRunQueue,
         TM!SwitchContext, TP!SwitchContext, TM!HighestBusyLevel, TP!HighestBusyLevel
<1>2. TM!Sleep(s, t) = TP!Sleep(s, t)
  BY DEF TM!Sleep, TP!Sleep, TM!RotateRunQueue, TP!RotateRunQueue,
         TM!SwitchContext, TP!SwitchContext, TM!HighestBusyLevel, TP!HighestBusyLevel,
         TM!Erase, TP!Erase, TM!Queued, TP!Queued
<1>3. TM!Wakeup(s, t, -1) = TP!Wakeup(s, t, -1)
  BY DEF TM!Wakeup, TP!Wakeup, TM!ChangeLevelRunning, TP!ChangeLevelRunning
<1>4. TM!InitContext(TM!NewTask(s), t) = TP!InitContext(TP!NewTask(s), t)
  BY DEF TM!InitContext, TP!InitContext, TM!NewTask, TP!NewTask
<1>5. TM!InitialManager = TP!InitialManager
  BY DEF TM!InitialManager, TP!InitialManager, TM!TaskID, TP!TaskID, TM!MainTask, TP!MainTask,
         TM!IdleTask, TP!IdleTask, TM!kDefaultLevel, TP!kDefaultLevel
<1> QED BY <1>1, <1>2, <1>3, <1>4, <1>5

\* The task on the processor is awake.
LEMMA RunsAwake ==
  ASSUME NEW s, TP!ManagerInv(s)
  PROVE  s.cpu \in s.awake /\ s.awake \subseteq Task
<1>1. /\ s \in TP!TaskManagerState /\ TP!QueuesOK(s) /\ TP!ProcessorOK(s)
  BY DEF TP!ManagerInv
<1>2. TP!CurrentTask(s) \in s.awake
  BY <1>1, SchedulerAssumptions, TP!CurrentIsAwake DEF TP!ProcessorOK
<1> QED BY <1>1, <1>2 DEF TP!ProcessorOK, TP!TaskManagerState, TP!TaskID, Task

\* Wakeup of a task that exists.
LEMMA Woken ==
  ASSUME NEW s, TP!ManagerInv(s), LevelsOK(s), NEW t \in {Main, Terminal}, t <= s.latest_id
  PROVE  LET z == TM!Wakeup(s, t, -1)
         IN  /\ TP!ManagerInv(z) /\ LevelsOK(z)
             /\ z.awake = s.awake \cup {t} /\ z.cpu = s.cpu /\ z.latest_id = s.latest_id
<1> DEFINE z == TP!Wakeup(s, t, -1)
<1>1. s.latest_id \in Nat /\ t \in 1 .. s.latest_id /\ t # TP!IdleTask
  <2>1. s.latest_id \in Nat
    BY DEF TP!ManagerInv, TP!TaskManagerState
  <2> QED BY <2>1 DEF Main, Terminal, TP!IdleTask
<1>2. /\ TP!ManagerInv(z) /\ z.level = s.level
      /\ z.awake = s.awake \cup {t} /\ z.cpu = s.cpu /\ z.latest_id = s.latest_id
  <2>1. -1 \in {-1} \cup TP!Level /\ -1 < 0
    OBVIOUS
  <2>2. /\ TP!ManagerInv(z) /\ z.awake = s.awake \cup {t} /\ z.cpu = s.cpu
        /\ z.latest_id = s.latest_id
        /\ z.level = IF -1 < 0 THEN s.level ELSE [s.level EXCEPT ![t] = -1]
    BY <1>1, <2>1, SchedulerAssumptions, TP!WakeupInv
  <2> QED BY <2>1, <2>2
<1> QED BY <1>2, SameMethods DEF LevelsOK

\* Sleep of the main or the terminal task.
LEMMA Slept ==
  ASSUME NEW s, TP!ManagerInv(s), LevelsOK(s), NEW t \in {Main, Terminal}
  PROVE  LET z == TM!Sleep(s, t)
         IN  /\ TP!ManagerInv(z) /\ LevelsOK(z)
             /\ z.awake = s.awake \ {t} /\ z.latest_id = s.latest_id
<1> DEFINE z == TP!Sleep(s, t)
<1>1. t \in TP!TaskID /\ t # TP!IdleTask
  BY DEF Main, Terminal, TP!IdleTask, TP!TaskID, NumTasks
<1>2. /\ TP!ManagerInv(z) /\ z.level = s.level
      /\ z.awake = s.awake \ {t} /\ z.latest_id = s.latest_id
  BY <1>1, SchedulerAssumptions, TP!SleepInv
<1> QED BY <1>2, SameMethods DEF LevelsOK

\* A switch while the main task is awake gives it the processor.
LEMMA Switched ==
  ASSUME NEW s, TP!ManagerInv(s), LevelsOK(s)
  PROVE  LET z == TM!SwitchTask(s)
         IN  /\ TP!ManagerInv(z) /\ LevelsOK(z)
             /\ z.awake = s.awake /\ z.latest_id = s.latest_id
             /\ Main \in s.awake => z.cpu = Main
<1> DEFINE z == TP!SwitchTask(s)
<1>1. /\ TP!ManagerInv(z) /\ z.awake = s.awake /\ z.level = s.level
      /\ z.latest_id = s.latest_id
      /\ \A t \in s.awake : s.level[t] <= s.level[z.cpu]
  BY SchedulerAssumptions, TP!SwitchTaskInv
<1>2. z.cpu \in Task
  BY <1>1, RunsAwake
<1> HIDE DEF z
<1>3. Main \in s.awake => z.cpu = Main
  BY <1>1, <1>2 DEF LevelsOK, Task, NumTasks, Main, Idle, Terminal
<1>4. LevelsOK(z)
  BY <1>1 DEF LevelsOK
<1> QED BY <1>1, <1>3, <1>4, SameMethods DEF z

-----------------------------------------------------------------------------
(* The messages and the cursor's timer.                                    *)

\* What each kind of message is.
LEMMA MessageFields ==
  /\ {kInterruptXHCI, kKeyPush, kLayer, kLayerFinish, Unknown} \subseteq MessageRecord
  /\ \A lag \in Int : kTimerTimeout(lag) \in MessageRecord
                      /\ kTimerTimeout(lag).type = "kTimerTimeout"
  /\ \A m \in {kInterruptXHCI, kKeyPush, kLayer, kLayerFinish, Unknown, NoMessage} :
       m.type # "kTimerTimeout"
  /\ \A m \in MessageRecord \cup {NoMessage} :
       m.type = "kTimerTimeout" => m.lag \in Int /\ m \in MessageRecord
<1> USE DEF MessageRecord, kInterruptXHCI, kKeyPush, kLayer, kLayerFinish, Unknown, NoMessage
<1>1. \A lag \in Int : kTimerTimeout(lag) \in MessageRecord
                       /\ kTimerTimeout(lag).type = "kTimerTimeout"
  BY DEF kTimerTimeout
<1>2. \A m \in {kInterruptXHCI, kKeyPush, kLayer, kLayerFinish, Unknown, NoMessage} :
        m.type # "kTimerTimeout"
  OBVIOUS
<1>3. \A m \in MessageRecord \cup {NoMessage} :
        m.type = "kTimerTimeout" => m.lag \in Int /\ m \in MessageRecord
  OBVIOUS
<1> QED BY <1>1, <1>2, <1>3

\* A message at the end of a queue.
LEMMA Sent ==
  ASSUME NEW q \in Seq(MessageRecord), NEW m \in MessageRecord
  PROVE  /\ Append(q, m) \in Seq(MessageRecord) /\ Append(q, m) # <<>>
         /\ m.type # "kTimerTimeout" => CursorMessages(Append(q, m)) = CursorMessages(q)
         /\ m.type = "kTimerTimeout" =>
              CursorMessages(Append(q, m)) = CursorMessages(q) \cup {Len(q) + 1}
         /\ DOMAIN q \subseteq DOMAIN Append(q, m) /\ Len(q) + 1 \in DOMAIN Append(q, m)
<1>1. /\ Append(q, m) \in Seq(MessageRecord) /\ Append(q, m) # <<>>
      /\ Len(q) \in Nat
      /\ \A i \in 1 .. Len(q) : Append(q, m)[i] = q[i]
      /\ Append(q, m)[Len(q) + 1] = m
      /\ DOMAIN q = 1 .. Len(q) /\ DOMAIN Append(q, m) = 1 .. Len(q) + 1
  BY AppendProperties, LenProperties
<1>2. DOMAIN Append(q, m) = DOMAIN q \cup {Len(q) + 1}
  BY <1>1
<1> QED BY <1>1, <1>2 DEF CursorMessages

\* The message at the head is taken.
LEMMA Taken ==
  ASSUME NEW q \in Seq(MessageRecord), q # <<>>, NEW ts, OneCursor(ts, q, FALSE)
  PROVE  OneCursor(ts, Tail(q), Head(q).type = "kTimerTimeout")
<1>1. /\ Len(q) \in Nat \ {0} /\ Len(Tail(q)) = Len(q) - 1
      /\ \A i \in 1 .. Len(Tail(q)) : Tail(q)[i] = q[i + 1]
      /\ DOMAIN q = 1 .. Len(q) /\ DOMAIN Tail(q) = 1 .. Len(Tail(q))
      /\ Head(q) = q[1]
  BY HeadTailProperties, EmptySeq, LenProperties
<1>2. CASE CursorMessages(q) = {}
  <2>1. CursorMessages(Tail(q)) = {} /\ Head(q).type # "kTimerTimeout"
    BY <1>1, <1>2 DEF CursorMessages
  <2> QED BY <1>2, <2>1 DEF OneCursor
<1>3. ASSUME NEW i \in DOMAIN q, CursorMessages(q) = {i}
      PROVE  OneCursor(ts, Tail(q), Head(q).type = "kTimerTimeout")
  <2>1. CursorTimers(ts) = {}
    BY <1>3 DEF OneCursor
  <2>2. CASE i = 1
    <3>1. CursorMessages(Tail(q)) = {} /\ Head(q).type = "kTimerTimeout"
      BY <1>1, <1>3, <2>2 DEF CursorMessages
    <3> QED BY <2>1, <3>1 DEF OneCursor
  <2>3. CASE i # 1
    <3>1. Head(q).type # "kTimerTimeout"
      BY <1>1, <1>3, <2>3 DEF CursorMessages
    <3>2. i - 1 \in DOMAIN Tail(q) /\ Tail(q)[i - 1] = q[i]
      BY <1>1, <2>3
    <3>3. \A j \in DOMAIN Tail(q) : Tail(q)[j].type = "kTimerTimeout" => j = i - 1
      <4> SUFFICES ASSUME NEW j \in DOMAIN Tail(q), Tail(q)[j].type = "kTimerTimeout"
                   PROVE  j = i - 1
        OBVIOUS
      <4>1. j + 1 \in CursorMessages(q)
        BY <1>1 DEF CursorMessages
      <4> QED BY <1>1, <1>3, <4>1
    <3>4. Tail(q)[i - 1].type = "kTimerTimeout"
      BY <1>3, <3>2 DEF CursorMessages
    <3>5. CursorMessages(Tail(q)) = {i - 1}
      BY <3>2, <3>3, <3>4 DEF CursorMessages
    <3> QED BY <2>1, <3>1, <3>2, <3>5 DEF OneCursor
  <2> QED BY <2>2, <2>3
<1> QED BY <1>2, <1>3 DEF OneCursor

\* A tick leaves the messages what they are.
LEMMA OlderQueue ==
  ASSUME NEW q \in Seq(MessageRecord)
  PROVE  /\ Older(q) \in Seq(MessageRecord)
         /\ Older(q) # <<>> => q # <<>>
         /\ DOMAIN Older(q) = DOMAIN q
         /\ CursorMessages(Older(q)) = CursorMessages(q)
<1>1. \A m \in MessageRecord : /\ OlderMessage(m) \in MessageRecord
                               /\ OlderMessage(m).type = m.type
  BY DEF MessageRecord, OlderMessage, kInterruptXHCI, kKeyPush, kLayer, kLayerFinish, Unknown
<1>2. /\ Len(q) \in Nat /\ DOMAIN q = 1 .. Len(q) /\ \A i \in DOMAIN q : q[i] \in MessageRecord
  BY LenProperties, ElementOfSeq
<1>3. Older(q) \in [1 .. Len(q) -> MessageRecord] /\ DOMAIN Older(q) = DOMAIN q
  BY <1>1, <1>2 DEF Older
<1>4. Older(q) \in Seq(MessageRecord)
  BY <1>2, <1>3, SeqDef
<1>5. Older(q) # <<>> => q # <<>>
  BY <1>3, <1>4, EmptySeq, LenProperties
<1>6. CursorMessages(Older(q)) = CursorMessages(q)
  BY <1>1, <1>2, <1>3 DEF CursorMessages, Older
<1> QED BY <1>3, <1>4, <1>5, <1>6

\* Tick() sends cursor timers only, keeps the others, and the task timer is no
\* cursor's.
LEMMA Ticked ==
  ASSUME NEW ts \in SUBSET TimerRecord,
         NEW r \in TQ!TickResults([tick |-> 0, timers |-> ts])
  PROVE  /\ Rebase(r.queue) \subseteq TimerRecord
         /\ r.popped \subseteq CursorTimers(ts)
         /\ r.expired \in BOOLEAN
         /\ CursorTimers(Rebase(r.queue))
              = {TQ!Timer(t.timeout - 1, kTextboxCursorTime) : t \in CursorTimers(ts) \ r.popped}
<1> DEFINE now == [tick |-> 1, timers |-> ts]
<1>1. PICK popped \in SUBSET TQ!Due(now), endsAt \in SUBSET TQ!TaskTimers(now) :
        /\ TQ!IsPass(now, popped, endsAt)
        /\ r = [queue |-> TQ!AfterPass(now, popped, endsAt), popped |-> popped,
                expired |-> endsAt # {}]
  <2>1. [[tick |-> 0, timers |-> ts] EXCEPT !.tick = @ + 1] = now
    OBVIOUS
  <2> HIDE DEF now
  <2>2. \E p \in [popped : SUBSET TQ!Due(now), endsAt : SUBSET TQ!TaskTimers(now)] :
          /\ TQ!IsPass(now, p.popped, p.endsAt)
          /\ r = [queue |-> TQ!AfterPass(now, p.popped, p.endsAt), popped |-> p.popped,
                  expired |-> p.endsAt # {}]
    BY <2>1 DEF TQ!TickResults
  <2> QED BY <2>2
<1>2. /\ popped \subseteq ts /\ \A t \in popped : t.value # TQ!kTaskTimerValue
      /\ endsAt \subseteq ts /\ \A t \in endsAt : t.value = TQ!kTaskTimerValue
  BY <1>1 DEF TQ!IsPass, TQ!Due, TQ!TaskTimers
<1>3. kTextboxCursorTime # TQ!kTaskTimerValue
  BY DEF kTextboxCursorTime, TQ!kTaskTimerValue
<1>4. \A t \in ts : t.timeout \in Int /\ t.value \in {kTextboxCursorTime, TQ!kTaskTimerValue}
  BY DEF TimerRecord
<1>5. r.popped = popped /\ r.popped \subseteq CursorTimers(ts) /\ r.expired \in BOOLEAN
  BY <1>1, <1>2, <1>4 DEF CursorTimers
<1> DEFINE rest == (ts \ (popped \cup endsAt))
                   \cup {TQ!Timer(1 + TQ!kTaskTimerPeriod, TQ!kTaskTimerValue) : k \in endsAt}
<1>6. r.queue = [tick |-> 1, timers |-> rest]
  BY <1>1 DEF TQ!AfterPass
<1>7. \A u, v : TQ!Timer(u, v).timeout = u /\ TQ!Timer(u, v).value = v
  BY DEF TQ!Timer
<1>8. rest \subseteq TimerRecord
  BY <1>4 DEF TimerRecord, TQ!Timer, TQ!kTaskTimerPeriod
<1>9. CursorTimers(rest) = CursorTimers(ts) \ popped
  BY <1>2, <1>3, <1>7 DEF CursorTimers
<1> HIDE DEF rest
<1>10. Rebase(r.queue) = {TQ!Timer(t.timeout - 1, t.value) : t \in rest}
  BY <1>6 DEF Rebase
<1>11. Rebase(r.queue) \subseteq TimerRecord
  <2>1. \A t \in rest : TQ!Timer(t.timeout - 1, t.value) \in TimerRecord
    BY <1>8 DEF TQ!Timer, TimerRecord
  <2> QED BY <1>10, <2>1
<1>12. CursorTimers(Rebase(r.queue))
         = {TQ!Timer(t.timeout - 1, kTextboxCursorTime) : t \in CursorTimers(rest)}
  BY <1>7, <1>10 DEF CursorTimers
<1> QED BY <1>5, <1>9, <1>11, <1>12

-----------------------------------------------------------------------------
(* Steps that only change where a task is, and steps that send a message.  *)

LEMMA QuietStep ==
  ASSUME IInv, UNCHANGED <<tm, timers, inbox, events>>,
         pc' \in [Task -> Place], msg' \in [Task -> MessageRecord \cup {NoMessage}],
         pc[Main] # "create" /\ pc'[Main] # "create",
         pc'[Main] \in BootPC => pc[Main] \in BootPC,
         pc'[Main] \notin BootPC \ {"devices"} => layer_task_map' \subseteq {TerminalWindow},
         ~events.keyboard => pc'[Main] # "pushing",
         Handled' <=> Handled
  PROVE  IInv'
<1>1. Typed' /\ NoLostWakeup'
  BY DEF IInv, Typed, NoLostWakeup
<1>2. BootInv'
  BY DEF IInv, BootInv
<1>3. CursorInv'
  BY DEF IInv, CursorInv, OneCursor
<1> QED BY <1>1, <1>2, <1>3 DEF IInv

\* SendMessage leaves the task it is for with a message, and awake.
LEMMA Delivered ==
  ASSUME IInv, NEW id \in {Main, Terminal}, id <= tm.latest_id, NEW m \in MessageRecord,
         SendMessage(id, m)
  PROVE  /\ TP!ManagerInv(tm') /\ LevelsOK(tm')
         /\ tm'.cpu = tm.cpu /\ tm'.latest_id = tm.latest_id
         /\ inbox' \in [Task -> Seq(MessageRecord)]
         /\ inbox'[id] = Append(inbox[id], m)
         /\ \A t \in Task : t # id => inbox'[t] = inbox[t]
         /\ NoLostWakeup'
<1>1. tm' = TM!Wakeup(tm, id, -1) /\ inbox' = [inbox EXCEPT ![id] = Append(@, m)]
  BY DEF SendMessage
<1>2. /\ TP!ManagerInv(tm') /\ LevelsOK(tm')
      /\ tm'.cpu = tm.cpu /\ tm'.latest_id = tm.latest_id /\ tm'.awake = tm.awake \cup {id}
  BY <1>1, Woken DEF IInv
<1>3. id \in Task /\ inbox \in [Task -> Seq(MessageRecord)]
  BY DEF IInv, Typed, Main, Terminal, Task, NumTasks
<1>4. Append(inbox[id], m) \in Seq(MessageRecord)
  BY <1>3, Sent
<1>5. /\ inbox' \in [Task -> Seq(MessageRecord)]
      /\ inbox'[id] = Append(inbox[id], m)
      /\ \A t \in Task : t # id => inbox'[t] = inbox[t]
  BY <1>1, <1>3, <1>4
<1>6. NoLostWakeup'
  BY <1>2, <1>5 DEF IInv, NoLostWakeup
<1> QED BY <1>2, <1>5, <1>6

LEMMA SendingStep ==
  ASSUME IInv, NEW id \in {Main, Terminal}, NEW m \in MessageRecord, SendMessage(id, m),
         m.type # "kTimerTimeout" \/ id = Terminal,
         UNCHANGED <<timers, events, layer_task_map>>,
         pc' \in [Task -> Place], msg' \in [Task -> MessageRecord \cup {NoMessage}],
         pc[Main] \notin BootPC /\ pc'[Main] \notin BootPC,
         ~events.keyboard => pc'[Main] # "pushing",
         Handled' <=> Handled
  PROVE  IInv'
<1>1. pc[Main] # "create" /\ pc'[Main] # "create"
  BY DEF BootPC
<1>2. tm.latest_id = Terminal /\ id <= tm.latest_id
  BY <1>1 DEF IInv, BootInv, Main, Terminal
<1>3. /\ TP!ManagerInv(tm') /\ LevelsOK(tm')
      /\ tm'.cpu = tm.cpu /\ tm'.latest_id = tm.latest_id
      /\ inbox' \in [Task -> Seq(MessageRecord)]
      /\ inbox'[id] = Append(inbox[id], m)
      /\ \A t \in Task : t # id => inbox'[t] = inbox[t]
      /\ NoLostWakeup'
  BY <1>2, Delivered
<1>4. Typed'
  BY <1>3 DEF IInv, Typed
<1>5. BootInv'
  BY <1>1, <1>3 DEF IInv, BootInv
<1>6. CursorInv'
  <2>1. Main \in Task /\ Main # Terminal /\ inbox[Main] \in Seq(MessageRecord)
    BY DEF IInv, Typed, Main, Terminal, Task, NumTasks
  <2>2. /\ CursorMessages(inbox'[Main]) = CursorMessages(inbox[Main])
        /\ DOMAIN inbox[Main] \subseteq DOMAIN inbox'[Main]
    <3>1. CASE id = Main
      <4>1. inbox'[Main] = Append(inbox[Main], m) /\ m.type # "kTimerTimeout"
        BY <1>3, <2>1, <3>1
      <4> QED BY <2>1, <4>1, Sent
    <3>2. CASE id # Main
      <4>1. inbox'[Main] = inbox[Main]
        BY <1>3, <2>1, <3>2
      <4> QED BY <4>1
    <3> QED BY <3>1, <3>2
  <2> QED BY <2>2 DEF IInv, CursorInv, OneCursor
<1> QED BY <1>3, <1>4, <1>5, <1>6 DEF IInv

\* A task on the processor changes its own place and message only.
LEMMA Places ==
  ASSUME IInv, NEW task \in {Main, Terminal}, NEW at \in Place, Goto(task, at)
  PROVE  /\ pc' \in [Task -> Place] /\ pc'[task] = at
         /\ \A t \in Task : t # task => pc'[t] = pc[t]
         /\ msg' = msg \/ msg' = [msg EXCEPT ![task] = NoMessage]
              => /\ msg' \in [Task -> MessageRecord \cup {NoMessage}]
                 /\ \A t \in Task : t # task => msg'[t] = msg[t]
         /\ Main \in Task /\ Terminal \in Task /\ Main # Terminal
<1>1. task \in Task /\ Main \in Task /\ Terminal \in Task /\ Main # Terminal
  BY DEF Main, Terminal, Task, NumTasks
<1> QED BY <1>1 DEF Goto, IInv, Typed

\* While the terminal runs, the boot is over.
LEMMA TerminalRuns ==
  ASSUME IInv, tm.cpu = Terminal
  PROVE  /\ pc[Main] \notin BootPC /\ pc[Main] # "create"
         /\ layer_task_map \subseteq {TerminalWindow}
BY DEF IInv, BootInv, BootPC, Main, Terminal

\* The main task goes on to another place in its code.
LEMMA MainMoves ==
  ASSUME IInv, NEW at \in Place, Goto(Main, at), at # "create", at # "handle",
         msg' = msg \/ msg' = [msg EXCEPT ![Main] = NoMessage],
         pc[Main] # "create", at \in BootPC => pc[Main] \in BootPC,
         at \notin BootPC \ {"devices"} => layer_task_map' \subseteq {TerminalWindow},
         ~events.keyboard => at # "pushing",
         ~Handled,
         UNCHANGED <<tm, timers, inbox, events>>
  PROVE  IInv'
<1>1. /\ pc' \in [Task -> Place] /\ pc'[Main] = at
      /\ msg' \in [Task -> MessageRecord \cup {NoMessage}]
  BY Places
<1>2. ~Handled'
  BY <1>1 DEF Handled
<1> QED BY <1>1, <1>2, QuietStep

LEMMA MainQuietInv ==
  ASSUME IInv,
         \/ BootMaps \/ BootDevices \/ Resume(Main)
         \/ MainXhci \/ MainMouse \/ MainKeyEvent \/ MainEventsDone
         \/ MainKeyLocal \/ MainKeyLookup \/ MainUnknown
  PROVE  IInv'
<1> USE DEF BootPC, Place, OnProcessor, Handling, Done, Handled
<1>1. CASE BootMaps
  <2>1. /\ Goto(Main, "devices") /\ pc[Main] = "maps" /\ layer_task_map' = {} /\ msg' = msg
        /\ UNCHANGED <<tm, timers, inbox, events>>
    BY <1>1 DEF BootMaps
  <2> QED BY <2>1, MainMoves
<1>2. CASE ~BootMaps /\ ~MainMouse
  <2>1. PICK at \in {"loop", "events", "pushing", "found"} :
          /\ Goto(Main, at)
          /\ at = "pushing" => events.keyboard
          /\ msg' = msg \/ msg' = [msg EXCEPT ![Main] = NoMessage]
          /\ pc[Main] \notin BootPC \ {"devices"}
          /\ ~Handled
          /\ UNCHANGED <<layer_task_map, tm, timers, inbox, events>>
    <3>1. CASE BootDevices
      BY <3>1 DEF BootDevices
    <3>2. CASE Resume(Main)
      BY <3>2 DEF Resume
    <3>3. CASE MainXhci
      BY <3>3 DEF MainXhci
    <3>4. CASE MainKeyEvent
      BY <3>4 DEF MainKeyEvent
    <3>5. CASE MainEventsDone
      BY <3>5 DEF MainEventsDone
    <3>6. CASE MainKeyLocal
      BY <3>6 DEF MainKeyLocal
    <3>7. CASE MainKeyLookup
      BY <3>7 DEF MainKeyLookup
    <3>8. CASE MainUnknown
      BY <3>8 DEF MainUnknown
    <3> QED BY <1>2, <3>1, <3>2, <3>3, <3>4, <3>5, <3>6, <3>7, <3>8
  <2>2. layer_task_map' \subseteq {TerminalWindow}
    BY <2>1 DEF IInv, BootInv
  <2>3. at \in Place /\ at \notin BootPC /\ at # "create" /\ at # "handle" /\ pc[Main] # "create"
    BY <2>1
  <2> HIDE DEF BootPC, Place, Handled
  <2> QED BY <2>1, <2>2, <2>3, MainMoves
<1>3. CASE MainMouse
  <2>1. pc[Main] = "events" /\ UNCHANGED <<pc, msg, layer_task_map>>
    BY <1>3 DEF MainMouse
  <2>2. layer_task_map' \subseteq {TerminalWindow}
    BY <2>1 DEF IInv, BootInv
  <2>3. pc' \in [Task -> Place] /\ msg' \in [Task -> MessageRecord \cup {NoMessage}]
    BY <2>1 DEF IInv, Typed
  <2> QED BY <1>3, <2>1, <2>2, <2>3, QuietStep DEF MainMouse
<1> QED BY <1>1, <1>2, <1>3

LEMMA TerminalQuietInv ==
  ASSUME IInv, \/ TerminalActivate \/ TerminalRegister
               \/ Resume(Terminal) \/ TerminalIgnore
  PROVE  IInv'
<1>1. PICK at \in {"register", "loop"} :
        /\ tm.cpu = Terminal /\ Goto(Terminal, at)
        /\ msg' = msg \/ msg' = [msg EXCEPT ![Terminal] = NoMessage]
        /\ UNCHANGED <<tm, timers, inbox, events>>
        /\ layer_task_map' \subseteq layer_task_map \cup {TerminalWindow}
  <2>1. CASE TerminalActivate
    BY <2>1 DEF TerminalActivate, OnProcessor
  <2>2. CASE TerminalRegister
    BY <2>2 DEF TerminalRegister, OnProcessor
  <2>3. CASE Resume(Terminal)
    BY <2>3 DEF Resume, OnProcessor
  <2>4. CASE TerminalIgnore
    BY <2>4 DEF TerminalIgnore, Handling, OnProcessor, Done
  <2> QED BY <2>1, <2>2, <2>3, <2>4
<1>2. /\ pc[Main] \notin BootPC /\ pc[Main] # "create"
      /\ layer_task_map' \subseteq {TerminalWindow}
  BY <1>1, TerminalRuns
<1>3. /\ pc' \in [Task -> Place] /\ msg' \in [Task -> MessageRecord \cup {NoMessage}]
      /\ pc'[Main] = pc[Main] /\ msg'[Main] = msg[Main]
  BY <1>1, Places DEF Place
<1>4. ~events.keyboard => pc'[Main] # "pushing"
  BY <1>3 DEF IInv, CursorInv
<1> QED BY <1>1, <1>2, <1>3, <1>4, QuietStep DEF Handled

LEMMA MainSendsInv ==
  ASSUME IInv, MainPushKey \/ MainForwardTimer \/ MainForwardKey \/ MainLayer
  PROVE  IInv'
<1>1. PICK id \in {Main, Terminal}, m \in MessageRecord, at \in {"events", "loop"} :
        /\ SendMessage(id, m) /\ Goto(Main, at)
        /\ m.type # "kTimerTimeout" \/ id = Terminal
        /\ msg' = msg \/ msg' = [msg EXCEPT ![Main] = NoMessage]
        /\ UNCHANGED <<timers, events, layer_task_map>>
        /\ pc[Main] \notin BootPC /\ ~Handled
  <2> USE DEF OnProcessor, Handling, Done, Handled, BootPC
  <2>1. CASE MainPushKey
    BY <2>1, MessageFields DEF MainPushKey
  <2>2. CASE MainForwardTimer
    <3>1. kTimerTimeout(0) \in MessageRecord
      BY MessageFields
    <3> QED BY <2>2, <3>1 DEF MainForwardTimer
  <2>3. CASE MainForwardKey
    BY <2>3, MessageFields DEF MainForwardKey
  <2>4. CASE MainLayer
    BY <2>4, MessageFields DEF MainLayer
  <2> QED BY <2>1, <2>2, <2>3, <2>4
<1>2. /\ pc' \in [Task -> Place] /\ msg' \in [Task -> MessageRecord \cup {NoMessage}]
      /\ pc'[Main] = at
  BY <1>1, Places DEF Place
<1>3. pc'[Main] \notin BootPC /\ pc'[Main] # "pushing" /\ ~Handled'
  BY <1>2 DEF BootPC, Handled
<1> QED BY <1>1, <1>2, <1>3, SendingStep

LEMMA TerminalSendsInv ==
  ASSUME IInv, TerminalConstruct \/ TerminalTimer \/ TerminalPrint \/ TerminalKey
  PROVE  IInv'
<1>1. /\ tm.cpu = Terminal /\ SendMessage(Main, kLayer)
      /\ UNCHANGED <<timers, events, layer_task_map>>
      /\ \/ UNCHANGED <<pc, msg>>
         \/ \E at \in {"activate", "loop"} :
              /\ Goto(Terminal, at)
              /\ msg' = msg \/ msg' = [msg EXCEPT ![Terminal] = NoMessage]
  <2> USE DEF OnProcessor, Handling, Done
  <2>1. CASE TerminalConstruct
    BY <2>1 DEF TerminalConstruct
  <2>2. CASE TerminalTimer
    BY <2>2 DEF TerminalTimer
  <2>3. CASE TerminalPrint
    BY <2>3 DEF TerminalPrint
  <2>4. CASE TerminalKey
    BY <2>4 DEF TerminalKey
  <2> QED BY <2>1, <2>2, <2>3, <2>4
<1>2. /\ pc' \in [Task -> Place] /\ msg' \in [Task -> MessageRecord \cup {NoMessage}]
      /\ pc'[Main] = pc[Main] /\ msg'[Main] = msg[Main]
  <2>1. CASE UNCHANGED <<pc, msg>>
    BY <2>1 DEF IInv, Typed
  <2>2. CASE \E at \in {"activate", "loop"} :
              /\ Goto(Terminal, at)
              /\ msg' = msg \/ msg' = [msg EXCEPT ![Terminal] = NoMessage]
    <3>1. {"activate", "loop"} \subseteq Place
      BY DEF Place
    <3> QED BY <2>2, <3>1, Places
  <2> QED BY <1>1, <2>1, <2>2
<1>3. pc[Main] \notin BootPC
  BY <1>1, TerminalRuns
<1>4. (~events.keyboard => pc'[Main] # "pushing") /\ (Handled' <=> Handled)
  BY <1>2 DEF IInv, CursorInv, Handled
<1>5. kLayer \in MessageRecord /\ kLayer.type # "kTimerTimeout"
  BY MessageFields
<1> QED BY <1>1, <1>2, <1>3, <1>4, <1>5, SendingStep

\* Receive: the queue was empty and the task sleeps, or its head is taken.
LEMMA ReceiveInv ==
  ASSUME IInv, NEW task \in {Main, Terminal}, Receive(task)
  PROVE  IInv'
<1>1. /\ tm.cpu = task /\ pc[task] = "loop"
      /\ UNCHANGED <<timers, layer_task_map, events>>
  BY DEF Receive, OnProcessor
<1>2. /\ pc[Main] \notin BootPC /\ pc[Main] # "create"
      /\ layer_task_map \subseteq {TerminalWindow}
  <2>1. CASE task = Main
    BY <1>1, <2>1 DEF BootPC, IInv, BootInv
  <2>2. CASE task = Terminal
    BY <1>1, <2>2, TerminalRuns
  <2> QED BY <2>1, <2>2
<1>3. /\ Main \in Task /\ Terminal \in Task /\ Main # Terminal
      /\ inbox \in [Task -> Seq(MessageRecord)]
      /\ msg \in [Task -> MessageRecord \cup {NoMessage}] /\ pc \in [Task -> Place]
      /\ task = Main => ~Handled
      /\ ~events.keyboard => pc[Main] # "pushing"
  BY <1>1 DEF IInv, Typed, CursorInv, Handled, Main, Terminal, Task, NumTasks
<1>4. CASE inbox[task] = <<>>
  <2>1. tm' = TM!Sleep(tm, task) /\ Goto(task, "slept") /\ UNCHANGED <<inbox, msg>>
    BY <1>4 DEF Receive
  <2>2. /\ TP!ManagerInv(tm') /\ LevelsOK(tm')
        /\ tm'.awake = tm.awake \ {task} /\ tm'.latest_id = tm.latest_id
    BY <2>1, Slept DEF IInv
  <2>3. /\ pc' \in [Task -> Place] /\ pc'[task] = "slept"
        /\ task # Main => pc'[Main] = pc[Main]
    BY <1>3, <2>1 DEF Goto, Place
  <2>4. /\ pc'[Main] \notin BootPC /\ pc'[Main] # "create"
        /\ (Handled' <=> Handled) /\ (~events.keyboard => pc'[Main] # "pushing")
    <3>1. CASE task = Main
      BY <1>3, <2>3, <3>1 DEF BootPC, Handled
    <3>2. CASE task # Main
      BY <1>2, <1>3, <2>1, <2>3, <3>2 DEF Handled
    <3> QED BY <3>1, <3>2
  <2>5. Typed' /\ NoLostWakeup'
    BY <1>1, <1>4, <2>1, <2>2, <2>3 DEF IInv, Typed, NoLostWakeup
  <2>6. BootInv'
    BY <1>1, <1>2, <2>2, <2>4 DEF IInv, BootInv
  <2>7. CursorInv'
    BY <1>1, <2>1, <2>4 DEF IInv, CursorInv, OneCursor
  <2> QED BY <2>2, <2>5, <2>6, <2>7 DEF IInv
<1>5. CASE inbox[task] # <<>>
  <2>1. /\ msg' = [msg EXCEPT ![task] = Head(inbox[task])]
        /\ inbox' = [inbox EXCEPT ![task] = Tail(@)]
        /\ Goto(task, "handle") /\ UNCHANGED tm
    BY <1>5 DEF Receive
  <2>2. inbox[task] \in Seq(MessageRecord) /\ task \in Task
    BY <1>3
  <2>3. Head(inbox[task]) \in MessageRecord /\ Tail(inbox[task]) \in Seq(MessageRecord)
    BY <1>5, <2>2, HeadTailProperties
  <2>4. /\ pc' \in [Task -> Place] /\ pc'[task] = "handle"
        /\ task # Main => pc'[Main] = pc[Main]
    BY <1>3, <2>1 DEF Goto, Place
  <2>5. /\ msg' \in [Task -> MessageRecord \cup {NoMessage}]
        /\ msg'[task] = Head(inbox[task])
        /\ inbox' \in [Task -> Seq(MessageRecord)]
        /\ inbox'[task] = Tail(inbox[task])
        /\ \A t \in Task : t # task => inbox'[t] = inbox[t] /\ msg'[t] = msg[t]
    BY <1>3, <2>1, <2>2, <2>3
  <2>6. Typed' /\ NoLostWakeup'
    BY <1>1, <1>5, <2>1, <2>4, <2>5 DEF IInv, Typed, NoLostWakeup
  <2>7. pc'[Main] \notin BootPC /\ pc'[Main] # "create" /\ (~events.keyboard => pc'[Main] # "pushing")
    <3>1. CASE task = Main
      BY <2>4, <3>1 DEF BootPC
    <3>2. CASE task # Main
      BY <1>2, <1>3, <2>4, <3>2
    <3> QED BY <3>1, <3>2
  <2>8. BootInv'
    BY <1>1, <1>2, <2>1, <2>7 DEF IInv, BootInv
  <2>9. ASSUME ~events.keyboard
        PROVE  OneCursor(timers', inbox'[Main], Handled')
    <3>1. OneCursor(timers, inbox[Main], Handled)
      BY <2>9 DEF IInv, CursorInv
    <3>2. CASE task = Main
      <4>1. OneCursor(timers, inbox[Main], FALSE)
        BY <1>3, <3>1, <3>2 DEF OneCursor
      <4>2. OneCursor(timers, Tail(inbox[Main]), Head(inbox[Main]).type = "kTimerTimeout")
        BY <1>5, <2>2, <3>2, <4>1, Taken
      <4>3. Handled' <=> Head(inbox[Main]).type = "kTimerTimeout"
        BY <2>4, <2>5, <3>2 DEF Handled
      <4> QED BY <1>1, <2>5, <3>2, <4>2, <4>3 DEF OneCursor
    <3>3. CASE task # Main
      <4>1. Handled' <=> Handled
        BY <1>3, <2>4, <2>5, <3>3 DEF Handled
      <4> QED BY <1>1, <1>3, <2>5, <3>1, <3>3, <4>1 DEF OneCursor
    <3> QED BY <3>2, <3>3
  <2>10. CursorInv'
    BY <1>1, <2>7, <2>9 DEF CursorInv
  <2> QED BY <2>1, <2>6, <2>8, <2>10 DEF IInv
<1> QED BY <1>4, <1>5

\* The main task arms the cursor's timer whose message it handles.
LEMMA MainTimerInv ==
  ASSUME IInv, MainTimer
  PROVE  IInv'
<1> DEFINE new == TQ!Timer(CursorPeriod - msg[Main].lag, kTextboxCursorTime)
<1>1. /\ pc[Main] = "handle" /\ msg[Main].type = "kTimerTimeout"
      /\ timers' = timers \cup {new}
      /\ Goto(Main, "blink") /\ msg' = [msg EXCEPT ![Main] = NoMessage]
      /\ UNCHANGED <<tm, inbox, layer_task_map, active, events>>
  BY DEF MainTimer, Handling, OnProcessor, TQ!AddTimer
<1>2. /\ pc' \in [Task -> Place] /\ pc'[Main] = "blink"
      /\ msg' \in [Task -> MessageRecord \cup {NoMessage}]
      /\ Main \in Task
  <2>1. "blink" \in Place
    BY DEF Place
  <2> QED BY <1>1, <2>1, Places
<1>3. new \in TimerRecord /\ new.value = kTextboxCursorTime
  <2>1. msg[Main] \in MessageRecord \cup {NoMessage}
    BY <1>2 DEF IInv, Typed
  <2>2. msg[Main].lag \in Int
    BY <1>1, <2>1, MessageFields
  <2> QED BY <2>2, CursorPeriodAssumption DEF TQ!Timer, TimerRecord
<1> HIDE DEF new
<1>4. Typed' /\ NoLostWakeup'
  BY <1>1, <1>2, <1>3 DEF IInv, Typed, NoLostWakeup
<1>5. BootInv'
  BY <1>1, <1>2 DEF IInv, BootInv, BootPC
<1>6. CursorInv'
  <2>1. Handled /\ ~Handled'
    BY <1>1, <1>2 DEF Handled
  <2>2. ~events.keyboard => CursorTimers(timers) = {} /\ CursorMessages(inbox[Main]) = {}
    BY <2>1 DEF IInv, CursorInv, OneCursor
  <2>3. ~events.keyboard => CursorTimers(timers') = {new}
    BY <1>1, <1>3, <2>2 DEF CursorTimers
  <2> QED BY <1>1, <1>2, <2>1, <2>2, <2>3 DEF CursorInv, OneCursor
<1> QED BY <1>1, <1>4, <1>5, <1>6 DEF IInv

LEMMA BootCreateInv ==
  ASSUME IInv, BootCreate
  PROVE  IInv'
<1>1. /\ pc[Main] = "create" /\ tm.cpu = Main
      /\ tm' = TM!InitContext(TM!NewTask(tm), Terminal)
      /\ Goto(Main, "wakeup")
      /\ UNCHANGED <<timers, inbox, msg, layer_task_map, active, events>>
  BY DEF BootCreate, OnProcessor
<1>2. tm.latest_id = Idle /\ Terminal = tm.latest_id + 1 /\ tm.latest_id < NumTasks
  BY <1>1 DEF IInv, BootInv, Idle, Terminal, NumTasks
<1>3. tm' = TP!InitContext(TP!NewTask(tm), tm.latest_id + 1)
  BY <1>1, <1>2, SameMethods
<1>4. /\ TP!ManagerInv(tm') /\ tm'.latest_id = Terminal
      /\ tm'.awake = tm.awake /\ tm'.level = tm.level /\ tm'.cpu = Main
  BY <1>1, <1>2, <1>3, SchedulerAssumptions, TP!CreateInv DEF IInv
<1>5. pc' \in [Task -> Place] /\ pc'[Main] = "wakeup"
  <2>1. "wakeup" \in Place
    BY DEF Place, BootPC
  <2> QED BY <1>1, <2>1, Places
<1>6. Typed' /\ NoLostWakeup' /\ LevelsOK(tm')
  BY <1>1, <1>4, <1>5 DEF IInv, Typed, NoLostWakeup, LevelsOK
<1>7. BootInv'
  BY <1>4, <1>5 DEF BootInv, BootPC
<1>8. CursorInv'
  BY <1>1, <1>5 DEF IInv, CursorInv, OneCursor, Handled
<1> QED BY <1>4, <1>6, <1>7, <1>8 DEF IInv

LEMMA BootWakeupInv ==
  ASSUME IInv, BootWakeup
  PROVE  IInv'
<1>1. /\ pc[Main] = "wakeup" /\ tm.cpu = Main
      /\ tm' = TM!Wakeup(tm, Terminal, -1)
      /\ Goto(Main, "maps")
      /\ UNCHANGED <<timers, inbox, msg, layer_task_map, active, events>>
  BY DEF BootWakeup, OnProcessor
<1>2. tm.latest_id = Terminal /\ Terminal <= tm.latest_id
  BY <1>1 DEF IInv, BootInv, Terminal
<1>3. /\ TP!ManagerInv(tm') /\ LevelsOK(tm') /\ tm'.latest_id = Terminal
      /\ tm'.awake = tm.awake \cup {Terminal} /\ tm'.cpu = Main
  BY <1>1, <1>2, Woken DEF IInv
<1>4. pc' \in [Task -> Place] /\ pc'[Main] = "maps"
  <2>1. "maps" \in Place
    BY DEF Place, BootPC
  <2> QED BY <1>1, <2>1, Places
<1>5. Typed' /\ NoLostWakeup'
  BY <1>1, <1>3, <1>4 DEF IInv, Typed, NoLostWakeup
<1>6. BootInv'
  BY <1>3, <1>4 DEF BootInv, BootPC
<1>7. CursorInv'
  BY <1>1, <1>4 DEF IInv, CursorInv, OneCursor, Handled
<1> QED BY <1>3, <1>5, <1>6, <1>7 DEF IInv

-----------------------------------------------------------------------------
(* Interrupts.                                                             *)

\* What an interrupt handler's SendMessage leaves in the main task's queue; it
\* is a plain append unless it hit the main task in its own push.
LEMMA HandlerSent ==
  ASSUME IInv, NEW m \in MessageRecord, NEW q \in Seq(MessageRecord), HandlerSends(m, q)
  PROVE  /\ inbox' \in [Task -> Seq(MessageRecord)]
         /\ \A t \in Task : t # Main => inbox'[t] = inbox[t]
         /\ pc' \in [Task -> Place]
         /\ pc'[Main] = pc[Main] \/ (pc[Main] = "pushing" /\ pc'[Main] = "events")
         /\ pc[Main] # "pushing" => inbox'[Main] = Append(q, m) /\ pc' = pc
<1>1. PICK p \in Pushed(q, m) :
        /\ inbox' = [inbox EXCEPT ![Main] = p.queue]
        /\ pc' = IF p.over THEN [pc EXCEPT ![Main] = "events"] ELSE pc
  BY DEF HandlerSends
<1>2. /\ Main \in Task /\ inbox \in [Task -> Seq(MessageRecord)] /\ pc \in [Task -> Place]
      /\ "events" \in Place
  BY DEF IInv, Typed, Main, Task, NumTasks, Place
<1>3. Message \subseteq MessageRecord
  <2>1. \A lag \in 0 .. MaxLag : kTimerTimeout(lag) \in MessageRecord
    BY MessageFields, BoundsAssumption
  <2> QED BY <2>1, MessageFields DEF Message
<1>4. \A a, b \in MessageRecord : <<a, b>> \in Seq(MessageRecord)
  OBVIOUS
<1>5. \A a, b \in MessageRecord : q \o <<a, b>> \in Seq(MessageRecord)
  BY <1>4, ConcatProperties
<1>6. Append(q, m) \in Seq(MessageRecord)
  BY Sent
<1>7. kKeyPush \in MessageRecord
  BY MessageFields
<1>8. /\ p.queue \in Seq(MessageRecord) /\ p.over \in BOOLEAN
      /\ p.over => pc[Main] = "pushing"
      /\ pc[Main] # "pushing" => p.queue = Append(q, m)
  <2> DEFINE torn == {q \o <<kKeyPush, m>>, Append(q, m)} \cup
                     {q \o two : two \in {m, kKeyPush} \X Message}
  <2>1. \A z \in torn : z \in Seq(MessageRecord)
    <3> SUFFICES ASSUME NEW z \in torn
                 PROVE  z \in Seq(MessageRecord)
      OBVIOUS
    <3>1. \/ z = q \o <<kKeyPush, m>> \/ z = Append(q, m)
          \/ \E two \in {m, kKeyPush} \X Message : z = q \o two
      BY Zenon
    <3>2. \A two \in {m, kKeyPush} \X Message : \E a, b \in MessageRecord : two = <<a, b>>
      BY <1>3, <1>7
    <3>3. q \o <<kKeyPush, m>> \in Seq(MessageRecord)
      BY <1>5, <1>7
    <3>4. \A two \in {m, kKeyPush} \X Message : q \o two \in Seq(MessageRecord)
      BY <1>5, <3>2, Zenon
    <3> QED BY <1>6, <3>1, <3>3, <3>4, Zenon
  <2>2. p \in [queue : {Append(q, m)}, over : {FALSE}] \cup
              IF pc[Main] # "pushing" THEN {} ELSE [queue : torn, over : {TRUE}]
    BY <1>1 DEF Pushed
  <2> HIDE DEF torn
  <2>3. \/ p.queue = Append(q, m) /\ p.over = FALSE
        \/ pc[Main] = "pushing" /\ p.queue \in torn /\ p.over = TRUE
    BY <2>2
  <2> QED BY <1>6, <2>1, <2>3
<1> QED BY <1>1, <1>2, <1>8

LEMMA XhciInterruptInv ==
  ASSUME IInv, XhciInterrupt
  PROVE  IInv'
<1>1. /\ pc[Main] \notin BootPC \ {"devices"}
      /\ HandlerSends(kInterruptXHCI, inbox[Main])
      /\ tm' = TM!Wakeup(tm, Main, -1)
      /\ events' = [events EXCEPT !.left = @ - 1]
      /\ UNCHANGED <<timers, msg, layer_task_map, active>>
  BY DEF XhciInterrupt
<1>2. /\ kInterruptXHCI \in MessageRecord /\ kInterruptXHCI.type # "kTimerTimeout"
      /\ Main \in Task /\ inbox[Main] \in Seq(MessageRecord)
  BY MessageFields DEF IInv, Typed, Main, Task, NumTasks
<1>3. /\ inbox' \in [Task -> Seq(MessageRecord)]
      /\ \A t \in Task : t # Main => inbox'[t] = inbox[t]
      /\ pc' \in [Task -> Place]
      /\ pc'[Main] = pc[Main] \/ (pc[Main] = "pushing" /\ pc'[Main] = "events")
      /\ pc[Main] # "pushing" => inbox'[Main] = Append(inbox[Main], kInterruptXHCI) /\ pc' = pc
  BY <1>1, <1>2, HandlerSent
<1>4. Main <= tm.latest_id
  BY DEF IInv, BootInv, Main, Idle, Terminal
<1>5. /\ TP!ManagerInv(tm') /\ LevelsOK(tm')
      /\ tm'.awake = tm.awake \cup {Main} /\ tm'.cpu = tm.cpu /\ tm'.latest_id = tm.latest_id
  BY <1>1, <1>4, Woken DEF IInv
<1>6. events' \in [left : Int, keyboard : BOOLEAN] /\ events'.keyboard = events.keyboard
  <2>1. events' = [events EXCEPT !.left = @ - 1]
    BY <1>1
  <2>2. events \in [left : Int, keyboard : BOOLEAN]
    BY DEF IInv, Typed
  <2> QED BY <2>1, <2>2
<1>7. Typed' /\ NoLostWakeup'
  <2>1. UNCHANGED <<timers, msg>>
    BY <1>1
  <2>2. Typed'
    BY <1>3, <1>6, <2>1 DEF IInv, Typed
  <2>3. NoLostWakeup'
    BY <1>3, <1>5 DEF IInv, NoLostWakeup
  <2> QED BY <2>2, <2>3
<1>8. BootInv'
  BY <1>1, <1>3, <1>5 DEF IInv, BootInv, BootPC
<1>9. CursorInv'
  <2> SUFFICES ASSUME ~events.keyboard
               PROVE  pc'[Main] # "pushing" /\ OneCursor(timers', inbox'[Main], Handled')
    BY <1>6 DEF CursorInv
  <2>1. pc[Main] # "pushing" /\ OneCursor(timers, inbox[Main], Handled)
    BY DEF IInv, CursorInv
  <2>2. inbox'[Main] = Append(inbox[Main], kInterruptXHCI) /\ pc' = pc
    BY <1>3, <2>1
  <2>3. /\ CursorMessages(inbox'[Main]) = CursorMessages(inbox[Main])
        /\ DOMAIN inbox[Main] \subseteq DOMAIN inbox'[Main]
    BY <1>2, <2>2, Sent
  <2> QED BY <1>1, <2>1, <2>2, <2>3 DEF OneCursor, Handled
<1> QED BY <1>5, <1>7, <1>8, <1>9 DEF IInv

\* Where the cursor's timer is after a tick: still armed, or in the message that
\* Tick() sent.
LEMMA CursorTicked ==
  ASSUME NEW ts \in SUBSET TimerRecord, NEW q \in Seq(MessageRecord), NEW handled \in BOOLEAN,
         OneCursor(ts, q, handled),
         NEW r \in TQ!TickResults([tick |-> 0, timers |-> ts])
  PROVE  /\ r.popped = {} => OneCursor(Rebase(r.queue), Older(q), handled)
         /\ \A t \in r.popped :
              OneCursor(Rebase(r.queue), Append(Older(q), kTimerTimeout(1 - t.timeout)), handled)
<1>1. /\ r.popped \subseteq CursorTimers(ts)
      /\ CursorTimers(Rebase(r.queue))
           = {TQ!Timer(t.timeout - 1, kTextboxCursorTime) : t \in CursorTimers(ts) \ r.popped}
  BY Ticked
<1>2. /\ Older(q) \in Seq(MessageRecord) /\ DOMAIN Older(q) = DOMAIN q
      /\ CursorMessages(Older(q)) = CursorMessages(q)
  BY OlderQueue
<1>3. ASSUME r.popped = {}
      PROVE  OneCursor(Rebase(r.queue), Older(q), handled)
  <2>1. CASE CursorTimers(ts) = {}
    <3>1. CursorTimers(Rebase(r.queue)) = {}
      BY <1>1, <2>1
    <3> QED BY <1>2, <2>1, <3>1 DEF OneCursor
  <2>2. ASSUME NEW t \in ts, CursorTimers(ts) = {t}
        PROVE  OneCursor(Rebase(r.queue), Older(q), handled)
    <3>1. CursorTimers(Rebase(r.queue)) = {TQ!Timer(t.timeout - 1, kTextboxCursorTime)}
      BY <1>1, <1>3, <2>2
    <3>2. TQ!Timer(t.timeout - 1, kTextboxCursorTime) \in Rebase(r.queue)
      BY <3>1 DEF CursorTimers
    <3> QED BY <1>2, <2>2, <3>1, <3>2 DEF OneCursor
  <2> QED BY <2>1, <2>2 DEF OneCursor
<1>4. ASSUME NEW t \in r.popped
      PROVE  OneCursor(Rebase(r.queue), Append(Older(q), kTimerTimeout(1 - t.timeout)), handled)
  <2>1. CursorTimers(ts) = {t} /\ r.popped = {t} /\ CursorMessages(q) = {} /\ ~handled
    BY <1>1 DEF OneCursor
  <2>2. t.timeout \in Int
    BY <1>1 DEF CursorTimers, TimerRecord
  <2>3. CursorTimers(Rebase(r.queue)) = {}
    BY <1>1, <2>1
  <2> DEFINE m == kTimerTimeout(1 - t.timeout)
             z == Append(Older(q), m)
  <2>4. m \in MessageRecord /\ m.type = "kTimerTimeout"
    BY <2>2, MessageFields
  <2> HIDE DEF m
  <2>5. CursorMessages(z) = {Len(Older(q)) + 1} /\ Len(Older(q)) + 1 \in DOMAIN z
    BY <1>2, <2>1, <2>4, Sent
  <2> HIDE DEF z
  <2>6. OneCursor(Rebase(r.queue), z, handled)
    BY <2>1, <2>3, <2>5 DEF OneCursor
  <2> QED BY <2>6 DEF z, m
<1> QED BY <1>3, <1>4

LEMMA TimerInterruptInv ==
  ASSUME IInv, TimerInterrupt
  PROVE  IInv'
<1>1. PICK r \in TQ!TickResults([tick |-> 0, timers |-> timers]) :
        /\ timers' = Rebase(r.queue)
        /\ IF r.popped = {}
           THEN inbox' = [inbox EXCEPT ![Main] = Older(inbox[Main])] /\ UNCHANGED pc
           ELSE \E t \in r.popped :
                  HandlerSends(kTimerTimeout(1 - t.timeout), Older(inbox[Main]))
        /\ tm' = LET woken == IF r.popped = {} THEN tm ELSE TM!Wakeup(tm, Main, -1)
                 IN  IF r.expired THEN TM!SwitchTask(woken) ELSE woken
  BY DEF TimerInterrupt
<1>2. /\ msg' = [msg EXCEPT ![Main] = OlderMessage(@)]
      /\ UNCHANGED <<layer_task_map, active, events>>
  BY DEF TimerInterrupt
<1>3. /\ Main \in Task /\ timers \in SUBSET TimerRecord
      /\ inbox \in [Task -> Seq(MessageRecord)] /\ inbox[Main] \in Seq(MessageRecord)
      /\ msg \in [Task -> MessageRecord \cup {NoMessage}] /\ pc \in [Task -> Place]
  BY DEF IInv, Typed, Main, Task, NumTasks
<1>4. /\ timers' \subseteq TimerRecord /\ r.popped \subseteq CursorTimers(timers)
      /\ r.expired \in BOOLEAN
  BY <1>1, <1>3, Ticked
<1>5. /\ Older(inbox[Main]) \in Seq(MessageRecord)
      /\ Older(inbox[Main]) # <<>> => inbox[Main] # <<>>
  BY <1>3, OlderQueue
<1>6. /\ msg' \in [Task -> MessageRecord \cup {NoMessage}]
      /\ msg'[Main].type = msg[Main].type
  <2>1. \A m \in MessageRecord \cup {NoMessage} :
          OlderMessage(m) \in MessageRecord \cup {NoMessage} /\ OlderMessage(m).type = m.type
    BY DEF MessageRecord, OlderMessage, NoMessage, kInterruptXHCI, kKeyPush, kLayer,
           kLayerFinish, Unknown
  <2>2. msg[Main] \in MessageRecord \cup {NoMessage}
    BY <1>3
  <2>3. msg'[Main] = OlderMessage(msg[Main])
    BY <1>2, <1>3
  <2>4. msg'[Main].type = msg[Main].type
    BY <2>1, <2>2, <2>3
  <2>5. msg' \in [Task -> MessageRecord \cup {NoMessage}]
    BY <1>2, <1>3, <2>1, <2>2
  <2> QED BY <2>4, <2>5
<1>7. \A t \in r.popped : kTimerTimeout(1 - t.timeout) \in MessageRecord
  BY <1>4, MessageFields DEF CursorTimers, IInv, Typed, TimerRecord
<1>8. /\ inbox' \in [Task -> Seq(MessageRecord)]
      /\ \A t \in Task : t # Main => inbox'[t] = inbox[t]
      /\ r.popped = {} /\ inbox'[Main] # <<>> => inbox[Main] # <<>>
      /\ pc' \in [Task -> Place]
      /\ pc'[Main] = pc[Main] \/ (pc[Main] = "pushing" /\ pc'[Main] = "events")
      /\ pc[Main] # "pushing" => pc' = pc
  <2>1. CASE r.popped = {}
    BY <1>1, <1>3, <1>5, <2>1
  <2>2. CASE r.popped # {}
    <3>1. PICK t \in r.popped : HandlerSends(kTimerTimeout(1 - t.timeout), Older(inbox[Main]))
      BY <1>1, <2>2
    <3>2. kTimerTimeout(1 - t.timeout) \in MessageRecord
      BY <1>7
    <3> QED BY <1>5, <2>2, <3>1, <3>2, HandlerSent
  <2> QED BY <2>1, <2>2
<1>9. /\ TP!ManagerInv(tm') /\ LevelsOK(tm') /\ tm'.latest_id = tm.latest_id
      /\ tm.awake \subseteq tm'.awake /\ (r.popped # {} => Main \in tm'.awake)
      /\ Main \in tm.awake /\ tm.cpu = Main => tm'.cpu = Main
  <2> DEFINE woken == IF r.popped = {} THEN tm ELSE TM!Wakeup(tm, Main, -1)
  <2>1. Main <= tm.latest_id
    BY DEF IInv, BootInv, Main, Idle, Terminal
  <2>2. /\ TP!ManagerInv(woken) /\ LevelsOK(woken) /\ woken.latest_id = tm.latest_id
        /\ woken.cpu = tm.cpu
        /\ woken.awake = IF r.popped = {} THEN tm.awake ELSE tm.awake \cup {Main}
    <3>1. CASE r.popped = {}
      BY <3>1 DEF IInv
    <3>2. CASE r.popped # {}
      <4>1. woken = TM!Wakeup(tm, Main, -1)
        BY <3>2
      <4> HIDE DEF woken
      <4> QED BY <2>1, <3>2, <4>1, Woken DEF IInv
    <3> QED BY <3>1, <3>2
  <2>3. tm' = IF r.expired THEN TM!SwitchTask(woken) ELSE woken
    BY <1>1
  <2> HIDE DEF woken
  <2>4. CASE r.expired
    <3>1. /\ TP!ManagerInv(tm') /\ LevelsOK(tm')
          /\ tm'.awake = woken.awake /\ tm'.latest_id = woken.latest_id
          /\ Main \in woken.awake => tm'.cpu = Main
      BY <2>2, <2>3, <2>4, Switched
    <3> QED BY <2>2, <3>1
  <2>5. CASE ~r.expired
    BY <2>2, <2>3, <2>5
  <2> QED BY <2>4, <2>5
<1>10. Typed'
  BY <1>2, <1>4, <1>6, <1>8 DEF IInv, Typed
<1>11. NoLostWakeup'
  BY <1>8, <1>9 DEF IInv, NoLostWakeup
<1>12. BootInv'
  <2>1. tm.cpu = Main => tm'.cpu = Main
    BY <1>9, RunsAwake DEF IInv
  <2> QED BY <1>2, <1>8, <1>9, <2>1 DEF IInv, BootInv, BootPC
<1>13. CursorInv'
  <2> SUFFICES ASSUME ~events.keyboard
               PROVE  pc'[Main] # "pushing" /\ OneCursor(timers', inbox'[Main], Handled')
    BY <1>2 DEF CursorInv
  <2>1. pc[Main] # "pushing" /\ OneCursor(timers, inbox[Main], Handled)
    BY DEF IInv, CursorInv
  <2>2. pc' = pc /\ (Handled' <=> Handled)
    BY <1>6, <1>8, <2>1 DEF Handled
  <2>3. Handled \in BOOLEAN
    BY DEF Handled
  <2>4. /\ r.popped = {} => OneCursor(Rebase(r.queue), Older(inbox[Main]), Handled)
        /\ \A t \in r.popped :
             OneCursor(Rebase(r.queue),
                       Append(Older(inbox[Main]), kTimerTimeout(1 - t.timeout)), Handled)
    BY <1>3, <2>1, <2>3, CursorTicked
  <2>5. OneCursor(timers', inbox'[Main], Handled)
    <3>1. CASE r.popped = {}
      <4>1. inbox'[Main] = Older(inbox[Main])
        BY <1>1, <1>3, <3>1
      <4> QED BY <1>1, <2>4, <3>1, <4>1
    <3>2. CASE r.popped # {}
      <4>1. PICK t \in r.popped : HandlerSends(kTimerTimeout(1 - t.timeout), Older(inbox[Main]))
        BY <1>1, <3>2
      <4>2. kTimerTimeout(1 - t.timeout) \in MessageRecord
        BY <1>7
      <4>3. inbox'[Main] = Append(Older(inbox[Main]), kTimerTimeout(1 - t.timeout))
        BY <1>5, <2>1, <4>1, <4>2, HandlerSent
      <4> QED BY <1>1, <2>4, <4>3
    <3> QED BY <3>1, <3>2
  <2> QED BY <2>1, <2>2, <2>5 DEF OneCursor
<1> QED BY <1>9, <1>10, <1>11, <1>12, <1>13 DEF IInv

-----------------------------------------------------------------------------
(* The invariant, and what it says.                                        *)

LEMMA InitInv == Init => IInv
<1> SUFFICES ASSUME Init PROVE IInv
  OBVIOUS
<1>1. TP!ManagerInv(tm) /\ LevelsOK(tm) /\ tm.latest_id = Idle /\ tm.cpu = Main
  <2>1. tm = TP!InitialManager
    BY SameMethods DEF Init
  <2>2. TP!ManagerInv(TP!InitialManager)
    BY SchedulerAssumptions, TP!InitialManagerInv
  <2>3. /\ LevelsOK(TP!InitialManager) /\ TP!InitialManager.latest_id = Idle
        /\ TP!InitialManager.cpu = Main
    BY DEF LevelsOK, TP!InitialManager, TP!TaskID, TP!MainTask, TP!IdleTask, TP!kDefaultLevel,
           TP!kMaxLevel, NumTasks, Main, Idle, Terminal
  <2> QED BY <2>1, <2>2, <2>3
<1> DEFINE cursor == TQ!Timer(CursorPeriod, kTextboxCursorTime)
           task == TQ!Timer(TQ!kTaskTimerPeriod, TQ!kTaskTimerValue)
<1>2. /\ cursor \in TimerRecord /\ cursor.value = kTextboxCursorTime
      /\ task \in TimerRecord /\ task.value # kTextboxCursorTime
  BY CursorPeriodAssumption
     DEF TimerRecord, TQ!Timer, TQ!kTaskTimerPeriod, TQ!kTaskTimerValue, kTextboxCursorTime
<1>3. timers = {cursor, task}
  BY DEF Init
<1> HIDE DEF cursor, task
<1>4. Main \in Task /\ pc[Main] = "create" /\ pc \in [Task -> Place]
  BY DEF Init, Task, NumTasks, Main, Idle, Terminal, Place, BootPC
<1>5. inbox \in [Task -> Seq(MessageRecord)] /\ \A t \in Task : inbox[t] = <<>>
  BY DEF Init
<1>6. Typed
  <2>1. events \in [left : Int, keyboard : BOOLEAN]
    <3>1. MaxEvents \in Int /\ MaxKeyEvents \in Int
      BY BoundsAssumption
    <3>2. events = [left |-> MaxEvents, keyboard |-> FALSE]
          \/ events = [left |-> MaxKeyEvents, keyboard |-> TRUE]
      BY DEF Init
    <3>3. /\ [left |-> MaxEvents, keyboard |-> FALSE] \in [left : Int, keyboard : BOOLEAN]
          /\ [left |-> MaxKeyEvents, keyboard |-> TRUE] \in [left : Int, keyboard : BOOLEAN]
      BY <3>1, Zenon
    <3> QED BY <3>2, <3>3, Zenon
  <2>2. msg \in [Task -> MessageRecord \cup {NoMessage}]
    BY DEF Init
  <2> QED BY <1>2, <1>3, <1>4, <1>5, <2>1, <2>2 DEF Typed
<1>7. BootInv
  BY <1>1, <1>4 DEF BootInv, BootPC
<1>8. CursorInv
  <2>1. CursorTimers(timers) = {cursor} /\ cursor \in timers
    BY <1>2, <1>3 DEF CursorTimers
  <2>2. CursorMessages(inbox[Main]) = {}
    BY <1>4, <1>5 DEF CursorMessages
  <2> QED BY <1>4, <2>1, <2>2 DEF CursorInv, OneCursor, Handled
<1> QED BY <1>1, <1>5, <1>6, <1>7, <1>8 DEF IInv, NoLostWakeup

LEMMA NextInv == IInv /\ [Next]_vars => IInv'
<1> SUFFICES ASSUME IInv, [Next]_vars PROVE IInv'
  OBVIOUS
<1>1. CASE MainStep
  BY <1>1, BootCreateInv, BootWakeupInv, ReceiveInv, MainQuietInv, MainSendsInv, MainTimerInv
     DEF MainStep
<1>2. CASE TerminalStep
  BY <1>2, ReceiveInv, TerminalQuietInv, TerminalSendsInv DEF TerminalStep
<1>3. CASE TimerInterrupt
  BY <1>3, TimerInterruptInv
<1>4. CASE XhciInterrupt
  BY <1>4, XhciInterruptInv
<1>5. CASE UNCHANGED vars
  BY <1>5 DEF vars, IInv, Typed, BootInv, NoLostWakeup, CursorInv, OneCursor, Handled
<1> QED BY <1>1, <1>2, <1>3, <1>4, <1>5 DEF Next

\* The inductive invariant holds of every behaviour of the kernel.
THEOREM InvariantHolds == Spec => []IInv
BY InitInv, NextInv, PTL DEF Spec

\* No message is slept on: a task whose queue is not empty is awake, with any
\* number of interrupts and messages.
THEOREM NoLostWakeupHolds == Spec => []NoLostWakeup
<1>1. IInv => NoLostWakeup
  BY DEF IInv
<1> QED BY <1>1, InvariantHolds, PTL

\* The terminal never runs before the main task has set up layer_task_map and
\* the devices: the levels alone keep it off the processor.
THEOREM BootBeforeTerminalHolds == Spec => []BootBeforeTerminal
<1>1. IInv => BootBeforeTerminal
  <2> SUFFICES ASSUME IInv, tm.cpu = Terminal
               PROVE  pc[Main] \notin BootPC /\ layer_task_map # NoMap
    BY DEF BootBeforeTerminal
  <2>1. pc[Main] \notin BootPC /\ layer_task_map \subseteq {TerminalWindow}
    BY TerminalRuns
  <2> QED BY <2>1 DEF NoMap, TerminalWindow
<1> QED BY <1>1, InvariantHolds, PTL

\* Without a keyboard the cursor's timer is never lost and never doubled, for
\* every period of the cursor and however late the main task runs.
THEOREM OneCursorTimerHolds == Spec => []OneCursorTimer
<1>1. IInv => OneCursorTimer
  <2> SUFFICES ASSUME IInv, ~events.keyboard
               PROVE  Cursors = 1
    BY DEF OneCursorTimer
  <2> DEFINE armed == {t \in timers : t.value = kTextboxCursorTime}
             waiting == {i \in DOMAIN inbox[Main] : inbox[Main][i].type = "kTimerTimeout"}
  <2>1. /\ armed = CursorTimers(timers) /\ waiting = CursorMessages(inbox[Main])
        /\ OneCursor(timers, inbox[Main], Handled)
    BY DEF IInv, CursorInv, CursorTimers, CursorMessages
  <2>2. Cursors = Cardinality(armed) + Cardinality(waiting) + (IF Handled THEN 1 ELSE 0)
    BY DEF Cursors, Handled
  <2> HIDE DEF armed, waiting
  <2>3. Cardinality({}) = 0 /\ \A x : Cardinality({x}) = 1
    BY FS_EmptySet, FS_Singleton
  <2>4. CASE armed = {} /\ waiting = {} /\ Handled
    BY <2>2, <2>3, <2>4
  <2>5. ASSUME NEW t, armed = {t}, waiting = {}, ~Handled
        PROVE  Cursors = 1
    <3>1. Cardinality(armed) = 1 /\ Cardinality(waiting) = 0
      BY <2>3, <2>5, Zenon
    <3> QED BY <2>2, <2>5, <3>1
  <2>6. ASSUME NEW i, waiting = {i}, armed = {}, ~Handled
        PROVE  Cursors = 1
    <3>1. Cardinality(waiting) = 1 /\ Cardinality(armed) = 0
      BY <2>3, <2>6, Zenon
    <3> QED BY <2>2, <2>6, <3>1
  <2> QED BY <2>1, <2>4, <2>5, <2>6 DEF OneCursor
<1> QED BY <1>1, InvariantHolds, PTL
=============================================================================
