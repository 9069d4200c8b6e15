---------------------------- MODULE TaskManager ----------------------------
(***************************************************************************)
(* The preemptive scheduler of Kernel/task.cpp: one run queue (deque) per  *)
(* level, the level being served, the "a higher level may be runnable"     *)
(* flag, and the processor, on which one task's registers are loaded at a  *)
(* time (SwitchContext / RestoreContext of asmfunc.asm).                   *)
(*                                                                         *)
(* The methods of TaskManager are operators from a manager state to a      *)
(* manager state, so that a handler that calls several of them (a timer    *)
(* interrupt wakes a task and then rotates the queue) is one action in the *)
(* module that composes them.  The record tm has the fields                *)
(*   latest_id      tasks_ holds the tasks 1..latest_id, none ever removed *)
(*   running        running_, the run queues                               *)
(*   current_level, level_changed                                          *)
(*   level, awake   Task::level_ and the tasks with Task::running_ = true  *)
(*   cpu            the task whose execution is on the processor           *)
(*   ctx            whose execution each Task::context_ holds; NoContext   *)
(*                  when it was never filled or was resumed since          *)
(***************************************************************************)
EXTENDS Integers, Sequences

CONSTANTS
  MaxTasks,      \* bound on the tasks ever created
  CallerLevels   \* the level arguments Wakeup is called with

kMaxLevel == 3

\* Mutant: tasks start at the highest level, above the main task's work.
kDefaultLevel_TooHigh == 3

kDefaultLevel == 1
Level == 0 .. kMaxLevel
TaskID == 1 .. MaxTasks
MainTask == 1
IdleTask == 2
NoContext == 0

ASSUME MaxTasksAssumption == MaxTasks \in Nat /\ MaxTasks >= 2
ASSUME CallerLevelsAssumption == CallerLevels \subseteq {-1} \cup Level

VARIABLE tm

vars == tm

TaskManagerState ==
  [latest_id : Nat,
   running : [Level -> Seq(TaskID)],
   current_level : Level,
   level_changed : BOOLEAN,
   level : [TaskID -> Level],
   awake : SUBSET TaskID,
   cpu : TaskID,
   ctx : [TaskID -> TaskID \cup {NoContext}]]

-----------------------------------------------------------------------------
(* Helpers.                                                                *)

\* CurrentTask(): the front of the queue being served.
CurrentTask(s) == Head(s.running[s.current_level])

Queued(q) == {q[i] : i \in DOMAIN q}

\* std::remove + erase.  A task is in a run queue at most once (RunQueuesInv),
\* so removing its first entry removes every one.
Erase(q, t) ==
  IF t \in Queued(q)
  THEN LET at == CHOOSE i \in DOMAIN q : q[i] = t
       IN  [i \in 1 .. Len(q) - 1 |-> IF i < at THEN q[i] ELSE q[i + 1]]
  ELSE q

PushFront(q, t) == <<t>> \o q

\* The scan of RotateRunQueue from kMaxLevel down; lv when every queue is empty.
HighestBusyLevel(running, lv) ==
  LET busy == {l \in Level : running[l] # <<>>}
  IN  IF busy = {} THEN lv ELSE CHOOSE l \in busy : \A m \in busy : m <= l

\* The registers on the processor are stored in old's context, and new's are
\* loaded: from here on new's stored context is out of date.
SwitchContext(s, new, old) ==
  LET stored == [s.ctx EXCEPT ![old] = s.cpu]
  IN  [s EXCEPT !.cpu = stored[new], !.ctx = [stored EXCEPT ![new] = NoContext]]

-----------------------------------------------------------------------------
(* The methods of TaskManager.                                             *)

NewTask(s) == [s EXCEPT !.latest_id = @ + 1]

\* Task::InitContext: the context starts the task's function on its own stack.
InitContext(s, t) == [s EXCEPT !.ctx[t] = t]

\* Wrong: the flag is reset without a look at the other levels.
RotateRunQueue_IgnoresFlag(s, current_sleep) ==
  LET rest    == Tail(s.running[s.current_level])
      queue   == IF current_sleep THEN rest ELSE Append(rest, CurrentTask(s))
      running == [s.running EXCEPT ![s.current_level] = queue]
  IN  [s EXCEPT !.running = running,
                !.level_changed = FALSE,
                !.current_level = IF queue = <<>> THEN HighestBusyLevel(running, @) ELSE @]

\* Wrong: the task whose slice ended goes back to the front.
RotateRunQueue_ToFront(s, current_sleep) ==
  LET rest    == Tail(s.running[s.current_level])
      queue   == IF current_sleep THEN rest ELSE PushFront(rest, CurrentTask(s))
      running == [s.running EXCEPT ![s.current_level] = queue]
  IN  [s EXCEPT !.running = running,
                !.level_changed = FALSE,
                !.current_level = IF s.level_changed \/ queue = <<>>
                                  THEN HighestBusyLevel(running, @) ELSE @]

RotateRunQueue(s, current_sleep) ==
  LET rest    == Tail(s.running[s.current_level])
      queue   == IF current_sleep THEN rest ELSE Append(rest, CurrentTask(s))
      running == [s.running EXCEPT ![s.current_level] = queue]
  IN  [s EXCEPT !.running = running,
                !.level_changed = FALSE,
                !.current_level = IF s.level_changed \/ queue = <<>>
                                  THEN HighestBusyLevel(running, @) ELSE @]

\* Wrong: the interrupted registers are stored for the task that comes next.
SwitchTask_StoresForNext(s) ==
  LET rotated == RotateRunQueue(s, FALSE)
  IN  SwitchContext(rotated, CurrentTask(rotated), CurrentTask(rotated))

\* SwitchTask, run by the timer interrupt.  When the same task is next, the
\* interrupt returns to it, which loads the registers just stored.
SwitchTask(s) ==
  LET rotated == RotateRunQueue(s, FALSE)
  IN  SwitchContext(rotated, CurrentTask(rotated), CurrentTask(s))

Sleep(s, t) ==
  IF t \notin s.awake THEN s
  ELSE LET asleep == [s EXCEPT !.awake = @ \ {t}]
       IN  IF t = CurrentTask(s)
           THEN LET rotated == RotateRunQueue(asleep, TRUE)
                IN  SwitchContext(rotated, CurrentTask(rotated), t)
           ELSE [asleep EXCEPT !.running[s.level[t]] = Erase(@, t)]

\* ChangeLevelRunning.  For a task other than the current one the code erases
\* from the queue of the CURRENT level, whatever the level of the task.
ChangeLevelRunning(s, t, level) ==
  LET cur == s.current_level
  IN  IF level < 0 \/ level = s.level[t] THEN s
      ELSE IF t # CurrentTask(s)
      THEN LET erased == [s.running EXCEPT ![cur] = Erase(@, t)]
           IN  [s EXCEPT !.running = [erased EXCEPT ![level] = Append(@, t)],
                         !.level[t] = level,
                         !.level_changed = @ \/ level > cur]
      ELSE LET popped == [s.running EXCEPT ![cur] = Tail(@)]
           IN  [s EXCEPT !.running = [popped EXCEPT ![level] = PushFront(@, t)],
                         !.level[t] = level,
                         !.level_changed = @ \/ level < cur,
                         !.current_level = level]

\* Wrong: no early return for a task that is awake.
Wakeup_QueuesAgain(s, t, level) ==
  LET lv == IF level < 0 THEN s.level[t] ELSE level
  IN  [s EXCEPT !.level[t] = lv,
                !.awake = @ \cup {t},
                !.running[lv] = Append(@, t),
                !.level_changed = @ \/ lv > s.current_level]

\* Wrong: nobody is told that a higher level has a task.
Wakeup_Silent(s, t, level) ==
  IF t \in s.awake THEN ChangeLevelRunning(s, t, level)
  ELSE LET lv == IF level < 0 THEN s.level[t] ELSE level
       IN  [s EXCEPT !.level[t] = lv,
                     !.awake = @ \cup {t},
                     !.running[lv] = Append(@, t)]

Wakeup(s, t, level) ==
  IF t \in s.awake THEN ChangeLevelRunning(s, t, level)
  ELSE LET lv == IF level < 0 THEN s.level[t] ELSE level
       IN  [s EXCEPT !.level[t] = lv,
                     !.awake = @ \cup {t},
                     !.running[lv] = Append(@, t),
                     !.level_changed = @ \/ lv > s.current_level]

-----------------------------------------------------------------------------
(* The scheduler driven by its callers and by the timer.                   *)

\* TaskManager(): the booting code becomes task 1 at kMaxLevel, task 2 is the
\* idle task at level 0, which only halts.
InitialManager ==
  [latest_id |-> IdleTask,
   running |-> [l \in Level |-> CASE l = kMaxLevel -> <<MainTask>>
                                  [] l = 0 -> <<IdleTask>>
                                  [] OTHER -> <<>>],
   current_level |-> kMaxLevel,
   level_changed |-> FALSE,
   level |-> [t \in TaskID |-> CASE t = MainTask -> kMaxLevel
                                 [] t = IdleTask -> 0
                                 [] OTHER -> kDefaultLevel],
   awake |-> {MainTask, IdleTask},
   cpu |-> MainTask,
   ctx |-> [t \in TaskID |-> IF t = IdleTask THEN IdleTask ELSE NoContext]]

Init == tm = InitialManager

\* NewTask().InitContext(f, data)
CreateTask ==
  /\ tm.latest_id < MaxTasks
  /\ tm' = InitContext(NewTask(tm), tm.latest_id + 1)

\* A call may change the level of a queued task only if the task is the
\* current one or is queued at the current level: for any other the code
\* leaves a second entry behind.
LevelChangeIsLocal(t, level) ==
  \/ t \notin tm.awake
  \/ level < 0
  \/ tm.level[t] = tm.current_level

\* Wakeup(id, level).  An id that names no task is refused with kNoSuchTask.
WakeupTask(t, level) ==
  /\ t <= tm.latest_id
  /\ LevelChangeIsLocal(t, level)
  /\ tm' = Wakeup(tm, t, level)

\* Sleep(id): a task puts itself, or another, to sleep.
SleepTask(t) ==
  /\ t <= tm.latest_id
  /\ tm' = Sleep(tm, t)

TimerSwitch == tm' = SwitchTask(tm)

\* TaskIdle calls nothing, and nothing sleeps it or moves it to another level.
Next ==
  \/ CreateTask
  \/ \E t \in TaskID \ {IdleTask}, level \in CallerLevels : WakeupTask(t, level)
  \/ \E t \in TaskID \ {IdleTask} : SleepTask(t)
  \/ TimerSwitch

Spec == Init /\ [][Next]_vars

\* The task timer interrupts the processor for ever (TimerManager::Tick).
FairSpec == Spec /\ WF_vars(TimerSwitch)

-----------------------------------------------------------------------------
(* Properties.                                                             *)

TypeOK == tm \in TaskManagerState

\* The invariants are predicates of a manager state, so that a module that
\* composes the methods can state them of its own state.
Distinct(q) == \A i, j \in DOMAIN q : q[i] = q[j] => i = j

QueuesOK(s) ==
  /\ \A l \in Level : Queued(s.running[l]) = {t \in s.awake : s.level[t] = l}
  /\ \A l \in Level : Distinct(s.running[l])

ProcessorOK(s) ==
  /\ s.running[s.current_level] # <<>>
  /\ s.cpu = CurrentTask(s)
  /\ \A t \in 1 .. s.latest_id : t # s.cpu => s.ctx[t] = t

PriorityOK(s) ==
  \/ s.level_changed
  \/ \A t \in s.awake : s.level[t] <= s.current_level

\* A run queue holds exactly the awake tasks of its level, each once: no task
\* is lost from the queues by Wakeup, Sleep, ChangeLevelRunning or the
\* rotation, none is scheduled while asleep, none twice.
RunQueuesInv == QueuesOK(tm)

\* CurrentTask() never reads an empty queue, the task it names is the one on
\* the processor, and every other task's context_ holds its own, up to date,
\* execution to be resumed from.
ProcessorInv == ProcessorOK(tm)

\* A task at a level above current_level_ waits only while level_changed_ asks
\* the next switch to look: no priority inversion outlives a switch.
PriorityInv == PriorityOK(tm)

\* An awake task gets the processor, unless it is put to sleep or a task of a
\* higher level is awake: the tasks of a level are served in turn.
RoundRobin ==
  \A t \in TaskID :
    t \in tm.awake ~>
      \/ tm.cpu = t
      \/ t \notin tm.awake
      \/ \E u \in tm.awake : tm.level[u] > tm.level[t]

\* What the scheduler promises, seen through awake, level and cpu.
Abstract == INSTANCE PriorityScheduler
              WITH Task <- TaskID, Priority <- Level,
                   Main <- MainTask, Idle <- IdleTask,
                   ready <- tm.awake, prio <- tm.level, current <- tm.cpu

\* Every switch gives the processor to an awake task of the highest level,
\* although RotateRunQueue looks at the other levels only when level_changed_
\* is set or its own queue ran empty.
ImplementsPriorityScheduler == Abstract!Spec

=============================================================================
