------------------------- MODULE TaskManagerProofs -------------------------
(***************************************************************************)
(* The scheduler's invariants, for any number of tasks and any levels the  *)
(* callers pass.  The lemmas on run queues come first, then one lemma per  *)
(* method of TaskManager: it takes a state that satisfies ManagerInv to    *)
(* one that does.                                                          *)
(***************************************************************************)
EXTENDS TaskManager, SequenceTheorems, TLAPS

\* What nobody states but every method relies on: the idle task is always
\* awake at level 0, so the scan of RotateRunQueue always finds a queue, and
\* the awake tasks are among the tasks created.
IdleOK(s) ==
  /\ IdleTask \in s.awake
  /\ s.level[IdleTask] = 0

CreatedOK(s) ==
  /\ s.latest_id \in IdleTask .. MaxTasks
  /\ \A t \in s.awake : t <= s.latest_id

\* The inductive invariant.
ManagerInv(s) ==
  /\ s \in TaskManagerState
  /\ QueuesOK(s)
  /\ ProcessorOK(s)
  /\ PriorityOK(s)
  /\ IdleOK(s)
  /\ CreatedOK(s)

IInv == ManagerInv(tm)

-----------------------------------------------------------------------------
(* Run queues: what each deque operation does to the set of queued tasks.  *)

\* A queue has a task in it exactly when it is not empty.
LEMMA QueuedEmpty ==
  ASSUME NEW q \in Seq(TaskID)
  PROVE  /\ (q = <<>>) <=> (Queued(q) = {})
         /\ Queued(q) \subseteq TaskID
         /\ q # <<>> => Head(q) \in Queued(q)
<1>1. /\ Len(q) \in Nat /\ DOMAIN q = 1 .. Len(q)
      /\ \A i \in 1 .. Len(q) : q[i] \in TaskID
  BY LenProperties, ElementOfSeq
<1>2. q = <<>> => Len(q) = 0
  BY EmptySeq
<1>3. q # <<>> => Len(q) >= 1 /\ Head(q) = q[1]
  BY EmptySeq, <1>1
<1>4. q # <<>> => Head(q) \in Queued(q)
  BY <1>1, <1>3 DEF Queued
<1>5. q = <<>> => Queued(q) = {}
  BY <1>1, <1>2 DEF Queued
<1>6. Queued(q) \subseteq TaskID
  BY <1>1 DEF Queued
<1> QED BY <1>4, <1>5, <1>6

\* push_back of a task that is not in the queue.
LEMMA QueuedAppend ==
  ASSUME NEW q \in Seq(TaskID), NEW t \in TaskID,
         Distinct(q), t \notin Queued(q)
  PROVE  /\ Append(q, t) \in Seq(TaskID)
         /\ Append(q, t) # <<>>
         /\ Queued(Append(q, t)) = Queued(q) \cup {t}
         /\ Distinct(Append(q, t))
         /\ q # <<>> => Head(Append(q, t)) = Head(q)
<1> DEFINE a == Append(q, t)
<1>1. /\ a \in Seq(TaskID) /\ a # <<>> /\ Len(a) = Len(q) + 1
      /\ \A i \in 1 .. Len(q) : a[i] = q[i]
      /\ a[Len(q) + 1] = t
  BY AppendProperties, EmptySeq
<1>4. q # <<>> => Head(a) = Head(q)
  BY AppendProperties, EmptySeq
<1>2. Queued(a) = Queued(q) \cup {t}
  BY <1>1 DEF Queued
<1>3. Distinct(a)
  BY <1>1 DEF Queued, Distinct
<1> QED BY <1>1, <1>2, <1>3, <1>4

\* push_front of a task that is not in the queue.
LEMMA QueuedPushFront ==
  ASSUME NEW q \in Seq(TaskID), NEW t \in TaskID,
         Distinct(q), t \notin Queued(q)
  PROVE  /\ PushFront(q, t) \in Seq(TaskID)
         /\ PushFront(q, t) # <<>>
         /\ Head(PushFront(q, t)) = t
         /\ Queued(PushFront(q, t)) = Queued(q) \cup {t}
         /\ Distinct(PushFront(q, t))
<1> DEFINE a == PushFront(q, t)
<1>1. /\ a \in Seq(TaskID) /\ a # <<>> /\ Len(a) = Len(q) + 1
      /\ a[1] = t /\ Head(a) = t
      /\ \A i \in 1 .. Len(q) : a[i + 1] = q[i]
  BY DEF PushFront
<1>a. \A i \in 2 .. Len(a) : i - 1 \in 1 .. Len(q) /\ a[i] = q[i - 1]
  BY <1>1
<1>2. Queued(a) = Queued(q) \cup {t}
  <2>1. \A x \in Queued(a) : x \in Queued(q) \cup {t}
    <3> SUFFICES ASSUME NEW i \in 1 .. Len(a)
                 PROVE  a[i] \in Queued(q) \cup {t}
      BY <1>1 DEF Queued
    <3> HIDE DEF a
    <3>1. CASE i = 1
      BY <3>1, <1>1
    <3>2. CASE i # 1
      <4>1. i \in 2 .. Len(a) /\ DOMAIN q = 1 .. Len(q)
        BY <3>2, <1>1
      <4>2. i - 1 \in DOMAIN q /\ a[i] = q[i - 1]
        BY <4>1, <1>a
      <4> QED BY <4>2 DEF Queued
    <3> QED BY <3>1, <3>2
  <2>2. \A x \in Queued(q) : x \in Queued(a)
    BY <1>1 DEF Queued
  <2>3. t \in Queued(a)
    BY <1>1 DEF Queued
  <2> QED BY <2>1, <2>2, <2>3
<1>3. Distinct(a)
  <2> SUFFICES ASSUME NEW i \in 1 .. Len(a), NEW j \in 1 .. Len(a), a[i] = a[j]
               PROVE  i = j
    BY <1>1 DEF Distinct
  <2>1. CASE i = 1 \/ j = 1
    BY <2>1, <1>1, <1>a DEF Queued
  <2>2. CASE i # 1 /\ j # 1
    <3>1. i - 1 \in DOMAIN q /\ j - 1 \in DOMAIN q /\ q[i - 1] = q[j - 1]
      BY <2>2, <1>1, <1>a
    <3>2. i - 1 = j - 1
      BY <3>1 DEF Distinct
    <3> QED BY <3>2
  <2> QED BY <2>1, <2>2
<1> QED BY <1>1, <1>2, <1>3

\* pop_front.
LEMMA QueuedTail ==
  ASSUME NEW q \in Seq(TaskID), Distinct(q), q # <<>>
  PROVE  /\ Tail(q) \in Seq(TaskID)
         /\ Queued(Tail(q)) = Queued(q) \ {Head(q)}
         /\ Distinct(Tail(q))
<1>1. /\ Tail(q) \in Seq(TaskID) /\ Len(Tail(q)) = Len(q) - 1
      /\ Len(q) > 0 /\ Head(q) = q[1]
      /\ \A i \in 1 .. Len(q) - 1 : Tail(q)[i] = q[i + 1]
  OBVIOUS
<1>a. \A i \in 2 .. Len(q) : i - 1 \in DOMAIN Tail(q) /\ q[i] = Tail(q)[i - 1]
  BY <1>1
<1>2. Distinct(Tail(q))
  BY <1>1 DEF Distinct
<1>3. Queued(Tail(q)) = Queued(q) \ {Head(q)}
  <2>1. \A x \in Queued(Tail(q)) : x \in Queued(q) /\ x # Head(q)
    <3> SUFFICES ASSUME NEW i \in 1 .. Len(q) - 1
                 PROVE  q[i + 1] \in Queued(q) /\ q[i + 1] # q[1]
      BY <1>1 DEF Queued
    <3> QED BY <1>1 DEF Queued, Distinct
  <2>2. \A x \in Queued(q) : x # Head(q) => x \in Queued(Tail(q))
    <3> SUFFICES ASSUME NEW i \in 1 .. Len(q), q[i] # q[1]
                 PROVE  q[i] \in Queued(Tail(q))
      BY <1>1 DEF Queued
    <3>1. i \in 2 .. Len(q)
      BY <1>1
    <3> QED BY <3>1, <1>a DEF Queued
  <2> QED BY <2>1, <2>2
<1> QED BY <1>1, <1>2, <1>3

\* Erase.
LEMMA QueuedErase ==
  ASSUME NEW q \in Seq(TaskID), NEW t \in TaskID, Distinct(q)
  PROVE  /\ Erase(q, t) \in Seq(TaskID)
         /\ Queued(Erase(q, t)) = Queued(q) \ {t}
         /\ Distinct(Erase(q, t))
         /\ (q # <<>> /\ t # Head(q)) =>
              Erase(q, t) # <<>> /\ Head(Erase(q, t)) = Head(q)
<1>1. CASE t \notin Queued(q)
  BY <1>1 DEF Erase
<1>2. CASE t \in Queued(q)
  <2> DEFINE at == CHOOSE i \in DOMAIN q : q[i] = t
             e == [i \in 1 .. Len(q) - 1 |-> IF i < at THEN q[i] ELSE q[i + 1]]
  <2>1. at \in 1 .. Len(q) /\ q[at] = t /\ Len(q) \in Nat /\ DOMAIN q = 1 .. Len(q)
    BY <1>2 DEF Queued
  <2>2. Erase(q, t) = e
    BY <1>2 DEF Erase
  <2> HIDE DEF at
  <2>3. e \in Seq(TaskID) /\ Len(e) = Len(q) - 1
    BY <2>1
  <2>4. \A i \in 1 .. Len(q) - 1 : e[i] = IF i < at THEN q[i] ELSE q[i + 1]
    BY <2>1
  <2> HIDE DEF e
  <2>5. \A i \in 1 .. Len(e) : e[i] # t
    BY <2>1, <2>3, <2>4 DEF Distinct
  <2>6. \A i \in 1 .. Len(q) : q[i] # t =>
           \E j \in 1 .. Len(e) : e[j] = q[i]
    <3> SUFFICES ASSUME NEW i \in 1 .. Len(q), q[i] # t
                 PROVE  \E j \in 1 .. Len(e) : e[j] = q[i]
      OBVIOUS
    <3>1. CASE i < at
      BY <3>1, <2>1, <2>3, <2>4
    <3>2. CASE i > at
      <4>1. i - 1 \in 1 .. Len(e) /\ e[i - 1] = q[i]
        BY <3>2, <2>1, <2>3, <2>4
      <4> QED BY <4>1
    <3> QED BY <3>1, <3>2, <2>1
  <2>7. Queued(e) = Queued(q) \ {t}
    <3>1. \A x \in Queued(e) : x \in Queued(q) /\ x # t
      BY <2>1, <2>3, <2>4, <2>5 DEF Queued
    <3>2. \A x \in Queued(q) : x # t => x \in Queued(e)
      BY <2>1, <2>3, <2>6 DEF Queued
    <3> QED BY <3>1, <3>2
  <2>8. Distinct(e)
    <3> SUFFICES ASSUME NEW i \in 1 .. Len(e), NEW j \in 1 .. Len(e), e[i] = e[j]
                 PROVE  i = j
      BY <2>3 DEF Distinct
    <3> DEFINE back(n) == IF n < at THEN n ELSE n + 1
    <3>1. \A n \in 1 .. Len(e) : back(n) \in DOMAIN q /\ e[n] = q[back(n)]
      BY <2>1, <2>3, <2>4
    <3>2. back(i) = back(j)
      <4>1. q[back(i)] = q[back(j)] /\ back(i) \in DOMAIN q /\ back(j) \in DOMAIN q
        BY <3>1
      <4> HIDE DEF back
      <4> QED BY <4>1 DEF Distinct
    <3> QED BY <3>2, <2>1, <2>3
  <2>9. q # <<>> /\ t # Head(q) => e # <<>> /\ Head(e) = Head(q)
    BY <2>1, <2>3, <2>4
  <2> QED BY <2>2, <2>3, <2>7, <2>8, <2>9
<1> QED BY <1>1, <1>2

-----------------------------------------------------------------------------
(* The methods of TaskManager.                                             *)

\* The scan finds the highest level with a task in its queue.
LEMMA HighestBusy ==
  ASSUME NEW running \in [Level -> Seq(TaskID)], NEW lv \in Level,
         NEW k \in Level, running[k] # <<>>
  PROVE  LET h == HighestBusyLevel(running, lv)
         IN  /\ h \in Level
             /\ running[h] # <<>>
             /\ \A l \in Level : running[l] # <<>> => l <= h
<1> DEFINE busy == {l \in Level : running[l] # <<>>}
<1>1. k \in busy /\ busy \subseteq 0 .. 3
  BY DEF Level, kMaxLevel
<1>2. \E l \in busy : \A m \in busy : m <= l
  <2> HIDE DEF busy
  <2>1. \A i \in 0 .. 3 : i = 0 \/ i = 1 \/ i = 2 \/ i = 3
    OBVIOUS
  <2> QED BY <1>1, <2>1
<1>3. HighestBusyLevel(running, lv) = CHOOSE l \in busy : \A m \in busy : m <= l
  BY <1>1 DEF HighestBusyLevel
<1>4. /\ HighestBusyLevel(running, lv) \in busy
      /\ \A m \in busy : m <= HighestBusyLevel(running, lv)
  BY <1>2, <1>3
<1> QED BY <1>4

\* The rotation: the front task goes to the back of its queue or leaves it,
\* no other queue changes, and the level served next has a task and, when a
\* change was pending or the queue ran empty, is the highest that has one.
LEMMA Rotation ==
  ASSUME NEW s \in TaskManagerState, NEW sleep \in BOOLEAN,
         s.running[s.current_level] # <<>>,
         \A l \in Level : Distinct(s.running[l]),
         NEW k \in Level, NEW u \in Queued(s.running[k]),
         sleep => u # CurrentTask(s)
  PROVE  LET r == RotateRunQueue(s, sleep)
         IN  /\ r \in TaskManagerState
             /\ r.awake = s.awake /\ r.level = s.level /\ r.cpu = s.cpu
             /\ r.ctx = s.ctx /\ r.latest_id = s.latest_id
             /\ ~r.level_changed
             /\ \A l \in Level : Distinct(r.running[l])
             /\ \A l \in Level : Queued(r.running[l]) =
                  IF sleep /\ l = s.current_level
                  THEN Queued(s.running[l]) \ {CurrentTask(s)}
                  ELSE Queued(s.running[l])
             /\ r.running[r.current_level] # <<>>
             /\ \/ \A l \in Level : r.running[l] # <<>> => l <= r.current_level
                \/ ~s.level_changed /\ r.current_level = s.current_level
<1> DEFINE cur == s.current_level
           q == s.running[cur]
           rest == Tail(q)
           queue == IF sleep THEN rest ELSE Append(rest, Head(q))
           running == [s.running EXCEPT ![cur] = queue]
           scan == s.level_changed \/ queue = <<>>
           next == IF scan THEN HighestBusyLevel(running, cur) ELSE cur
           r == RotateRunQueue(s, sleep)
<1>1. /\ cur \in Level /\ q \in Seq(TaskID) /\ q # <<>> /\ Distinct(q)
      /\ s.running \in [Level -> Seq(TaskID)] /\ s.level_changed \in BOOLEAN
  BY DEF TaskManagerState
<1>2. /\ rest \in Seq(TaskID) /\ Queued(rest) = Queued(q) \ {Head(q)}
      /\ Distinct(rest) /\ Head(q) \in Queued(q) /\ Head(q) \in TaskID
  BY <1>1, QueuedTail, QueuedEmpty
<1>3. /\ queue \in Seq(TaskID) /\ Distinct(queue)
      /\ Queued(queue) = IF sleep THEN Queued(q) \ {Head(q)} ELSE Queued(q)
  <2>1. CASE sleep
    BY <2>1, <1>2
  <2>2. CASE ~sleep
    <3>1. Head(q) \notin Queued(rest)
      BY <1>2
    <3>2. /\ Append(rest, Head(q)) \in Seq(TaskID)
          /\ Queued(Append(rest, Head(q))) = Queued(rest) \cup {Head(q)}
          /\ Distinct(Append(rest, Head(q)))
      BY <1>2, <3>1, QueuedAppend
    <3> QED BY <2>2, <3>2, <1>2
  <2> QED BY <2>1, <2>2
<1>4. CurrentTask(s) = Head(q)
  BY DEF CurrentTask
<1>5. r = [s EXCEPT !.running = running, !.level_changed = FALSE,
                    !.current_level = next]
  BY DEF RotateRunQueue, CurrentTask
<1> HIDE DEF queue, rest
<1>6. /\ running \in [Level -> Seq(TaskID)]
      /\ \A l \in Level : running[l] = IF l = cur THEN queue ELSE s.running[l]
  BY <1>1, <1>3
<1>7. /\ \A l \in Level : Distinct(running[l])
      /\ \A l \in Level : Queued(running[l]) =
           IF sleep /\ l = cur THEN Queued(s.running[l]) \ {Head(q)}
                               ELSE Queued(s.running[l])
  BY <1>3, <1>6
<1> HIDE DEF running
<1>8. running[k] # <<>>
  <2>1. u \in Queued(running[k])
    BY <1>7, <1>4
  <2> QED BY <2>1, <1>6, QueuedEmpty
<1>9. /\ next \in Level /\ running[next] # <<>>
      /\ scan => \A l \in Level : running[l] # <<>> => l <= next
  <2>1. CASE scan
    BY <2>1, <1>1, <1>6, <1>8, HighestBusy
  <2>2. CASE ~scan
    BY <2>2, <1>1, <1>6
  <2> QED BY <2>1, <2>2
<1> HIDE DEF next
<1>10. /\ r.running = running /\ r.level_changed = FALSE /\ r.current_level = next
       /\ r.awake = s.awake /\ r.level = s.level /\ r.cpu = s.cpu
       /\ r.ctx = s.ctx /\ r.latest_id = s.latest_id
       /\ r \in TaskManagerState
  BY <1>5, <1>6, <1>9 DEF TaskManagerState
<1>11. \/ \A l \in Level : running[l] # <<>> => l <= next
       \/ ~s.level_changed /\ next = s.current_level
  BY <1>9 DEF next
<1> QED BY <1>4, <1>7, <1>9, <1>10, <1>11

\* SwitchContext: the processor runs whatever new's context held.
LEMMA Switching ==
  ASSUME NEW s \in TaskManagerState, NEW new \in TaskID, NEW old \in TaskID,
         s.cpu = old, new # old => s.ctx[new] = new
  PROVE  LET r == SwitchContext(s, new, old)
         IN  /\ r \in TaskManagerState
             /\ r.running = s.running /\ r.current_level = s.current_level
             /\ r.level_changed = s.level_changed /\ r.level = s.level
             /\ r.awake = s.awake /\ r.latest_id = s.latest_id
             /\ r.cpu = new
             /\ r.ctx \in [TaskID -> TaskID \cup {NoContext}]
             /\ \A t \in TaskID : t # new => r.ctx[t] = IF t = old THEN old ELSE s.ctx[t]
<1> DEFINE stored == [s.ctx EXCEPT ![old] = s.cpu]
           loaded == [stored EXCEPT ![new] = NoContext]
           r == SwitchContext(s, new, old)
<1>1. s.ctx \in [TaskID -> TaskID \cup {NoContext}]
  BY DEF TaskManagerState
<1>2. stored[new] = new
  BY <1>1
<1>3. loaded \in [TaskID -> TaskID \cup {NoContext}]
  BY <1>1
<1>4. \A t \in TaskID : t # new => loaded[t] = IF t = old THEN old ELSE s.ctx[t]
  BY <1>1
<1> HIDE DEF loaded
<1>5. r = [s EXCEPT !.cpu = stored[new], !.ctx = loaded]
  BY DEF SwitchContext, loaded
<1> QED BY <1>2, <1>3, <1>4, <1>5 DEF TaskManagerState

\* The tasks created are tasks.
LEMMA CreatedTasks ==
  ASSUME NEW s, CreatedOK(s)
  PROVE  s.latest_id \in Nat /\ 1 .. s.latest_id \subseteq TaskID
BY MaxTasksAssumption DEF CreatedOK, TaskID, IdleTask

\* The front of the queue being served is an awake task of that level.
LEMMA CurrentIsAwake ==
  ASSUME NEW s \in TaskManagerState, QueuesOK(s),
         s.running[s.current_level] # <<>>
  PROVE  /\ CurrentTask(s) \in TaskID
         /\ CurrentTask(s) \in s.awake
         /\ s.level[CurrentTask(s)] = s.current_level
<1> DEFINE q == s.running[s.current_level]
<1>1. s.current_level \in Level /\ q \in Seq(TaskID)
  BY DEF TaskManagerState
<1>2. Head(q) \in Queued(q) /\ Head(q) \in TaskID
  BY <1>1, QueuedEmpty
<1> QED BY <1>1, <1>2 DEF QueuesOK, CurrentTask

\* SwitchTask keeps the invariant and gives the processor to an awake task of
\* the highest level present.
LEMMA SwitchTaskInv ==
  ASSUME NEW s, ManagerInv(s)
  PROVE  /\ ManagerInv(SwitchTask(s))
         /\ SwitchTask(s).awake = s.awake /\ SwitchTask(s).level = s.level
         /\ SwitchTask(s).latest_id = s.latest_id
         /\ \A t \in s.awake : s.level[t] <= s.level[SwitchTask(s).cpu]
<1> DEFINE r == RotateRunQueue(s, FALSE)
           old == CurrentTask(s)
           new == CurrentTask(r)
           z == SwitchTask(s)
<1>1. /\ s \in TaskManagerState /\ QueuesOK(s) /\ IdleOK(s) /\ CreatedOK(s)
      /\ ProcessorOK(s) /\ PriorityOK(s)
  BY DEF ManagerInv
<1>2. IdleTask \in Queued(s.running[0]) /\ 0 \in Level
  BY <1>1 DEF QueuesOK, IdleOK, Level, kMaxLevel
<1>3. /\ r \in TaskManagerState
      /\ r.awake = s.awake /\ r.level = s.level /\ r.cpu = s.cpu
      /\ r.ctx = s.ctx /\ r.latest_id = s.latest_id
      /\ ~r.level_changed
      /\ \A l \in Level : Distinct(r.running[l])
      /\ \A l \in Level : Queued(r.running[l]) = Queued(s.running[l])
      /\ r.running[r.current_level] # <<>>
      /\ \/ \A l \in Level : r.running[l] # <<>> => l <= r.current_level
         \/ ~s.level_changed /\ r.current_level = s.current_level
  BY <1>1, <1>2, Rotation DEF QueuesOK, ProcessorOK
<1> HIDE DEF r
<1>4. QueuesOK(r)
  BY <1>1, <1>3 DEF QueuesOK
<1>5. new \in s.awake /\ new \in TaskID /\ s.level[new] = r.current_level
  BY <1>3, <1>4, CurrentIsAwake
<1>6. old \in TaskID /\ s.cpu = old
  BY <1>1, CurrentIsAwake DEF ProcessorOK
<1>7. new # old => s.ctx[new] = new
  BY <1>1, <1>5, <1>6 DEF ProcessorOK, CreatedOK, TaskID
<1>8. z = SwitchContext(r, new, old)
  BY DEF SwitchTask, r
<1> HIDE DEF new, old, z
<1>9. /\ z \in TaskManagerState
      /\ z.running = r.running /\ z.current_level = r.current_level
      /\ z.level_changed = r.level_changed /\ z.level = s.level
      /\ z.awake = s.awake /\ z.latest_id = s.latest_id
      /\ z.cpu = new
      /\ \A t \in TaskID : t # new => z.ctx[t] = IF t = old THEN old ELSE s.ctx[t]
  BY <1>3, <1>5, <1>6, <1>7, <1>8, Switching
<1>10. \A t \in s.awake : s.level[t] <= r.current_level
  <2> SUFFICES ASSUME NEW t \in s.awake
               PROVE  s.level[t] <= r.current_level
    OBVIOUS
  <2>1. s.level[t] \in Level /\ t \in Queued(r.running[s.level[t]])
    BY <1>1, <1>3 DEF QueuesOK, TaskManagerState
  <2>2. r.running[s.level[t]] # <<>>
    BY <1>3, <2>1, QueuedEmpty DEF TaskManagerState
  <2> QED BY <1>1, <1>3, <2>1, <2>2 DEF PriorityOK
<1>11. QueuesOK(z) /\ IdleOK(z) /\ CreatedOK(z) /\ PriorityOK(z)
  BY <1>1, <1>3, <1>4, <1>9, <1>10 DEF QueuesOK, IdleOK, CreatedOK, PriorityOK
<1>12. ProcessorOK(z)
  <2>1. CurrentTask(z) = new
    BY <1>9 DEF CurrentTask, new
  <2>2. \A t \in 1 .. z.latest_id : t # z.cpu => z.ctx[t] = t
    BY <1>1, <1>6, <1>9, CreatedTasks DEF ProcessorOK
  <2> QED BY <1>3, <1>9, <2>1, <2>2 DEF ProcessorOK
<1> QED BY <1>5, <1>9, <1>10, <1>11, <1>12 DEF ManagerInv, z

\* Sleep keeps the invariant for every task but the idle one; if the sleeper
\* is on the processor, a task of the highest level present replaces it.
LEMMA SleepInv ==
  ASSUME NEW s, ManagerInv(s), NEW t \in TaskID, t # IdleTask
  PROVE  /\ ManagerInv(Sleep(s, t))
         /\ Sleep(s, t).awake = s.awake \ {t} /\ Sleep(s, t).level = s.level
         /\ Sleep(s, t).latest_id = s.latest_id
         /\ t # s.cpu => Sleep(s, t).cpu = s.cpu
         /\ (t \in s.awake /\ t = s.cpu) =>
              \A u \in s.awake \ {t} : s.level[u] <= s.level[Sleep(s, t).cpu]
<1> DEFINE z == Sleep(s, t)
           asleep == [s EXCEPT !.awake = @ \ {t}]
<1>1. /\ s \in TaskManagerState /\ QueuesOK(s) /\ IdleOK(s) /\ CreatedOK(s)
      /\ ProcessorOK(s) /\ PriorityOK(s)
  BY DEF ManagerInv
<1>2. IdleTask \in Queued(s.running[0]) /\ 0 \in Level
  BY <1>1 DEF QueuesOK, IdleOK, Level, kMaxLevel
<1>3. /\ CurrentTask(s) \in s.awake /\ s.level[CurrentTask(s)] = s.current_level
      /\ s.cpu = CurrentTask(s) /\ s.running[s.current_level] # <<>>
  BY <1>1, CurrentIsAwake DEF ProcessorOK
<1>4. /\ asleep \in TaskManagerState
      /\ asleep.awake = s.awake \ {t} /\ asleep.running = s.running
      /\ asleep.current_level = s.current_level /\ asleep.level = s.level
      /\ asleep.level_changed = s.level_changed /\ asleep.cpu = s.cpu
      /\ asleep.ctx = s.ctx /\ asleep.latest_id = s.latest_id
  BY <1>1 DEF TaskManagerState
<1>5. CASE t \notin s.awake
  <2>1. z = s /\ s.awake \ {t} = s.awake
    BY <1>5 DEF Sleep
  <2> QED BY <1>1, <1>5, <2>1
<1>6. CASE t \in s.awake /\ t = CurrentTask(s)
  <2> DEFINE r == RotateRunQueue(asleep, TRUE)
             new == CurrentTask(r)
  <2> HIDE DEF asleep
  <2>1. CurrentTask(asleep) = t
    BY <1>4, <1>6 DEF CurrentTask
  <2>2. /\ r \in TaskManagerState
        /\ r.awake = s.awake \ {t} /\ r.level = s.level /\ r.cpu = t
        /\ r.ctx = s.ctx /\ r.latest_id = s.latest_id
        /\ ~r.level_changed
        /\ \A l \in Level : Distinct(r.running[l])
        /\ \A l \in Level : Queued(r.running[l]) =
             IF l = s.current_level THEN Queued(s.running[l]) \ {t}
                                    ELSE Queued(s.running[l])
        /\ r.running[r.current_level] # <<>>
        /\ \/ \A l \in Level : r.running[l] # <<>> => l <= r.current_level
           \/ ~s.level_changed /\ r.current_level = s.current_level
    <3>1. /\ asleep.running[asleep.current_level] # <<>>
          /\ \A l \in Level : Distinct(asleep.running[l])
          /\ IdleTask \in Queued(asleep.running[0])
          /\ IdleTask # CurrentTask(asleep)
      BY <1>1, <1>2, <1>3, <1>4, <2>1 DEF QueuesOK
    <3>2. /\ r \in TaskManagerState
          /\ r.awake = asleep.awake /\ r.level = asleep.level
          /\ r.cpu = asleep.cpu
          /\ r.ctx = asleep.ctx /\ r.latest_id = asleep.latest_id
          /\ ~r.level_changed
          /\ \A l \in Level : Distinct(r.running[l])
          /\ \A l \in Level : Queued(r.running[l]) =
               IF l = asleep.current_level
               THEN Queued(asleep.running[l]) \ {CurrentTask(asleep)}
               ELSE Queued(asleep.running[l])
          /\ r.running[r.current_level] # <<>>
          /\ \/ \A l \in Level : r.running[l] # <<>> => l <= r.current_level
             \/ ~asleep.level_changed /\ r.current_level = asleep.current_level
      <4>1. asleep \in TaskManagerState
        BY <1>4
      <4> QED BY <1>2, <3>1, <4>1, Rotation, Zenon
    <3> QED BY <3>2, <1>3, <1>4, <1>6, <2>1
  <2> HIDE DEF r
  <2>3. QueuesOK(r)
    <3>1. \A l \in Level : Queued(r.running[l]) = {u \in r.awake : r.level[u] = l}
      <4> SUFFICES ASSUME NEW l \in Level
                   PROVE  Queued(r.running[l]) = {u \in r.awake : r.level[u] = l}
        OBVIOUS
      <4>1. Queued(s.running[l]) = {u \in s.awake : s.level[u] = l}
        BY <1>1 DEF QueuesOK
      <4>2. CASE l = s.current_level
        BY <4>1, <4>2, <2>2
      <4>3. CASE l # s.current_level
        <5>1. Queued(r.running[l]) = {u \in s.awake : s.level[u] = l}
          BY <4>1, <4>3, <2>2
        <5>2. s.level[t] # l
          BY <4>3, <1>3, <1>6
        <5>3. {u \in s.awake : s.level[u] = l} = {u \in s.awake \ {t} : s.level[u] = l}
          BY <5>2
        <5> QED BY <5>1, <5>3, <2>2
      <4> QED BY <4>2, <4>3
    <3> QED BY <2>2, <3>1 DEF QueuesOK
  <2>4. new \in r.awake /\ new \in TaskID /\ s.level[new] = r.current_level
    BY <2>2, <2>3, CurrentIsAwake
  <2>5. new # t /\ s.ctx[new] = new
    BY <1>1, <1>3, <1>6, <2>2, <2>4 DEF ProcessorOK, CreatedOK, TaskID
  <2>6. z = SwitchContext(r, new, t)
    BY <1>6 DEF Sleep, r, asleep
  <2> HIDE DEF new, z
  <2>7. /\ z \in TaskManagerState
        /\ z.running = r.running /\ z.current_level = r.current_level
        /\ z.level_changed = r.level_changed /\ z.level = s.level
        /\ z.awake = s.awake \ {t} /\ z.latest_id = s.latest_id
        /\ z.cpu = new
        /\ \A u \in TaskID : u # new => z.ctx[u] = IF u = t THEN t ELSE s.ctx[u]
    BY <2>2, <2>4, <2>5, <2>6, Switching
  <2>8. \A u \in s.awake \ {t} : s.level[u] <= r.current_level
    <3> SUFFICES ASSUME NEW u \in s.awake \ {t}
                 PROVE  s.level[u] <= r.current_level
      OBVIOUS
    <3>1. s.level[u] \in Level /\ u \in Queued(r.running[s.level[u]])
      BY <1>1, <2>2, <2>3 DEF QueuesOK, TaskManagerState
    <3>2. r.running[s.level[u]] # <<>>
      BY <2>2, <3>1, QueuedEmpty DEF TaskManagerState
    <3> QED BY <1>1, <2>2, <3>1, <3>2 DEF PriorityOK
  <2>9. QueuesOK(z) /\ IdleOK(z) /\ CreatedOK(z) /\ PriorityOK(z)
    BY <1>1, <2>2, <2>3, <2>7, <2>8 DEF QueuesOK, IdleOK, CreatedOK, PriorityOK
  <2>10. ProcessorOK(z)
    <3>1. CurrentTask(z) = new
      BY <2>7 DEF CurrentTask, new
    <3>2. \A u \in 1 .. z.latest_id : u # z.cpu => z.ctx[u] = u
      BY <1>1, <1>3, <1>6, <2>7, CreatedTasks DEF ProcessorOK
    <3> QED BY <2>2, <2>7, <3>1, <3>2 DEF ProcessorOK
  <2> QED BY <1>3, <1>6, <2>4, <2>7, <2>8, <2>9, <2>10 DEF ManagerInv, z
<1>7. CASE t \in s.awake /\ t # CurrentTask(s)
  <2> DEFINE lv == s.level[t]
             e == Erase(s.running[lv], t)
             running == [s.running EXCEPT ![lv] = e]
  <2>1. lv \in Level /\ s.running[lv] \in Seq(TaskID) /\ Distinct(s.running[lv])
    BY <1>1 DEF TaskManagerState, QueuesOK
  <2>2. /\ e \in Seq(TaskID) /\ Queued(e) = Queued(s.running[lv]) \ {t} /\ Distinct(e)
        /\ s.running[lv] # <<>> /\ t # Head(s.running[lv]) =>
             e # <<>> /\ Head(e) = Head(s.running[lv])
    BY <2>1, QueuedErase
  <2>3. z = [asleep EXCEPT !.running = running]
    BY <1>7, <1>4 DEF Sleep
  <2> HIDE DEF e
  <2>4. /\ running \in [Level -> Seq(TaskID)]
        /\ \A l \in Level : running[l] = IF l = lv THEN e ELSE s.running[l]
    BY <1>1, <2>1, <2>2 DEF TaskManagerState
  <2> HIDE DEF running, z, asleep
  <2>5. /\ z \in TaskManagerState /\ z.running = running
        /\ z.awake = s.awake \ {t}
        /\ z.current_level = s.current_level /\ z.level = s.level
        /\ z.level_changed = s.level_changed /\ z.cpu = s.cpu
        /\ z.ctx = s.ctx /\ z.latest_id = s.latest_id
    BY <1>4, <2>3, <2>4 DEF TaskManagerState
  <2>6. QueuesOK(z)
    <3> SUFFICES ASSUME NEW l \in Level
                 PROVE  /\ Queued(running[l]) = {u \in s.awake \ {t} : s.level[u] = l}
                        /\ Distinct(running[l])
      BY <2>5 DEF QueuesOK
    <3>1. /\ Queued(s.running[l]) = {u \in s.awake : s.level[u] = l}
          /\ Distinct(s.running[l])
      BY <1>1 DEF QueuesOK
    <3>2. CASE l = lv
      BY <3>1, <3>2, <2>2, <2>4
    <3>3. CASE l # lv
      <4>1. running[l] = s.running[l] /\ s.level[t] # l
        BY <3>3, <2>4
      <4> QED BY <3>1, <4>1
    <3> QED BY <3>2, <3>3
  <2>7. /\ z.running[z.current_level] # <<>>
        /\ CurrentTask(z) = CurrentTask(s)
    <3>1. s.current_level \in Level /\ CurrentTask(s) = Head(s.running[s.current_level])
      BY <1>1 DEF CurrentTask, TaskManagerState
    <3>2. /\ running[s.current_level] # <<>>
          /\ Head(running[s.current_level]) = Head(s.running[s.current_level])
      <4>1. CASE s.current_level = lv
        BY <4>1, <3>1, <1>3, <1>7, <2>2, <2>4
      <4>2. CASE s.current_level # lv
        BY <4>2, <3>1, <1>3, <2>4
      <4> QED BY <4>1, <4>2
    <3> QED BY <2>5, <3>1, <3>2 DEF CurrentTask
  <2>8. IdleOK(z) /\ CreatedOK(z) /\ PriorityOK(z) /\ ProcessorOK(z)
    BY <1>1, <2>5, <2>7 DEF IdleOK, CreatedOK, PriorityOK, ProcessorOK
  <2> QED BY <1>3, <1>7, <2>5, <2>6, <2>8 DEF ManagerInv, z
<1> QED BY <1>5, <1>6, <1>7

\* ChangeLevelRunning keeps the invariant when the task is the current one or
\* is queued at the current level.
LEMMA ChangeLevelInv ==
  ASSUME NEW s, ManagerInv(s), NEW t \in s.awake, t # IdleTask,
         NEW level \in {-1} \cup Level,
         level < 0 \/ s.level[t] = s.current_level
  PROVE  LET z == ChangeLevelRunning(s, t, level)
         IN  /\ ManagerInv(z)
             /\ z.awake = s.awake /\ z.cpu = s.cpu /\ z.latest_id = s.latest_id
             /\ z.level = IF level < 0 THEN s.level ELSE [s.level EXCEPT ![t] = level]
<1> DEFINE z == ChangeLevelRunning(s, t, level)
           cur == s.current_level
           levels == [s.level EXCEPT ![t] = level]
<1>1. /\ s \in TaskManagerState /\ QueuesOK(s) /\ IdleOK(s) /\ CreatedOK(s)
      /\ ProcessorOK(s) /\ PriorityOK(s)
  BY DEF ManagerInv
<1>2. /\ s.running \in [Level -> Seq(TaskID)] /\ cur \in Level
      /\ s.level \in [TaskID -> Level] /\ t \in TaskID /\ s.awake \subseteq TaskID
      /\ s.running[cur] # <<>> /\ IdleTask \in TaskID
  BY <1>1 DEF TaskManagerState, ProcessorOK, IdleOK
<1>3. CASE level < 0 \/ level = s.level[t]
  <2>1. z = s
    BY <1>3 DEF ChangeLevelRunning
  <2>2. level = s.level[t] => [s.level EXCEPT ![t] = level] = s.level
    BY <1>2
  <2>3. level = s.level[t] => ~(level < 0)
    BY <1>2 DEF Level, kMaxLevel
  <2> QED BY <2>1, <2>2, <2>3, <1>3
<1>4. CASE ~(level < 0 \/ level = s.level[t])
  <2>1. level \in Level /\ level # cur /\ s.level[t] = cur
    BY <1>4
  <2>2. /\ levels \in [TaskID -> Level]
        /\ \A u \in TaskID : levels[u] = IF u = t THEN level ELSE s.level[u]
    BY <1>2, <2>1
  <2>3. /\ t \in Queued(s.running[cur]) /\ t \notin Queued(s.running[level])
        /\ Distinct(s.running[cur]) /\ Distinct(s.running[level])
        /\ s.running[cur] \in Seq(TaskID) /\ s.running[level] \in Seq(TaskID)
    BY <1>1, <1>2, <2>1 DEF QueuesOK
  <2> HIDE DEF levels
  <2>4. ASSUME NEW f, NEW b, f \in Seq(TaskID), b \in Seq(TaskID),
               Distinct(f), Distinct(b),
               Queued(f) = Queued(s.running[cur]) \ {t},
               Queued(b) = Queued(s.running[level]) \cup {t},
               z \in TaskManagerState,
               z.awake = s.awake, z.level = levels,
               z.running = [[s.running EXCEPT ![cur] = f] EXCEPT ![level] = b]
        PROVE  /\ QueuesOK(z)
               /\ z.running[cur] = f /\ z.running[level] = b
    <3>1. \A l \in Level : z.running[l] = IF l = level THEN b
                                          ELSE IF l = cur THEN f ELSE s.running[l]
      BY <2>4, <2>1, <1>2
    <3>2. \A l \in Level : Distinct(z.running[l])
      BY <3>1, <2>4, <1>1 DEF QueuesOK
    <3>3. \A l \in Level : Queued(z.running[l]) = {u \in z.awake : z.level[u] = l}
      <4> SUFFICES ASSUME NEW l \in Level
                   PROVE  Queued(z.running[l]) = {u \in s.awake : levels[u] = l}
        BY <2>4
      <4>1. Queued(s.running[l]) = {u \in s.awake : s.level[u] = l}
        BY <1>1 DEF QueuesOK
      <4>2. CASE l = level
        BY <4>1, <4>2, <3>1, <2>1, <2>2, <2>4, <1>2
      <4>3. CASE l = cur
        BY <4>1, <4>3, <3>1, <2>1, <2>2, <2>4, <1>2
      <4>4. CASE l # level /\ l # cur
        BY <4>1, <4>4, <3>1, <2>1, <2>2, <1>2
      <4> QED BY <4>2, <4>3, <4>4
    <3> QED BY <3>1, <3>2, <3>3, <2>1, <1>2 DEF QueuesOK
  <2>5. CASE t # CurrentTask(s)
    <3> DEFINE f == Erase(s.running[cur], t)
               b == Append(s.running[level], t)
               changed == s.level_changed \/ level > cur
               running == [[s.running EXCEPT ![cur] = f] EXCEPT ![level] = b]
    <3>1. /\ f \in Seq(TaskID) /\ Queued(f) = Queued(s.running[cur]) \ {t} /\ Distinct(f)
          /\ f # <<>> /\ Head(f) = Head(s.running[cur])
      BY <2>3, <2>5, <1>2, QueuedErase DEF CurrentTask
    <3>2. /\ b \in Seq(TaskID) /\ Queued(b) = Queued(s.running[level]) \cup {t}
          /\ Distinct(b)
      BY <2>3, <1>2, QueuedAppend
    <3>3. z = [s EXCEPT !.running = running, !.level = levels, !.level_changed = changed]
      <4>1. [s.running EXCEPT ![cur] = f][level] = s.running[level]
        BY <1>2, <2>1
      <4> QED BY <4>1, <2>5, <1>4 DEF ChangeLevelRunning, levels
    <3> HIDE DEF f, b, z
    <3>4. running \in [Level -> Seq(TaskID)]
      BY <1>2, <2>1, <3>1, <3>2
    <3>5. /\ z \in TaskManagerState /\ z.running = running /\ z.level = levels
          /\ z.level_changed = changed /\ z.awake = s.awake /\ z.cpu = s.cpu
          /\ z.current_level = cur /\ z.ctx = s.ctx /\ z.latest_id = s.latest_id
      BY <1>1, <3>3, <3>4, <2>2 DEF TaskManagerState
    <3>6. QueuesOK(z) /\ z.running[cur] = f
      BY <2>4, <3>1, <3>2, <3>5
    <3>7. IdleOK(z) /\ CreatedOK(z) /\ ProcessorOK(z)
      BY <1>1, <1>2, <2>2, <3>1, <3>5, <3>6
         DEF IdleOK, CreatedOK, ProcessorOK, CurrentTask
    <3>8. PriorityOK(z)
      <4> SUFFICES ASSUME ~changed, NEW u \in s.awake
                   PROVE  levels[u] <= z.current_level
        BY <3>5 DEF PriorityOK
      <4>1. s.level[u] <= cur /\ s.level[u] \in Int /\ cur \in Int /\ level \in Int
        BY <1>1, <1>2, <2>1 DEF PriorityOK, Level, kMaxLevel
      <4>2. levels[u] = IF u = t THEN level ELSE s.level[u]
        BY <1>2, <2>2
      <4>3. z.current_level = cur
        BY <3>5
      <4> QED BY <4>1, <4>2, <4>3
    <3> QED BY <3>5, <3>6, <3>7, <3>8, <2>1, <1>4 DEF ManagerInv, z, levels
  <2>6. CASE t = CurrentTask(s)
    <3> DEFINE f == Tail(s.running[cur])
               b == PushFront(s.running[level], t)
               changed == s.level_changed \/ level < cur
               running == [[s.running EXCEPT ![cur] = f] EXCEPT ![level] = b]
    <3>1. f \in Seq(TaskID) /\ Queued(f) = Queued(s.running[cur]) \ {t} /\ Distinct(f)
      BY <2>3, <2>6, <1>2, QueuedTail DEF CurrentTask
    <3>2. /\ b \in Seq(TaskID) /\ Queued(b) = Queued(s.running[level]) \cup {t}
          /\ Distinct(b) /\ b # <<>> /\ Head(b) = t
      BY <2>3, <1>2, QueuedPushFront
    <3>3. z = [s EXCEPT !.running = running, !.level = levels,
                        !.level_changed = changed, !.current_level = level]
      <4>1. [s.running EXCEPT ![cur] = f][level] = s.running[level]
        BY <1>2, <2>1
      <4> QED BY <4>1, <2>6, <1>4 DEF ChangeLevelRunning, levels
    <3> HIDE DEF f, b, z
    <3>4. running \in [Level -> Seq(TaskID)]
      BY <1>2, <2>1, <3>1, <3>2
    <3>5. /\ z \in TaskManagerState /\ z.running = running /\ z.level = levels
          /\ z.level_changed = changed /\ z.awake = s.awake /\ z.cpu = s.cpu
          /\ z.current_level = level /\ z.ctx = s.ctx /\ z.latest_id = s.latest_id
      BY <1>1, <2>1, <3>3, <3>4, <2>2 DEF TaskManagerState
    <3>6. QueuesOK(z) /\ z.running[level] = b
      BY <2>4, <3>1, <3>2, <3>5
    <3>7. IdleOK(z) /\ CreatedOK(z) /\ ProcessorOK(z)
      BY <1>1, <1>2, <2>2, <2>6, <3>2, <3>5, <3>6
         DEF IdleOK, CreatedOK, ProcessorOK, CurrentTask
    <3>8. PriorityOK(z)
      <4> SUFFICES ASSUME ~changed, NEW u \in s.awake
                   PROVE  levels[u] <= z.current_level
        BY <3>5 DEF PriorityOK
      <4>1. s.level[u] <= cur /\ s.level[u] \in Int /\ cur \in Int /\ level \in Int
        BY <1>1, <1>2, <2>1 DEF PriorityOK, Level, kMaxLevel
      <4>2. levels[u] = IF u = t THEN level ELSE s.level[u]
        BY <1>2, <2>2
      <4>3. z.current_level = level
        BY <3>5
      <4> QED BY <4>1, <4>2, <4>3
    <3> QED BY <3>5, <3>6, <3>7, <3>8, <2>1, <1>4 DEF ManagerInv, z, levels
  <2> QED BY <2>5, <2>6
<1> QED BY <1>3, <1>4

\* Wakeup keeps the invariant: the task is queued once, at the level it keeps,
\* and a level above the current one leaves a change pending.
LEMMA WakeupInv ==
  ASSUME NEW s, ManagerInv(s), NEW t \in 1 .. s.latest_id, t # IdleTask,
         NEW level \in {-1} \cup Level,
         t \notin s.awake \/ level < 0 \/ s.level[t] = s.current_level
  PROVE  LET z == Wakeup(s, t, level)
         IN  /\ ManagerInv(z)
             /\ z.awake = s.awake \cup {t} /\ z.cpu = s.cpu /\ z.latest_id = s.latest_id
             /\ z.level = IF level < 0 THEN s.level ELSE [s.level EXCEPT ![t] = level]
<1> DEFINE z == Wakeup(s, t, level)
<1>1. /\ s \in TaskManagerState /\ QueuesOK(s) /\ IdleOK(s) /\ CreatedOK(s)
      /\ ProcessorOK(s) /\ PriorityOK(s)
  BY DEF ManagerInv
<1>2. CASE t \in s.awake
  <2>1. z = ChangeLevelRunning(s, t, level) /\ s.awake \cup {t} = s.awake
    BY <1>2 DEF Wakeup
  <2> QED BY <1>2, <2>1, ChangeLevelInv
<1>3. CASE t \notin s.awake
  <2> DEFINE lv == IF level < 0 THEN s.level[t] ELSE level
             b == Append(s.running[lv], t)
             running == [s.running EXCEPT ![lv] = b]
             levels == [s.level EXCEPT ![t] = lv]
             changed == s.level_changed \/ lv > s.current_level
  <2>1. /\ t \in TaskID /\ s.level \in [TaskID -> Level]
        /\ s.running \in [Level -> Seq(TaskID)] /\ s.current_level \in Level
        /\ s.awake \subseteq TaskID /\ IdleTask \in TaskID
    BY <1>1, CreatedTasks DEF TaskManagerState, IdleOK
  <2>2. lv \in Level
    BY <2>1 DEF Level, kMaxLevel
  <2>3. /\ levels \in [TaskID -> Level]
        /\ \A u \in TaskID : levels[u] = IF u = t THEN lv ELSE s.level[u]
        /\ levels = IF level < 0 THEN s.level ELSE [s.level EXCEPT ![t] = level]
    BY <2>1, <2>2
  <2>4. z = [s EXCEPT !.level = levels, !.awake = s.awake \cup {t},
                      !.running = running, !.level_changed = changed]
    BY <1>3 DEF Wakeup
  <2> HIDE DEF lv, levels, z
  <2>5. /\ b \in Seq(TaskID) /\ b # <<>> /\ Distinct(b)
        /\ Queued(b) = Queued(s.running[lv]) \cup {t}
        /\ s.running[lv] # <<>> => Head(b) = Head(s.running[lv])
    <3>1. s.running[lv] \in Seq(TaskID) /\ Distinct(s.running[lv])
          /\ t \notin Queued(s.running[lv])
      BY <1>1, <1>3, <2>1, <2>2 DEF QueuesOK
    <3> QED BY <3>1, <2>1, QueuedAppend
  <2> HIDE DEF b
  <2>6. /\ running \in [Level -> Seq(TaskID)]
        /\ \A l \in Level : running[l] = IF l = lv THEN b ELSE s.running[l]
    BY <2>1, <2>2, <2>5
  <2> HIDE DEF running
  <2>7. /\ z \in TaskManagerState /\ z.level = levels /\ z.awake = s.awake \cup {t}
        /\ z.running = running /\ z.level_changed = changed
        /\ z.current_level = s.current_level /\ z.cpu = s.cpu /\ z.ctx = s.ctx
        /\ z.latest_id = s.latest_id
    BY <1>1, <2>1, <2>3, <2>4, <2>6 DEF TaskManagerState
  <2>8. QueuesOK(z)
    <3>1. \A l \in Level : Queued(z.running[l]) = {u \in z.awake : z.level[u] = l}
      <4> SUFFICES ASSUME NEW l \in Level
                   PROVE  Queued(running[l]) = {u \in s.awake \cup {t} : levels[u] = l}
        BY <2>7
      <4>1. Queued(s.running[l]) = {u \in s.awake : s.level[u] = l}
        BY <1>1 DEF QueuesOK
      <4>2. CASE l = lv
        BY <4>1, <4>2, <2>1, <2>3, <2>5, <2>6, <1>3
      <4>3. CASE l # lv
        BY <4>1, <4>3, <2>1, <2>3, <2>6, <1>3
      <4> QED BY <4>2, <4>3
    <3> QED BY <1>1, <2>5, <2>6, <2>7, <3>1 DEF QueuesOK
  <2>9. ProcessorOK(z)
    BY <1>1, <2>1, <2>5, <2>6, <2>7 DEF ProcessorOK, CurrentTask
  <2>10. IdleOK(z)
    BY <1>1, <2>1, <2>3, <2>7 DEF IdleOK
  <2>11. CreatedOK(z)
    BY <1>1, <2>7, CreatedTasks DEF CreatedOK
  <2>12. PriorityOK(z)
    <3> SUFFICES ASSUME ~changed, NEW u \in s.awake \cup {t}
                 PROVE  levels[u] <= s.current_level
      BY <2>7 DEF PriorityOK
    <3>1. lv \in Int /\ s.current_level \in Int
      BY <2>1, <2>2 DEF Level, kMaxLevel
    <3> QED BY <3>1, <1>1, <2>1, <2>3 DEF PriorityOK
  <2> QED BY <2>3, <2>7, <2>8, <2>9, <2>10, <2>11, <2>12 DEF ManagerInv, z
<1> QED BY <1>2, <1>3

\* NewTask().InitContext(): a task that is created, asleep and resumable.
LEMMA CreateInv ==
  ASSUME NEW s, ManagerInv(s), s.latest_id < MaxTasks
  PROVE  LET z == InitContext(NewTask(s), s.latest_id + 1)
         IN  /\ ManagerInv(z) /\ z.latest_id = s.latest_id + 1
             /\ z.awake = s.awake /\ z.level = s.level /\ z.cpu = s.cpu
<1> DEFINE n == s.latest_id + 1
           ctx == [s.ctx EXCEPT ![n] = n]
           z == InitContext(NewTask(s), n)
<1>1. /\ s \in TaskManagerState /\ QueuesOK(s) /\ IdleOK(s) /\ CreatedOK(s)
      /\ ProcessorOK(s) /\ PriorityOK(s)
  BY DEF ManagerInv
<1>2. n \in TaskID /\ n \in IdleTask .. MaxTasks /\ n \in Nat /\ s.latest_id \in Nat
  BY <1>1, MaxTasksAssumption DEF CreatedOK, TaskID, IdleTask
<1>3. /\ ctx \in [TaskID -> TaskID \cup {NoContext}]
      /\ \A t \in TaskID : ctx[t] = IF t = n THEN n ELSE s.ctx[t]
  BY <1>1, <1>2 DEF TaskManagerState
<1>4. z = [s EXCEPT !.latest_id = n, !.ctx = ctx]
  BY DEF InitContext, NewTask
<1> HIDE DEF ctx, z
<1>5. /\ z \in TaskManagerState /\ z.latest_id = n /\ z.ctx = ctx
      /\ z.running = s.running /\ z.current_level = s.current_level
      /\ z.level_changed = s.level_changed /\ z.level = s.level
      /\ z.awake = s.awake /\ z.cpu = s.cpu
  BY <1>1, <1>2, <1>3, <1>4 DEF TaskManagerState
<1>6. QueuesOK(z) /\ IdleOK(z) /\ PriorityOK(z)
  BY <1>1, <1>5 DEF QueuesOK, IdleOK, PriorityOK
<1>7. CreatedOK(z)
  <2>1. \A t \in s.awake : t \in Nat /\ t <= s.latest_id
    BY <1>1 DEF CreatedOK, TaskManagerState, TaskID
  <2> QED BY <1>2, <1>5, <2>1 DEF CreatedOK
<1>8. ProcessorOK(z)
  <2>1. \A t \in 1 .. n : t # s.cpu => ctx[t] = t
    <3> SUFFICES ASSUME NEW t \in 1 .. n, t # s.cpu
                 PROVE  ctx[t] = t
      OBVIOUS
    <3>1. CASE t = n
      BY <3>1, <1>2, <1>3
    <3>2. CASE t # n
      <4>1. t \in 1 .. s.latest_id
        BY <3>2, <1>2
      <4> QED BY <4>1, <3>2, <1>1, <1>3, CreatedTasks DEF ProcessorOK
    <3> QED BY <3>1, <3>2
  <2> QED BY <1>1, <1>5, <2>1 DEF ProcessorOK, CurrentTask
<1> QED BY <1>5, <1>6, <1>7, <1>8 DEF ManagerInv, z

\* TaskManager() establishes the invariant.
LEMMA InitialManagerInv == ManagerInv(InitialManager)
<1> DEFINE z == InitialManager
           running == [l \in Level |-> CASE l = kMaxLevel -> <<MainTask>>
                                         [] l = 0 -> <<IdleTask>>
                                         [] OTHER -> <<>>]
           level == [t \in TaskID |-> CASE t = MainTask -> kMaxLevel
                                        [] t = IdleTask -> 0
                                        [] OTHER -> kDefaultLevel]
           ctx == [t \in TaskID |-> IF t = IdleTask THEN IdleTask ELSE NoContext]
<1>1. /\ z.latest_id = IdleTask /\ z.running = running
      /\ z.current_level = kMaxLevel /\ z.level_changed = FALSE
      /\ z.level = level /\ z.awake = {MainTask, IdleTask}
      /\ z.cpu = MainTask /\ z.ctx = ctx
      /\ z = [latest_id |-> IdleTask, running |-> running,
              current_level |-> kMaxLevel, level_changed |-> FALSE,
              level |-> level, awake |-> {MainTask, IdleTask},
              cpu |-> MainTask, ctx |-> ctx]
  BY DEF InitialManager
<1>2. /\ MainTask \in TaskID /\ IdleTask \in TaskID /\ MainTask # IdleTask
      /\ 0 \in Level /\ kMaxLevel \in Level /\ kDefaultLevel \in Level /\ kMaxLevel # 0
  BY MaxTasksAssumption
     DEF TaskID, MainTask, IdleTask, Level, kMaxLevel, kDefaultLevel
<1>3. /\ level \in [TaskID -> Level]
      /\ level[MainTask] = kMaxLevel /\ level[IdleTask] = 0
  BY <1>2
<1>4. ctx \in [TaskID -> TaskID \cup {NoContext}] /\ ctx[IdleTask] = IdleTask
  BY <1>2
<1>5. ASSUME NEW t \in TaskID
      PROVE  <<t>> \in Seq(TaskID) /\ Queued(<<t>>) = {t} /\ Distinct(<<t>>)
             /\ <<t>> # <<>> /\ Head(<<t>>) = t
  BY DEF Queued, Distinct
<1>6. <<>> \in Seq(TaskID) /\ Queued(<<>>) = {} /\ Distinct(<<>>)
  <2>1. <<>> \in Seq(TaskID) /\ Len(<<>>) = 0
    BY EmptySeq
  <2>2. DOMAIN <<>> = {}
    OBVIOUS
  <2> QED BY <2>1, <2>2, QueuedEmpty DEF Distinct
<1>7. /\ running \in [Level -> Seq(TaskID)]
      /\ running[kMaxLevel] = <<MainTask>> /\ running[0] = <<IdleTask>>
      /\ \A l \in Level : l # kMaxLevel /\ l # 0 => running[l] = <<>>
  BY <1>2, <1>5, <1>6
<1> HIDE DEF running, level, ctx, z
<1>8. z \in TaskManagerState
  BY <1>1, <1>2, <1>3, <1>4, <1>7 DEF TaskManagerState, IdleTask
<1>9. QueuesOK(z)
  <2>1. \A l \in Level : Distinct(running[l])
    BY <1>2, <1>5, <1>6, <1>7
  <2>2. \A l \in Level : Queued(running[l]) = {t \in {MainTask, IdleTask} : level[t] = l}
    <3> SUFFICES ASSUME NEW l \in Level
                 PROVE  Queued(running[l]) = {t \in {MainTask, IdleTask} : level[t] = l}
      OBVIOUS
    <3>1. CASE l = kMaxLevel
      <4>1. Queued(running[l]) = {MainTask}
        BY <3>1, <1>2, <1>5, <1>7
      <4> QED BY <3>1, <4>1, <1>2, <1>3
    <3>2. CASE l = 0
      <4>1. Queued(running[l]) = {IdleTask}
        BY <3>2, <1>2, <1>5, <1>7
      <4> QED BY <3>2, <4>1, <1>2, <1>3
    <3>3. CASE l # kMaxLevel /\ l # 0
      BY <3>3, <1>3, <1>6, <1>7
    <3> QED BY <3>1, <3>2, <3>3
  <2> QED BY <1>1, <2>1, <2>2 DEF QueuesOK
<1>10. ProcessorOK(z)
  <2>1. \A t \in 1 .. IdleTask : t # MainTask => ctx[t] = t
    BY <1>4 DEF IdleTask, MainTask
  <2>2. running[kMaxLevel] # <<>> /\ Head(running[kMaxLevel]) = MainTask
    BY <1>2, <1>5, <1>7
  <2> QED BY <1>1, <2>1, <2>2 DEF ProcessorOK, CurrentTask
<1>11. PriorityOK(z)
  BY <1>1, <1>2, <1>3 DEF PriorityOK, kMaxLevel
<1>12. IdleOK(z) /\ CreatedOK(z)
  BY <1>1, <1>3, MaxTasksAssumption DEF IdleOK, CreatedOK, IdleTask, MainTask
<1> QED BY <1>8, <1>9, <1>10, <1>11, <1>12 DEF ManagerInv, z

-----------------------------------------------------------------------------
(* The specification.                                                      *)

\* Every step of the scheduler keeps the invariant and is a step, or a
\* stutter, of the priority scheduler.
LEMMA StepInv ==
  ASSUME IInv, [Next]_vars
  PROVE  IInv' /\ [Abstract!Next]_(Abstract!vars)
<1> USE DEF IInv
<1>t. tm \in TaskManagerState /\ tm.awake \subseteq TaskID /\ tm.latest_id \in Nat
      /\ tm.level \in [TaskID -> Level]
  BY DEF ManagerInv, TaskManagerState
<1>1. CASE CreateTask
  <2>1. /\ ManagerInv(tm') /\ tm'.awake = tm.awake /\ tm'.level = tm.level
        /\ tm'.cpu = tm.cpu
    BY <1>1, CreateInv DEF CreateTask
  <2> QED BY <2>1 DEF Abstract!vars
<1>2. ASSUME NEW t \in TaskID \ {IdleTask}, NEW level \in CallerLevels,
             WakeupTask(t, level)
      PROVE  IInv' /\ [Abstract!Next]_(Abstract!vars)
  <2>1. level \in {-1} \cup Level /\ t \in 1 .. tm.latest_id
    BY <1>2, <1>t, CallerLevelsAssumption DEF WakeupTask, TaskID
  <2>2. /\ ManagerInv(tm') /\ tm'.awake = tm.awake \cup {t} /\ tm'.cpu = tm.cpu
        /\ tm'.level = IF level < 0 THEN tm.level ELSE [tm.level EXCEPT ![t] = level]
    BY <1>2, <2>1, WakeupInv DEF WakeupTask, LevelChangeIsLocal
  <2>3. \E p \in Level : tm'.level = [tm.level EXCEPT ![t] = p]
    <3>1. CASE level < 0
      <4>1. tm.level[t] \in Level /\ tm'.level = [tm.level EXCEPT ![t] = tm.level[t]]
        BY <3>1, <2>2, <1>t
      <4> QED BY <4>1
    <3>2. CASE ~(level < 0)
      BY <3>2, <2>1, <2>2 DEF Level, kMaxLevel
    <3> QED BY <3>1, <3>2
  <2>4. CASE t \in tm.awake
    <3>1. Abstract!Reprioritize(t)
      BY <2>2, <2>3, <2>4 DEF Abstract!Reprioritize
    <3> QED BY <3>1, <2>2 DEF Abstract!Next
  <2>5. CASE t \notin tm.awake
    <3>1. Abstract!Wake(t)
      BY <2>2, <2>3, <2>5 DEF Abstract!Wake
    <3> QED BY <3>1, <2>2 DEF Abstract!Next
  <2> QED BY <2>4, <2>5
<1>3. ASSUME NEW t \in TaskID \ {IdleTask}, SleepTask(t)
      PROVE  IInv' /\ [Abstract!Next]_(Abstract!vars)
  <2>1. /\ ManagerInv(tm') /\ tm'.awake = tm.awake \ {t} /\ tm'.level = tm.level
        /\ t # tm.cpu => tm'.cpu = tm.cpu
        /\ (t \in tm.awake /\ t = tm.cpu) =>
             \A u \in tm.awake \ {t} : tm.level[u] <= tm.level[tm'.cpu]
    BY <1>3, SleepInv DEF SleepTask
  <2>2. tm'.cpu \in tm'.awake
    BY <2>1, CurrentIsAwake DEF ManagerInv, ProcessorOK
  <2>3. CASE t \notin tm.awake
    <3>1. tm' = tm
      BY <1>3, <2>3 DEF SleepTask, Sleep
    <3> QED BY <2>1, <3>1 DEF Abstract!vars
  <2>4. CASE t \in tm.awake
    <3>1. Abstract!Block(t)
      BY <2>1, <2>2, <2>4 DEF Abstract!Block, Abstract!Highest
    <3> QED BY <3>1, <2>1 DEF Abstract!Next
  <2> QED BY <2>3, <2>4
<1>4. CASE TimerSwitch
  <2>1. /\ ManagerInv(tm') /\ tm'.awake = tm.awake /\ tm'.level = tm.level
        /\ \A t \in tm.awake : tm.level[t] <= tm.level[tm'.cpu]
    BY <1>4, SwitchTaskInv DEF TimerSwitch
  <2>2. tm'.cpu \in tm'.awake
    BY <2>1, CurrentIsAwake DEF ManagerInv, ProcessorOK
  <2>3. Abstract!Preempt
    BY <2>1, <2>2 DEF Abstract!Preempt, Abstract!Highest
  <2> QED BY <2>1, <2>3 DEF Abstract!Next
<1>5. CASE UNCHANGED vars
  BY <1>5 DEF vars, Abstract!vars
<1> QED BY <1>1, <1>2, <1>3, <1>4, <1>5 DEF Next

\* The inductive invariant holds in every reachable state of the scheduler.
THEOREM SchedulerInvariant == Spec => []IInv
<1>1. Init => IInv
  BY InitialManagerInv DEF Init, IInv
<1>2. IInv /\ [Next]_vars => IInv'
  BY StepInv
<1> QED BY <1>1, <1>2, PTL DEF Spec

\* The fields of the TaskManager keep their types, for any number of tasks.
THEOREM TypeCorrect == Spec => []TypeOK
<1>1. IInv => TypeOK
  BY DEF IInv, ManagerInv, TypeOK
<1> QED BY <1>1, SchedulerInvariant, PTL

\* The run queues hold exactly the awake tasks of their level, each once.
THEOREM RunQueuesCorrect == Spec => []RunQueuesInv
<1>1. IInv => RunQueuesInv
  BY DEF IInv, ManagerInv, RunQueuesInv
<1> QED BY <1>1, SchedulerInvariant, PTL

\* The task CurrentTask() names is on the processor and the others can be
\* resumed from their contexts.
THEOREM ProcessorCorrect == Spec => []ProcessorInv
<1>1. IInv => ProcessorInv
  BY DEF IInv, ManagerInv, ProcessorInv
<1> QED BY <1>1, SchedulerInvariant, PTL

\* A higher level waits only while level_changed_ is set.
THEOREM PriorityCorrect == Spec => []PriorityInv
<1>1. IInv => PriorityInv
  BY DEF IInv, ManagerInv, PriorityInv
<1> QED BY <1>1, SchedulerInvariant, PTL

\* The scheduler implements the priority scheduler: whenever SwitchTask or
\* Sleep gives the processor away, an awake task of the highest level gets it.
THEOREM SchedulerRefinement == Spec => ImplementsPriorityScheduler
<1>1. Init => Abstract!Init
  <2>1. ManagerInv(InitialManager)
    BY InitialManagerInv
  <2> QED BY <2>1 DEF Init, InitialManager, Abstract!Init, ManagerInv,
                    TaskManagerState
<1>2. IInv /\ [Next]_vars => [Abstract!Next]_(Abstract!vars)
  BY StepInv
<1> QED BY <1>1, <1>2, SchedulerInvariant, PTL
        DEF Spec, ImplementsPriorityScheduler, Abstract!Spec

=============================================================================
