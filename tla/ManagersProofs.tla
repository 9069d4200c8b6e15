--------------------------- MODULE ManagersProofs ---------------------------
(***************************************************************************)
(* Proofs about the kernel's two managers of plain resources: the frame    *)
(* allocator, for any memory and any memory map, and the timer queue, for  *)
(* any timers armed at any distance.                                       *)
(***************************************************************************)
EXTENDS MemoryManager, TimerManager, TLAPS

-----------------------------------------------------------------------------
(* The frame allocator.                                                    *)

\* While the memory map is read: below available_end exactly the frames that
\* are not available are marked, and nothing is marked beyond the descriptors.
WalkInv ==
  /\ available \subseteq 0 .. available_end - 1
  /\ pc = "map" => /\ \A f \in 0 .. available_end - 1 : f \in alloc_map <=> f \notin available
                   /\ alloc_map \subseteq 0 .. map_end - 1
                   /\ held = {}
  /\ pc # "map" => range_begin = 1 /\ range_end = available_end

\* The bit of a frame in the range that is held or not available is set.
BitsInv ==
  pc # "map" => \A f \in range_begin .. range_end - 1 :
                  f \notin alloc_map <=> f \in available /\ \A b \in held : f \notin Frames(b)

\* The blocks that are held, block by block.
BlocksInv ==
  /\ \A b \in held : \A f \in Frames(b) : f \in available /\ f >= range_begin
  /\ \A a, b \in held : a # b => \A f \in Frames(a) : f \notin Frames(b)

\* What a search has found out: nothing before start_frame_id is large enough,
\* and the i frames after it are free.
SearchInv ==
  pc = "search" =>
    /\ range_begin <= start_frame_id /\ num_frames >= 1
    /\ \A f \in start_frame_id .. start_frame_id + i - 1 : f < range_end /\ f \notin alloc_map
    /\ \A s \in range_begin .. start_frame_id - 1 : ~FreeBlock(s, num_frames)

IInv == TypeOK /\ WalkInv /\ BitsInv /\ BlocksInv /\ SearchInv

-----------------------------------------------------------------------------

LEMMA InitInv == Init => IInv
  BY FramesAssumption
  DEF Init, IInv, TypeOK, WalkInv, BitsInv, BlocksInv, SearchInv, Frame, Block

LEMMA ReadDescriptorInv ==
  ASSUME IInv, NEW start \in Frame, NEW pages \in 1 .. FrameCount, NEW usable \in BOOLEAN,
         ReadDescriptor(start, pages, usable)
  PROVE  IInv'
<1> USE FramesAssumption DEF IInv
<1>0. /\ pc = "map" /\ pc' = "map" /\ held = {} /\ held' = {}
      /\ map_end <= start /\ start + pages <= FrameCount
      /\ map_end' = start + pages
      /\ UNCHANGED <<range_begin, range_end, search, program_break>>
  BY DEF ReadDescriptor, WalkInv
<1>1. CASE usable
  <2>1. /\ alloc_map' = alloc_map \cup (available_end .. start - 1)
        /\ available' = available \cup (start .. start + pages - 1)
        /\ available_end' = start + pages
    BY <1>1 DEF ReadDescriptor
  <2>2. TypeOK'
    BY <1>0, <2>1 DEF TypeOK, Frame, search
  <2>3. WalkInv'
    BY <1>0, <2>1 DEF TypeOK, WalkInv, Frame
  <2> QED BY <1>0, <2>2, <2>3 DEF BitsInv, BlocksInv, SearchInv
<1>2. CASE ~usable
  <2>1. /\ alloc_map' = alloc_map \cup (available_end .. start - 1)
                                  \cup (start .. start + pages - 1)
        /\ UNCHANGED <<available, available_end>>
    BY <1>2 DEF ReadDescriptor
  <2>2. TypeOK'
    BY <1>0, <2>1 DEF TypeOK, Frame, search
  <2>3. WalkInv'
    BY <1>0, <2>1 DEF TypeOK, WalkInv, Frame
  <2> QED BY <1>0, <2>2, <2>3 DEF BitsInv, BlocksInv, SearchInv
<1> QED BY <1>1, <1>2

LEMMA SetMemoryRangeInv ==
  ASSUME IInv, SetMemoryRange
  PROVE  IInv'
<1> USE FramesAssumption, RequestAssumption DEF IInv, SetMemoryRange
<1>1. TypeOK'
  BY DEF TypeOK, Frame
<1>2. WalkInv'
  BY DEF TypeOK, WalkInv
<1>3. BitsInv'
  BY DEF TypeOK, WalkInv, BitsInv
<1>4. BlocksInv'
  BY DEF WalkInv, BlocksInv
<1>5. SearchInv'
  BY DEF TypeOK, SearchInv
<1> QED BY <1>1, <1>2, <1>3, <1>4, <1>5

LEMMA AllocateInv ==
  ASSUME IInv, NEW n \in 1 .. MaxRequest, Allocate(n)
  PROVE  IInv'
<1> USE RequestAssumption DEF IInv, Allocate, map
<1>1. TypeOK'
  BY DEF TypeOK
<1>2. WalkInv' /\ BitsInv' /\ BlocksInv'
  BY DEF WalkInv, BitsInv, BlocksInv
<1>3. SearchInv'
  BY DEF TypeOK, SearchInv
<1> QED BY <1>1, <1>2, <1>3

LEMMA NextBitInv ==
  ASSUME IInv, NextBit
  PROVE  IInv'
<1> USE DEF IInv, NextBit, Looking, map
<1>1. TypeOK'
  BY DEF TypeOK
<1>2. WalkInv' /\ BitsInv' /\ BlocksInv'
  BY DEF WalkInv, BitsInv, BlocksInv
<1>3. SearchInv'
  <2>1. \A f \in start_frame_id .. start_frame_id + i : f < range_end /\ f \notin alloc_map
    BY DEF TypeOK, SearchInv
  <2> QED BY <2>1 DEF TypeOK, SearchInv, FreeBlock
<1> QED BY <1>1, <1>2, <1>3

LEMMA SkipTakenInv ==
  ASSUME IInv, SkipTaken
  PROVE  IInv'
<1> USE DEF IInv, SkipTaken, Looking, map
<1>1. TypeOK'
  BY DEF TypeOK
<1>2. WalkInv' /\ BitsInv' /\ BlocksInv'
  BY DEF WalkInv, BitsInv, BlocksInv
<1>3. SearchInv'
  <2>1. \A s \in start_frame_id .. start_frame_id + i : ~FreeBlock(s, num_frames)
    BY DEF TypeOK, FreeBlock
  <2>2. \A s \in range_begin .. start_frame_id' - 1 : ~FreeBlock(s, num_frames)
    BY <2>1 DEF TypeOK, SearchInv
  <2> QED BY <2>2 DEF TypeOK, SearchInv, FreeBlock
<1> QED BY <1>1, <1>2, <1>3

LEMMA NoEnoughMemoryInv ==
  ASSUME IInv, NoEnoughMemory
  PROVE  IInv'
<1> USE DEF IInv, NoEnoughMemory, map, search
<1>1. TypeOK'
  BY DEF TypeOK
<1> QED BY <1>1 DEF WalkInv, BitsInv, BlocksInv, SearchInv

LEMMA MarkAllocatedInv ==
  ASSUME IInv, MarkAllocated
  PROVE  IInv'
<1> DEFINE block == [start |-> start_frame_id, num |-> num_frames]
<1> USE FramesAssumption DEF IInv
<1>0. /\ pc = "search" /\ pc' = "idle" /\ i = num_frames
      /\ alloc_map' = alloc_map \cup Frames(block)
      /\ held' = held \cup {block}
      /\ program_break' = IF program_break = 0 THEN start_frame_id ELSE program_break
      /\ UNCHANGED <<map, search>>
  BY DEF MarkAllocated
<1>1. /\ Frames(block) = start_frame_id .. start_frame_id + num_frames - 1
      /\ start_frame_id \in Frames(block)
      /\ Frames(block)' = Frames(block)
  BY <1>0 DEF Frames, TypeOK, SearchInv, search
<1>2. \A f \in Frames(block) : /\ f \in range_begin .. range_end - 1
                               /\ f \notin alloc_map
                               /\ f \in available
                               /\ \A b \in held : f \notin Frames(b)
  BY <1>0, <1>1 DEF TypeOK, SearchInv, BitsInv
<1>3. TypeOK'
  <2>1. block \in Block
    BY <1>0, <1>1, <1>2 DEF TypeOK, Block, Frame, SearchInv
  <2> QED BY <1>0, <1>1, <1>2, <2>1 DEF TypeOK, Frame, map, search
<1>4. WalkInv'
  BY <1>0 DEF WalkInv, map
<1> HIDE DEF block
<1>5. BitsInv'
  BY <1>0, <1>2 DEF BitsInv, map
<1>6. BlocksInv'
  BY <1>0, <1>2 DEF TypeOK, BlocksInv, map
<1> QED BY <1>0, <1>3, <1>4, <1>5, <1>6 DEF SearchInv

LEMMA FreeInv ==
  ASSUME IInv, NEW block \in held, Free(block)
  PROVE  IInv'
<1> USE DEF IInv, Free, map, search
<1>1. TypeOK' /\ WalkInv'
  BY DEF TypeOK, WalkInv
<1>2. BitsInv'
  BY DEF BitsInv, BlocksInv
<1>3. BlocksInv'
  BY DEF BlocksInv
<1> QED BY <1>1, <1>2, <1>3 DEF SearchInv

LEMMA NextInv == IInv /\ [Next]_vars => IInv'
<1> SUFFICES ASSUME IInv, [Next]_vars PROVE IInv'
  OBVIOUS
<1>1. CASE UNCHANGED vars
  BY <1>1 DEF vars, map, search, IInv, TypeOK, WalkInv, BitsInv, BlocksInv, SearchInv, FreeBlock
<1>2. CASE Next
  BY <1>2, ReadDescriptorInv, SetMemoryRangeInv, AllocateInv, NextBitInv, SkipTakenInv,
     NoEnoughMemoryInv, MarkAllocatedInv, FreeInv
  DEF Next, SearchStep
<1> QED BY <1>1, <1>2

LEMMA InvariantHolds == Spec => []IInv
  BY InitInv, NextInv, PTL DEF Spec

-----------------------------------------------------------------------------

\* The allocator's state keeps its type, in particular no bit outside the map
\* is ever set.
THEOREM MemoryTypeCorrect == Spec => []TypeOK
<1>1. IInv => TypeOK
  BY DEF IInv
<1> QED BY <1>1, InvariantHolds, PTL

\* For any memory map and any calls, Allocate may give out exactly the frames
\* that are available and that nobody holds.
THEOREM FreeMemoryCorrect == Spec => []FreeMemoryInv
<1>1. IInv => FreeMemoryInv
  <2> SUFFICES ASSUME IInv, pc # "map"
               PROVE  (range_begin .. range_end - 1) \ alloc_map
                      = ((range_begin .. range_end - 1) \cap available) \ Held
    BY DEF FreeMemoryInv
  <2>1. \A f : f \in Held <=> \E b \in held : f \in Frames(b)
    BY DEF Held
  <2> QED BY <2>1 DEF IInv, BitsInv
<1> QED BY <1>1, InvariantHolds, PTL

\* No frame is given to two holders, or to one while it is not available.
THEOREM HeldCorrect == Spec => []HeldInv
<1>1. IInv => HeldInv
  <2>1. \A f : f \in Held <=> \E b \in held : f \in Frames(b)
    BY DEF Held
  <2> QED BY <2>1 DEF IInv, BlocksInv, HeldInv
<1> QED BY <1>1, InvariantHolds, PTL

\* Allocate's search, which skips past every taken frame it meets, misses no
\* block: it fails only if there is none and returns the first.
THEOREM AllocateCorrect == Spec => AllocateFindsRoom
<1> DEFINE Found == pc = "search" /\ pc' # "search" =>
              \A start \in range_begin .. range_end :
                FreeBlock(start, num_frames) =>
                  \E b \in held' \ held : b.num = num_frames /\ b.start <= start
<1>1. ASSUME IInv, [Next]_vars PROVE [Found]_vars
  <2> SUFFICES ASSUME pc = "search", pc' # "search",
                      NEW start \in range_begin .. range_end, FreeBlock(start, num_frames)
               PROVE  \E b \in held' \ held : b.num = num_frames /\ b.start <= start
    OBVIOUS
  <2>1. NoEnoughMemory \/ MarkAllocated
    BY <1>1 DEF Next, SearchStep, ReadDescriptor, SetMemoryRange, Allocate, NextBit, SkipTaken,
                Free, vars
  <2>2. start_frame_id <= start
    BY <1>1 DEF IInv, TypeOK, SearchInv
  <2>3. ~NoEnoughMemory
    BY <1>1, <2>2 DEF NoEnoughMemory, Looking, FreeBlock, IInv, TypeOK, SearchInv
  <2>4. MarkAllocated
    BY <2>1, <2>3
  <2> DEFINE block == [start |-> start_frame_id, num |-> num_frames]
  <2>5. block \in held'
    BY <2>4 DEF MarkAllocated
  <2>6. start_frame_id \in Frames(block) /\ start_frame_id \notin alloc_map
        /\ start_frame_id \in range_begin .. range_end - 1
    BY <1>1, <2>4 DEF MarkAllocated, Frames, IInv, TypeOK, SearchInv
  <2>7. block \notin held
    BY <1>1, <2>6 DEF IInv, BitsInv
  <2> QED BY <2>2, <2>5, <2>7
<1> QED BY <1>1, InvariantHolds, PTL DEF Spec, AllocateFindsRoom

-----------------------------------------------------------------------------
(* The timer queue: the task timer keeps its cadence, and no timer is lost *)
(* or late by more than one interrupt.                                     *)

\* The inductive invariant: the time slice is always one of the next ticks.
TimersInv == TimerTypeOK /\ TaskTimerInv

\* What a step of Tick does, freed from the sets it is written with.
LEMMA TickStep ==
  ASSUME Tick
  PROVE  LET now == [q EXCEPT !.tick = @ + 1]
         IN  \E popped \in SUBSET Due(now), endsAt \in SUBSET TaskTimers(now) :
               /\ IsPass(now, popped, endsAt)
               /\ q' = AfterPass(now, popped, endsAt)
               /\ SentTimers' = popped
               /\ task_timer_timeout' = (endsAt # {})
<1> DEFINE now == [q EXCEPT !.tick = @ + 1]
           passes == {p \in [popped : SUBSET Due(now), endsAt : SUBSET TaskTimers(now)] :
                        IsPass(now, p.popped, p.endsAt)}
<1>1. PICK r \in TickResults(q) :
        /\ q' = r.queue
        /\ sent' \in PopOrders(r.popped)
        /\ task_timer_timeout' = r.expired
  BY DEF Tick
<1>2. PICK p \in passes : r = [queue |-> AfterPass(now, p.popped, p.endsAt),
                               popped |-> p.popped,
                               expired |-> p.endsAt # {}]
  BY DEF TickResults
<1>3. /\ p.popped \in SUBSET Due(now) /\ p.endsAt \in SUBSET TaskTimers(now)
      /\ IsPass(now, p.popped, p.endsAt)
  BY <1>2
<1>4. SentTimers' = p.popped
  BY <1>1, <1>2 DEF SentTimers, PopOrders
<1>5. q' = AfterPass(now, p.popped, p.endsAt) /\ task_timer_timeout' = (p.endsAt # {})
  BY <1>1, <1>2
<1> QED BY <1>3, <1>4, <1>5

\* A Tick in a state with one task timer, armed for one of the next ticks:
\* the whole effect on the queue.
LEMMA TickEffect ==
  ASSUME TimersInv, Tick
  PROVE  /\ TimersInv'
         /\ q'.tick = q.tick + 1
         /\ q'.timers \ TaskTimers(q') = (q.timers \ TaskTimers(q)) \ SentTimers'
         /\ \A t \in SentTimers' : t \in q.timers \ TaskTimers(q) /\ t.timeout <= q'.tick
         /\ \A t \in q.timers \ TaskTimers(q) : t.timeout <= q.tick => t \in SentTimers'
         /\ task_timer_timeout' <=> \E k \in TaskTimers(q) : k.timeout = q'.tick
<1> DEFINE now == [q EXCEPT !.tick = @ + 1]
           T == [timeout : Int, value : Values \cup {kTaskTimerValue}]
<1>1. PICK popped \in SUBSET Due(now), endsAt \in SUBSET TaskTimers(now) :
        /\ IsPass(now, popped, endsAt)
        /\ q' = AfterPass(now, popped, endsAt)
        /\ SentTimers' = popped
        /\ task_timer_timeout' = (endsAt # {})
  BY TickStep
<1>2. PICK k \in q.timers : /\ TaskTimers(q) = {k}
                            /\ q.tick < k.timeout
                            /\ k.timeout <= q.tick + kTaskTimerPeriod
  BY DEF TimersInv, TaskTimerInv
<1>3. /\ now \in TimerQueue /\ now.tick = q.tick + 1 /\ now.timers = q.timers
      /\ q.tick \in Nat /\ q.timers \subseteq T
  BY DEF TimersInv, TimerTypeOK, TimerQueue
<1>4. TaskTimers(now) = {k} /\ \A t \in T : t.timeout \in Int
  BY <1>2, <1>3 DEF TaskTimers
<1> HIDE DEF now
<1>5. /\ popped \subseteq q.timers \ {k}
      /\ \A t \in popped : t.timeout <= q.tick + 1 /\ t.value # kTaskTimerValue
      /\ \A t \in popped, u \in q.timers \ popped : t.timeout <= u.timeout
  BY <1>1, <1>3, <1>4 DEF IsPass, Due, TaskTimers
<1>6. k.timeout = q.tick + 1 \/ k.timeout = q.tick + 2
  BY <1>2, <1>3, <1>4 DEF kTaskTimerPeriod
<1> DEFINE fresh == Timer(now.tick + kTaskTimerPeriod, kTaskTimerValue)
<1>7. /\ fresh \in T /\ fresh.value = kTaskTimerValue
      /\ fresh.timeout = q.tick + 1 + kTaskTimerPeriod
  BY <1>3 DEF Timer, kTaskTimerPeriod
<1> HIDE DEF fresh
<1>8. CASE endsAt = {}
  <2>1. Due(now) \subseteq popped
    BY <1>1, <1>8 DEF IsPass
  <2>2. k.timeout = q.tick + 2
    BY <1>2, <1>3, <1>5, <1>6, <2>1 DEF Due
  <2>3. q'.tick = q.tick + 1 /\ q'.timers = q.timers \ popped /\ q' \in TimerQueue
    BY <1>1, <1>3, <1>8 DEF AfterPass, TimerQueue
  <2>4. TaskTimers(q') = {k}
    BY <1>2, <1>5, <2>3 DEF TaskTimers
  <2>5. TimersInv'
    <3>1. TaskTimerInv'
      BY <1>2, <1>3, <1>5, <2>2, <2>3, <2>4 DEF TaskTimerInv, kTaskTimerPeriod
    <3>2. TimerTypeOK'
      BY <1>1, <1>3, <1>5, <2>3 DEF TimerTypeOK, TimerQueue
    <3> QED BY <3>1, <3>2 DEF TimersInv
  <2>6. ~(task_timer_timeout') /\ ~(\E m \in TaskTimers(q) : m.timeout = q'.tick)
    <3>1. ~(task_timer_timeout')
      BY <1>1, <1>8
    <3>2. k.timeout # q'.tick
      BY <1>3, <2>2, <2>3
    <3> QED BY <1>2, <3>1, <3>2
  <2>7. \A t \in q.timers \ TaskTimers(q) : t.timeout <= q.tick => t \in SentTimers'
    BY <1>1, <1>3, <1>4, <2>1 DEF Due
  <2> QED BY <1>1, <1>2, <1>5, <2>3, <2>4, <2>5, <2>6, <2>7
<1>9. CASE endsAt # {}
  <2>1. endsAt = {k} /\ k \in Due(now) /\ IsTop(now, popped, k)
    BY <1>1, <1>4, <1>9 DEF IsPass
  <2>2. k.timeout = q.tick + 1
    BY <1>3, <1>6, <2>1 DEF Due
  <2>3. {Timer(now.tick + kTaskTimerPeriod, kTaskTimerValue) : e \in endsAt} = {fresh}
    BY <2>1 DEF fresh
  <2>4. /\ q'.tick = q.tick + 1 /\ q' \in TimerQueue
        /\ q'.timers = (q.timers \ (popped \cup {k})) \cup {fresh}
    BY <1>1, <1>3, <1>7, <2>1, <2>3 DEF AfterPass, TimerQueue
  <2>5. TaskTimers(q') = {fresh}
    BY <1>2, <1>5, <1>7, <2>4 DEF TaskTimers
  <2>6. TimersInv'
    <3>1. TaskTimerInv'
      BY <1>3, <1>7, <2>4, <2>5 DEF TaskTimerInv, kTaskTimerPeriod
    <3>2. TimerTypeOK'
      BY <1>1, <1>3, <1>5, <2>4 DEF TimerTypeOK, TimerQueue
    <3> QED BY <3>1, <3>2 DEF TimersInv
  <2>7. task_timer_timeout' /\ (\E m \in TaskTimers(q) : m.timeout = q'.tick)
    BY <1>1, <1>2, <1>9, <2>2, <2>4
  <2>8. \A t \in q.timers \ TaskTimers(q) : t.timeout <= q.tick => t \in SentTimers'
    <3> SUFFICES ASSUME NEW t \in q.timers \ {k}, t.timeout <= q.tick, t \notin popped
                 PROVE  FALSE
      BY <1>1, <1>2
    <3>1. k.timeout <= t.timeout
      BY <1>3, <2>1 DEF IsTop
    <3> QED BY <3>1, <2>2, <1>3, <1>4
  <2>9. q'.timers \ TaskTimers(q') = (q.timers \ TaskTimers(q)) \ SentTimers'
    <3>1. fresh \notin q.timers \ {k}
      BY <1>2, <1>7 DEF TaskTimers
    <3> QED BY <1>1, <1>2, <2>4, <2>5, <3>1
  <2> QED BY <1>1, <1>2, <1>5, <2>4, <2>6, <2>7, <2>8, <2>9
<1> QED BY <1>8, <1>9

\* Arming a timer of another value leaves the task timer alone.
LEMMA ArmEffect ==
  ASSUME TimersInv, NEW delay \in -MaxDelay .. MaxDelay, NEW value \in Values,
         Arm(delay, value)
  PROVE  TimersInv' /\ q'.tick = q.tick
<1> DEFINE t == Timer(q.tick + delay, value)
<1>1. /\ q.tick \in Nat /\ delay \in Int /\ q \in TimerQueue
  BY MaxDelayAssumption DEF TimersInv, TimerTypeOK, TimerQueue
<1>2. t \in [timeout : Int, value : Values \cup {kTaskTimerValue}]
      /\ t.value # kTaskTimerValue
  BY <1>1, ValuesAssumption DEF Timer
<1> HIDE DEF t
<1>3. q'.tick = q.tick /\ q'.timers = q.timers \cup {t} /\ q' \in TimerQueue
  BY <1>1, <1>2 DEF Arm, AddTimer, TimerQueue, t
<1>4. TaskTimers(q') = TaskTimers(q)
  BY <1>2, <1>3 DEF TaskTimers
<1>5. TaskTimerInv'
  BY <1>3, <1>4 DEF TimersInv, TaskTimerInv
<1>6. TimerTypeOK'
  BY <1>3 DEF TimersInv, TimerTypeOK, Arm, SentTimers
<1> QED BY <1>3, <1>5, <1>6 DEF TimersInv

\* Exactly one task timer, due at one of the next two interrupts, always.
THEOREM TaskTimerCorrect == TimerSpec => [](TimerTypeOK /\ TaskTimerInv)
<1>1. TimerInit => TimersInv
  <2> SUFFICES ASSUME TimerInit
               PROVE  TimersInv
    OBVIOUS
  <2> DEFINE k == Timer(kTaskTimerPeriod, kTaskTimerValue)
  <2>1. /\ k \in [timeout : Int, value : Values \cup {kTaskTimerValue}]
        /\ k.timeout = 2 /\ k.value = kTaskTimerValue
    BY DEF Timer, kTaskTimerPeriod
  <2> HIDE DEF k
  <2>2. q = [tick |-> 0, timers |-> {k}] /\ task_timer_timeout = FALSE
    BY DEF TimerInit, k
  <2>3. q \in TimerQueue /\ q.tick = 0 /\ q.timers = {k}
    BY <2>1, <2>2 DEF TimerQueue
  <2>4. TaskTimerInv
    BY <2>1, <2>3 DEF TaskTimerInv, TaskTimers, kTaskTimerPeriod
  <2>5. SentTimers = {}
    BY DEF TimerInit, SentTimers
  <2> QED BY <2>2, <2>3, <2>4, <2>5 DEF TimersInv, TimerTypeOK
<1>2. TimersInv /\ [TimerNext]_timer_vars => TimersInv'
  <2> SUFFICES ASSUME TimersInv, [TimerNext]_timer_vars
               PROVE  TimersInv'
    OBVIOUS
  <2>1. CASE Tick
    BY <2>1, TickEffect
  <2>2. ASSUME NEW delay \in -MaxDelay .. MaxDelay, NEW value \in Values,
               Arm(delay, value)
        PROVE  TimersInv'
    BY <2>2, ArmEffect
  <2>3. CASE UNCHANGED timer_vars
    BY <2>3 DEF timer_vars, TimersInv, TimerTypeOK, TaskTimerInv, SentTimers
  <2> QED BY <2>1, <2>2, <2>3 DEF TimerNext
<1> QED BY <1>1, <1>2, PTL DEF TimerSpec, TimersInv

\* Every interrupt sends all the timers that had been due before it, none
\* early, and loses none.
THEOREM DeliveryCorrect == TimerSpec => PromptDelivery
<1>1. TimersInv /\ [TimerNext]_timer_vars =>
        [q'.tick # q.tick =>
           LET plain == q.timers \ TaskTimers(q)
           IN  /\ \A t \in plain : t.timeout <= q.tick => t \in SentTimers'
               /\ \A t \in SentTimers' : t \in plain /\ t.timeout <= q'.tick
               /\ q'.timers \ TaskTimers(q') = plain \ SentTimers']_timer_vars
  <2> SUFFICES ASSUME TimersInv, TimerNext, q'.tick # q.tick
               PROVE  LET plain == q.timers \ TaskTimers(q)
                      IN  /\ \A t \in plain : t.timeout <= q.tick => t \in SentTimers'
                          /\ \A t \in SentTimers' : t \in plain /\ t.timeout <= q'.tick
                          /\ q'.timers \ TaskTimers(q') = plain \ SentTimers'
    OBVIOUS
  <2>1. Tick
    BY ArmEffect DEF TimerNext
  <2> QED BY <2>1, TickEffect
<1> QED BY <1>1, TaskTimerCorrect, PTL DEF TimerSpec, PromptDelivery, TimersInv

\* SwitchTask is called at exactly the interrupt the time slice ends.
THEOREM SwitchCorrect == TimerSpec => SwitchOnTime
<1>1. TimersInv /\ [TimerNext]_timer_vars =>
        [q'.tick # q.tick =>
           (task_timer_timeout' <=> \E k \in TaskTimers(q) : k.timeout = q'.tick)]_timer_vars
  <2> SUFFICES ASSUME TimersInv, TimerNext, q'.tick # q.tick
               PROVE  task_timer_timeout' <=> \E k \in TaskTimers(q) : k.timeout = q'.tick
    OBVIOUS
  <2>1. Tick
    BY ArmEffect DEF TimerNext
  <2> QED BY <2>1, TickEffect
<1> QED BY <1>1, TaskTimerCorrect, PTL DEF TimerSpec, SwitchOnTime, TimersInv

=============================================================================
