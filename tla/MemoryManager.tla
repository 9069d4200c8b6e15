--------------------------- MODULE MemoryManager ---------------------------
(***************************************************************************)
(* The frame allocator of Kernel/memory_manager.cpp: the walk over the     *)
(* firmware's memory map that fills the bitmap, the kernel heap, which is  *)
(* the first allocation, and Allocate and Free after it.                   *)
(*                                                                         *)
(* Addresses are in frames (the firmware's pages have the same size).  The *)
(* descriptors of the map come in order of their addresses and do not      *)
(* overlap, which is what the walk relies on.  Allocate is a step for each *)
(* bit it looks at; nobody else uses the bitmap meanwhile.                 *)
(***************************************************************************)
EXTENDS Integers, FiniteSets

CONSTANTS
  FrameCount,    \* kFrameCount, the bits of the map
  HeapFrames,    \* kHeapFrames
  MaxRequest     \* bound on the frames asked for at once

ASSUME FramesAssumption == FrameCount \in Nat \ {0}
ASSUME RequestAssumption == HeapFrames \in Nat \ {0} /\ MaxRequest \in Nat

Frame == 0 .. FrameCount - 1
Block == [start : Frame, num : Nat \ {0}]

VARIABLES
  alloc_map,                \* the frames whose bit is set
  range_begin, range_end,   \* the frames Allocate gives out
  pc,                       \* "map", "search", "idle" or "halted"
  available_end,            \* of InitializeMemoryManager, while it walks
  map_end,                  \* the end of the descriptors read so far
  available,                \* the frames the firmware said are available
  num_frames,               \* what is asked for ...
  start_frame_id, i,        \* ... and where Allocate is looking for it
  program_break,            \* the heap, 0 before it is there
  held                      \* what was allocated and not freed

search == <<num_frames, start_frame_id, i>>
map == <<available_end, map_end, available, range_begin, range_end>>
vars == <<alloc_map, pc, map, search, program_break, held>>

Frames(block) == block.start .. block.start + block.num - 1
Held == UNION {Frames(b) : b \in held}
Heap == [start |-> program_break, num |-> HeapFrames]

-----------------------------------------------------------------------------
(* InitializeMemoryManager.                                                *)

\* Wrong: what lies between two descriptors is not marked.
ReadDescriptor_NoGaps(start, pages, usable) ==
  /\ pc = "map"
  /\ map_end <= start /\ start + pages <= FrameCount
  /\ map_end' = start + pages
  /\ IF usable
     THEN /\ available' = available \cup (start .. start + pages - 1)
          /\ available_end' = start + pages
          /\ UNCHANGED alloc_map
     ELSE /\ alloc_map' = alloc_map \cup (start .. start + pages - 1)
          /\ UNCHANGED <<available, available_end>>
  /\ UNCHANGED <<range_begin, range_end, pc, search, program_break, held>>

\* The gap before a descriptor, and its frames unless they are available, are
\* marked.  available_end stays where it is at the others, so that they are
\* marked again as part of the next gap.
ReadDescriptor(start, pages, usable) ==
  /\ pc = "map"
  /\ map_end <= start /\ start + pages <= FrameCount
  /\ map_end' = start + pages
  /\ LET gap == available_end .. start - 1
     IN  IF usable
         THEN /\ alloc_map' = alloc_map \cup gap
              /\ available' = available \cup (start .. start + pages - 1)
              /\ available_end' = start + pages
         ELSE /\ alloc_map' = alloc_map \cup gap \cup (start .. start + pages - 1)
              /\ UNCHANGED <<available, available_end>>
  /\ UNCHANGED <<range_begin, range_end, pc, search, program_break, held>>

\* Frame 0 is kept back.
SetMemoryRange ==
  /\ pc = "map"
  /\ range_begin' = 1
  /\ range_end' = available_end
  /\ pc' = "search"
  /\ num_frames' = HeapFrames
  /\ start_frame_id' = 1
  /\ i' = 0
  /\ UNCHANGED <<alloc_map, available_end, map_end, available, program_break, held>>

-----------------------------------------------------------------------------
(* Allocate and Free.                                                      *)

Allocate(n) ==
  /\ pc = "idle"
  /\ pc' = "search"
  /\ num_frames' = n
  /\ start_frame_id' = range_begin
  /\ i' = 0
  /\ UNCHANGED <<alloc_map, map, program_break, held>>

\* Wrong: one frame past the range is looked at.
Looking_TooFar == pc = "search" /\ i < num_frames /\ start_frame_id + i <= range_end

Looking == pc = "search" /\ i < num_frames /\ start_frame_id + i < range_end

NextBit ==
  /\ Looking
  /\ start_frame_id + i \notin alloc_map
  /\ i' = i + 1
  /\ UNCHANGED <<alloc_map, pc, map, num_frames, start_frame_id, program_break, held>>

\* Wrong: the search goes on where the block would have ended.
SkipTaken_TooFar ==
  /\ Looking
  /\ start_frame_id + i \in alloc_map
  /\ start_frame_id' = start_frame_id + num_frames
  /\ i' = 0
  /\ UNCHANGED <<alloc_map, pc, map, num_frames, program_break, held>>

SkipTaken ==
  /\ Looking
  /\ start_frame_id + i \in alloc_map
  /\ start_frame_id' = start_frame_id + i + 1
  /\ i' = 0
  /\ UNCHANGED <<alloc_map, pc, map, num_frames, program_break, held>>

\* The first allocation is the heap's, and without it the kernel exits.
NoEnoughMemory ==
  /\ pc = "search" /\ i < num_frames /\ ~Looking
  /\ pc' = IF program_break = 0 THEN "halted" ELSE "idle"
  /\ UNCHANGED <<alloc_map, map, search, program_break, held>>

MarkAllocated ==
  /\ pc = "search" /\ i = num_frames
  /\ LET block == [start |-> start_frame_id, num |-> num_frames]
     IN  /\ alloc_map' = alloc_map \cup Frames(block)
         /\ held' = held \cup {block}
  /\ program_break' = IF program_break = 0 THEN start_frame_id ELSE program_break
  /\ pc' = "idle"
  /\ UNCHANGED <<map, search>>

\* A caller gives back what it was given.  The heap stays.
Free(block) ==
  /\ pc = "idle"
  /\ block \in held /\ block # Heap
  /\ alloc_map' = alloc_map \ Frames(block)
  /\ held' = held \ {block}
  /\ UNCHANGED <<pc, map, search, program_break>>

-----------------------------------------------------------------------------

Init ==
  /\ alloc_map = {}
  /\ range_begin = 0 /\ range_end = FrameCount
  /\ pc = "map"
  /\ available_end = 0 /\ map_end = 0 /\ available = {}
  /\ num_frames = 0 /\ start_frame_id = 0 /\ i = 0
  /\ program_break = 0
  /\ held = {}

SearchStep == NextBit \/ SkipTaken \/ NoEnoughMemory \/ MarkAllocated

Next ==
  \/ \E start \in Frame, pages \in 1 .. FrameCount, usable \in BOOLEAN :
       ReadDescriptor(start, pages, usable)
  \/ SetMemoryRange
  \/ \E n \in 1 .. MaxRequest : Allocate(n)
  \/ SearchStep
  \/ \E block \in held : Free(block)

Spec == Init /\ [][Next]_vars

-----------------------------------------------------------------------------
(* Properties.                                                             *)

TypeOK ==
  /\ alloc_map \subseteq Frame /\ available \subseteq Frame
  /\ range_begin \in 0 .. FrameCount /\ range_end \in 0 .. FrameCount
  /\ pc \in {"map", "search", "idle", "halted"}
  /\ available_end \in 0 .. map_end /\ map_end \in 0 .. FrameCount
  /\ num_frames \in Nat /\ start_frame_id \in Nat /\ i \in 0 .. num_frames
  /\ program_break \in Frame
  /\ held \subseteq Block

\* What Allocate may still give out is what the firmware said is available and
\* nobody holds: the walk over the memory map marks every other frame, gaps
\* included, no allocation is forgotten, and Free brings every frame back.
FreeMemoryInv ==
  pc # "map" => (range_begin .. range_end - 1) \ alloc_map
                = ((range_begin .. range_end - 1) \cap available) \ Held

\* Nobody is given a frame somebody else holds, or one that is not memory the
\* kernel may use.
HeldInv ==
  /\ Held \subseteq available
  /\ \A a, b \in held : a # b => Frames(a) \cap Frames(b) = {}

\* Allocate says kNoEnoughMemory only if no block that is large enough is free,
\* and otherwise returns the first one.
FreeBlock(start, num) ==
  /\ start + num <= range_end
  /\ \A f \in start .. start + num - 1 : f \notin alloc_map
AllocateFindsRoom ==
  [][pc = "search" /\ pc' # "search" =>
       \A start \in range_begin .. range_end :
         FreeBlock(start, num_frames) =>
           \E b \in held' \ held : b.num = num_frames /\ b.start <= start]_vars
=============================================================================
