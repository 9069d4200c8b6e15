CONSTANTS
  FrameCount = 9
  HeapFrames = 2
  MaxRequest = 3
SPECIFICATION Spec
INVARIANTS FreeMemoryInv HeldInv
PROPERTIES AllocateFindsRoom
\* The kernel exits if there is no room for the heap.
CHECK_DEADLOCK FALSE
