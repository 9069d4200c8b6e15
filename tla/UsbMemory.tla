----------------------------- MODULE UsbMemory -----------------------------
(***************************************************************************)
(* The memory pool of the USB driver, usb/memory.cpp: blocks are cut off   *)
(* one after the other, aligned and kept off a boundary as the caller      *)
(* asks, and never given back (FreeMem does nothing).                      *)
(***************************************************************************)
EXTENDS Integers

CONSTANTS
  PoolStart,         \* address of memory_pool
  kMemoryPoolSize

ASSUME PoolAssumption == PoolStart \in Nat /\ kMemoryPoolSize \in Nat

NoBlock == -1

\* (value + alignment - 1) & ~(alignment - 1): alignments are powers of two.
Ceil(value, alignment) == ((value + alignment - 1) \div alignment) * alignment

\* Wrong: the boundary is looked at before the alignment is.
AllocMem_BoundaryFirst(ptr, size, alignment, boundary) ==
  LET next == Ceil(ptr, boundary)
      past == IF boundary > 0 /\ next < ptr + size THEN next ELSE ptr
      start == IF alignment > 0 THEN Ceil(past, alignment) ELSE past
  IN  IF PoolStart + kMemoryPoolSize < start + size
      THEN [start |-> NoBlock, ptr |-> start]
      ELSE [start |-> start, ptr |-> start + size]

\* The block, or NoBlock for nullptr, and where alloc_ptr is then.  An
\* allocation that fails leaves alloc_ptr moved.
AllocMem(ptr, size, alignment, boundary) ==
  LET aligned == IF alignment > 0 THEN Ceil(ptr, alignment) ELSE ptr
      start == IF boundary > 0 /\ Ceil(aligned, boundary) < aligned + size
               THEN Ceil(aligned, boundary) ELSE aligned
  IN  IF PoolStart + kMemoryPoolSize < start + size
      THEN [start |-> NoBlock, ptr |-> start]
      ELSE [start |-> start, ptr |-> start + size]
=============================================================================
