-------------------------- MODULE MCMemoryManager --------------------------
(* The frame allocator on a small memory.                                  *)
EXTENDS MemoryManager
=============================================================================
