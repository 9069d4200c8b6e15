------------------------------ MODULE MCKernel ------------------------------
(* The kernel with a cursor period of three ticks and a few interrupts.    *)
EXTENDS Kernel
=============================================================================
