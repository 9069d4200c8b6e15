-------------------------------- MODULE Fifo --------------------------------
(***************************************************************************)
(* What a TRB ring promises the driver and the controller: the TRBs reach  *)
(* the other side whole, once each and in the order they were put in.      *)
(***************************************************************************)
EXTENDS Sequences

CONSTANTS
  Value,    \* the TRBs
  Nothing   \* no TRB has been taken yet

VARIABLES
  queue,    \* the TRBs put in and not yet taken
  taken     \* the TRB taken last

vars == <<queue, taken>>

Init == queue = <<>> /\ taken = Nothing

Put(v) == queue' = Append(queue, v) /\ UNCHANGED taken

Take ==
  /\ queue # <<>>
  /\ taken' = Head(queue)
  /\ queue' = Tail(queue)

Next == (\E v \in Value : Put(v)) \/ Take

Spec == Init /\ [][Next]_vars

\* What was put in is taken in the end.
Liveness == WF_vars(Take)
=============================================================================
