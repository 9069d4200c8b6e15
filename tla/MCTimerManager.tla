--------------------------- MODULE MCTimerManager ---------------------------
(* Two timer values, armed up to two ticks away in either direction.       *)
EXTENDS TimerManager

\* At most this many timers wait at a time.
MaxTimers == 4
FewTimers == Cardinality(q.timers) <= MaxTimers
=============================================================================
