---------------------------- MODULE MCEventRing ----------------------------
(* An event ring of four slots and two kinds of events.                    *)
EXTENDS EventRing
=============================================================================
