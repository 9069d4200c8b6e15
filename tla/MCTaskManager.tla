--------------------------- MODULE MCTaskManager ---------------------------
(* The scheduler with main, idle and two created tasks.                    *)
EXTENDS TaskManager

\* Every level Wakeup can be called with; -1 leaves the level as it is.
ApiLevels == {-1} \cup Level
=============================================================================
