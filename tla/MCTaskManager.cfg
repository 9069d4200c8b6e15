CONSTANTS
  MaxTasks = 4
  CallerLevels <- ApiLevels
SPECIFICATION FairSpec
INVARIANTS RunQueuesInv ProcessorInv PriorityInv
PROPERTIES ImplementsPriorityScheduler RoundRobin
CHECK_DEADLOCK TRUE
