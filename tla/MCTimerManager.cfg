CONSTANTS
  Values = {"cursor", "other"}
  MaxTick = 5
  MaxDelay = 2
SPECIFICATION TimerSpec
CONSTRAINT FewTimers
INVARIANTS TaskTimerInv
PROPERTIES PromptDelivery
CHECK_DEADLOCK TRUE
