CONSTANTS
  Commands = {"enable", "address"}
  BufSize = 5
  MaxPending = 3
SPECIFICATION FairSpec
PROPERTIES ImplementsFifo NoMissedDoorbell
CHECK_DEADLOCK TRUE
