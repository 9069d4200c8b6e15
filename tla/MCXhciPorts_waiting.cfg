CONSTANTS
  MaxPorts = 3
  kDeviceSize = 3
  FaultModels <- OneUnplug
  UnpluggedPhases <- UnpluggedWaiting
SPECIFICATION FairSpec
PROPERTIES WaitingPortsAreServed
CHECK_DEADLOCK FALSE
