CONSTANTS
  MaxPorts = 3
  kDeviceSize = 2
  FaultModels <- AnyFaults
  UnpluggedPhases <- AnyPhase
SPECIFICATION FairSpec
INVARIANTS AddressingExclusive SlotsMatchPorts CommandRingBounded
PROPERTIES AllConfigured
\* Nothing happens any more once every port is plugged in and settled.
CHECK_DEADLOCK FALSE
