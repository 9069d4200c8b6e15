SPECIFICATION Spec
CONSTANTS
  Kernels <- MCKernels
  KernelBase = 2
  MemoryEnd = 8
  MaxKey = 8
  TableSize = 5
  DeviceMax = 2
  FunctionMax = 2
  Values24 = 8
  Values32 = 16
  WaitTicks = 4
  MaxGap = 2
  MaxElapsed = 10
  Machines <- MCMachines
INVARIANTS
  KernelHandover
  ScanComplete
  WaitAccurate
  ControllerReady
