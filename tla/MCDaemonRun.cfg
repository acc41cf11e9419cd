SPECIFICATION MCFairSpec
CONSTANTS
  InputSet <- GateInputs
  Commands <- LifeCommands
  Debounce = 2
  PulseCycles = 2
  FullLatchCycles = 1
  ManualIoWatchdog = 1
  MaxCount = 2
  MaxBatch = 2
  BringupDeadline = 2
  QueueSize = 2
INVARIANTS NoLostWrite CouplerInterlock
PROPERTIES
  EnergizesOnlyInOperation PulseKeepsMaster CountsOnceInProcess MaintenanceIsStable BringUpNeverHangs ReturnRestarts
