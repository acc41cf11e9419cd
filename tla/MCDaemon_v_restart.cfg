SPECIFICATION DFairSpec
CONSTANTS
  InputSet <- GateInputs
  Commands <- ModeCommands
  Debounce = 1
  PulseCycles = 2
  FullLatchCycles = 1
  ManualIoWatchdog = 1
  MaxCount = 2
  MaxBatch = 2
  BringupDeadline = 2
  QueueSize = 1
PROPERTIES OneBalePerOpen
