SPECIFICATION MCFairSpec
CONSTANTS
  InputSet <- ModeInputs
  Commands <- ModeCommands
  Debounce = 2
  PulseCycles = 2
  FullLatchCycles = 1
  ManualIoWatchdog = 2
  MaxCount = 1
  MaxBatch = 3
PROPERTIES EthernetOnlyWhenIdle
