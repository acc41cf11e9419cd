SPECIFICATION MCFairSpec
CONSTANTS
  InputSet <- OutputInputs
  Commands <- OutputCommands
  Debounce = 2
  PulseCycles = 3
  FullLatchCycles = 1
  ManualIoWatchdog = 2
  MaxCount = 1
  MaxBatch = 2
PROPERTIES WatchdogExitDeEnergizes
