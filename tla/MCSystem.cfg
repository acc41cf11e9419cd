SPECIFICATION MCSpec
CONSTANTS
  InputSet <- GateInputs
  Commands <- PanelCommands
  Debounce = 1
  PulseCycles = 2
  FullLatchCycles = 1
  ManualIoWatchdog = 1
  MaxCount = 1
  MaxBatch = 1
  BringupDeadline = 1
  QueueSize = 1
INVARIANTS SystemTypeOK ReportedIpIsReal
PROPERTIES DaemonIsDaemon ToggleReaches PanelCatchesUp
