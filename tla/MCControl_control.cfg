SPECIFICATION MCFairSpec
CONSTANTS
  InputSet <- AllInputs
  Commands <- AllCommands
  Debounce = 3
  PulseCycles = 3
  FullLatchCycles = 3
  ManualIoWatchdog = 2
  MaxCount = 2
  MaxBatch = 2
INVARIANTS
  TypeOK KnifeInterlock SafeOnBusLoss OutputsAccountedFor PulsesBounded
  SnapshotInputsTruthful ModeAgrees FullLatchHolds
  ManualModeTracksStream BeaconTruthful
PROPERTIES PulsesRunFull CountsExactlyFreshOpens PulsesEnd
