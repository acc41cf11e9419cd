SPECIFICATION Spec
CONSTANTS
  MaxCount = 3
  Failures = {"power"}
INVARIANTS AckedSurvivesPowerLoss
