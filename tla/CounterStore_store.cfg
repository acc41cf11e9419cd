SPECIFICATION Spec
CONSTANTS
  MaxCount = 2
  Failures = {"io", "kill", "power"}
INVARIANTS TypeOK DiskNeverTorn
PROPERTIES ImplementsPersistentCounters
