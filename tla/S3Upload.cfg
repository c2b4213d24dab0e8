SPECIFICATION Spec
CONSTANTS
  Parts = 2
  Attempts = 3
  MaxPuts = 2
  MaxFaults = 4
  MaxCuts = 1
  MaxLate = 2
CHECK_DEADLOCK FALSE
INVARIANTS
  UploadsAccountedFor
  RetriesOutlastFaults
PROPERTIES
  ImplementsPut
