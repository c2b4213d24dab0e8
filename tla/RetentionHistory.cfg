SPECIFICATION Spec
CONSTANTS
  DayLen = 2
  WeekLen = 4
  MonthLen = 3
  Horizon = 8
  Policies <- MCPolicies
INVARIANTS
  ThinningIsExact
  NewestCountKept
  NewestKept
