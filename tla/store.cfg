CONSTANTS
  Workers = {w1, w2}
  Jobs = {"clearExhausted", "clearCooldown", "reset"}
  DayLength = 4
  RefreshHour = 2
  Limit = 1
  CooldownLength = 1
  MaxRequests = 3
  NoRow = NoRow
  Horizon = 2
SPECIFICATION Spec
SYMMETRY WorkerSymmetry
CHECK_DEADLOCK FALSE
INVARIANTS
  ExhaustionEndsWithPeriod
  LimitOvershoot
PROPERTIES
  CountersGrow
