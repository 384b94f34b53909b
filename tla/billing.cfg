CONSTANTS
  Missing = Missing
  Requests = {r1, r2}
  Deferring = {r1}
  MaxAttempts = 2
  Limited = TRUE
  InitialUser = 4
  InitialToken = 2
  Estimates = {0, 1, 2}
  Charges = {0, 2}
  Trust = 2
  Reserve = 1
  Outcomes = {"ok", "failed", "unsent", "noUsage"}
  Faults = {"token", "user"}
  TopUps = {}
  Editors = {}
  Redis = FALSE
  Batch = FALSE
SPECIFICATION BillingSpec
CHECK_DEADLOCK FALSE
INVARIANTS
  BalancesMatchUsage
  DirectOverdraftBounded
