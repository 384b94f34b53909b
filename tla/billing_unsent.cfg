CONSTANTS
  Missing = Missing
  Requests = {r1}
  Deferring = {}
  MaxAttempts = 1
  Limited = TRUE
  InitialUser = 5
  InitialToken = 5
  Estimates = {2}
  Charges = {3}
  Trust = 100
  Reserve = 1
  Outcomes = {"ok", "unsent"}
  Faults = {}
  TopUps = {}
  Editors = {}
  Redis = FALSE
  Batch = FALSE
SPECIFICATION Spec
CHECK_DEADLOCK FALSE
INVARIANT
  UnservedUserLosesNothing
