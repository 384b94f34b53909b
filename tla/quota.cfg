CONSTANTS
  Callers = {c1, c2}
  Estimates = {0, 1}
  MaxEstimate = 1
  DefaultTokens = 2
  RPM = 2
  RPD = 3
  TPM = 3
  TPD = 5
  Minute = 2
  Day = 4
  QuotaHorizon = 6
SPECIFICATION QuotaSpec
SYMMETRY CallerSymmetry
INVARIANTS
  WindowsMatchRecords
  LimitsOvershoot
PROPERTIES
  RefusedOnlyAtLimit
