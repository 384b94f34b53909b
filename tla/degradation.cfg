CONSTANTS
  Reporters = {p, q}
  Cooldowns = {2}
  Observation = 6
  Recovery = 4
  MaxLevel = 3
  DecayPeriod = 5
  Maintained = TRUE
  StampLag = 1
  Horizon = 19
  Workers = {w1, w2}
  Durations = {2, 3}
  FPDuration = 3
  RuntimeLag = 1
  RuntimeHorizon = 7
  MaxMarks = 2
SPECIFICATION DegradationSpec
SYMMETRY ReporterSymmetry
INVARIANTS
  EpisodesDistinct
  RecoveryProgress
  QuietRecovery
  CooldownHolds
PROPERTIES
  RenewedMarkSurvives
