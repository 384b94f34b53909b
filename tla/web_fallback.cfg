SPECIFICATION WebFallbackSpec
CONSTANTS
  Slots = 2
  Deployments = {"a"}
  MaxVersion = 1
  MaxFailures = 1
  MaxMoves = 1
  Visited = {"legacy", "status", "alerts", "logs"}
  TooSoon = 1
  FiveMinutes = 1
  OneHour = 2
  Retention = 2
  MaxTime = 4
  MaxCount = 1
  MaxRestarts = 1
  MaxSamples = 3
  MaxReloads = 1
  MaxAnswers = 2
  VMs = {"v", "w"}
  EditorDeployments = {"a", "b", "c"}
  InitialVMs = {"v"}
  InitialDeployments = {"a", "b"}
  InitialPreferred = "unset"
  MaxSaves = 1
  MaxEditorEdits = 2
  MaxEditorFailures = 1
CHECK_DEADLOCK FALSE
INVARIANTS
  WebFallbackTypeOK
  LocksHaveCalls
  StatisticsAreReal
PROPERTIES
  SaveIsExact
  ComesToRest
