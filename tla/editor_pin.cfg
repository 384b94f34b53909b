SPECIFICATION EditorSpec
CONSTANTS
  VMs = {"v", "w"}
  EditorDeployments = {"a", "b", "c"}
  InitialVMs = {"v"}
  InitialDeployments = {"a", "b"}
  InitialPreferred = "a"
  MaxSaves = 1
  MaxEditorEdits = 1
  MaxEditorFailures = 0
PROPERTIES PinIsSaved
CHECK_DEADLOCK FALSE
