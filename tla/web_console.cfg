SPECIFICATION WebConsoleSpec
CONSTANTS
  Providers = {"p", "q"}
  Keyed = {"p"}
  PoolKeys = {"k"}
  MaxPoolEdits = 2
  MaxPoolSaves = 1
  MaxPoolOthers = 1
  MaxPoolFailures = 1
  NItems = 2
  ITEMS_PER_PAGE = 1
  Tables = {"default channels", "default tokens", "default users", "default redemptions", "default logs", "air channels", "air tokens", "air users", "air redemptions", "air logs", "air drawings", "berry channels", "berry tokens", "berry users", "berry redemptions", "berry logs"}
  MaxUnderWay = 2
  MaxEvents = 3
  MaxEdits = 3
  MaxPuts = 2
CHECK_DEADLOCK FALSE
INVARIANTS
  WebConsoleTypeOK
  PoolIsSound
  TablesAreTrue
  SettingsAreTrue
  SecretsKept
PROPERTIES
  FreePoolComesBack
