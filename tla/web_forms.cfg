SPECIFICATION WebFormsSpec
CONSTANTS
  MaxActs = 4
  MaxOpenings = 2
  MaxSteps = 3
  COUNTDOWN = 2
CHECK_DEADLOCK FALSE
INVARIANTS
  WebFormsTypeOK
  RecordsAreSafe
  SignedInIsAgreed
  MailsKeepTheirPromise
  BusyHasACall
PROPERTIES
  StatusKept
