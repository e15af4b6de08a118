SPECIFICATION Spec
CONSTANTS
  Settle = 1
  Gap = 3
  StopWait = 2
  UpDelay = 0
  DownDelay = 1
  AutoInterval = 4
  AutoMax = 2
  NotTaking = 2

  
PROPERTIES
  ContactorSpared
  OwnWindow
  NeverHostage
  RetriesEnd
