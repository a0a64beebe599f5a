\* The same system with fairness: what must happen in the end.
SPECIFICATION FairSpec
CONSTANTS
  c1 = c1
  c2 = c2
  Main = Main
  Clients <- MCClients
  Severities <- MCSeverities
  Descriptors <- MCDescriptors
  HoursPerDay = 1
  MaxNested = 2
  Signals = {"TERM", "USR1"}
  Slots = 2
  MaxCalls = 1
  MaxStarts = 1
  MaxSignals = 2
  MaxHours = 0
  MaxCrashes = 1
  MaxFailures = 0
PROPERTIES
  ImplementsChannel
  LoggerReturns
  Delivered
  KillStops
\* Clients may stop logging, and the daemon may be stopped for good.
CHECK_DEADLOCK FALSE
