\* Two clients, two lives of the daemon with its marks, a crash and a failure;
\* the signals are left to MCLoggingLive.cfg.
SPECIFICATION Spec
CONSTANTS
  c1 = c1
  c2 = c2
  Main = Main
  Clients <- MCClients
  Severities <- MCSeverities
  Descriptors <- MCDescriptors
  HoursPerDay = 1
  MaxNested = 0
  Signals = {}
  Slots = 2
  MaxCalls = 2
  MaxStarts = 2
  MaxSignals = 0
  MaxHours = 1
  MaxCrashes = 1
  MaxFailures = 1
SYMMETRY MCSymmetry
INVARIANTS
  TypeOK
  LinesIntact
  FileOrder
  RightFile
  DescriptorsKept
  RepeatsOnlyByCrashes
  WrittenBeforeFree
  MarksOnce
PROPERTIES
  NoOverwrite
  ImplementsChannel
\* Clients may stop logging, and the daemon may be stopped for good.
CHECK_DEADLOCK FALSE
