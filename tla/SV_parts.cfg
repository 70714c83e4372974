SPECIFICATION Spec
CHECK_DEADLOCK FALSE
CONSTANTS
  Fds = {1, 2, 3, 4}
  MaxStarts = 2
  MaxConns = 2
  NoFd = 0
  MaxQueue = 2
  MaxSent = 4
  Sizes = {0, 4, 7}
  OTA_PAGE_SIZE = 4
  VersionAt = 2
  Span = 16
  MaxLoads = 2
  Peers = {1}
  Senders = {s1, s2}
  MaxEntries = 3
  MaxRuns = 2
  NoSender = nosender
  MaxLen = 3
  MaxSteps = 3
  Chars = {65, 66}
  Columns = {0, 39}
  MaxCalls = 3
  MaxResets = 2
  RowCounts = {2, 3}
  RowSize = 2
  Lengths = {1, 2, 4}
  MaxOps = 5
  MaxPrograms = 3
  Gains = {0, 2}
  Samples = {0, 1, 3}
  Limits = {0, 4}
  MaxSamples = 4
  Base = 16
  TLen = 3
  Words = {0, 1, 14, 15}
  MaxWords = 6
  windowSize = 3
  Values = {0, 1, 2, 5}
  Octets = {{}, {0}, {7}, {0, 3, 5}, {0, 1, 2, 3, 4, 5, 6, 7}}
  MaxInput = 5
INVARIANTS
  TypeOK
  ServerReleases
  ImageWhole
  TextKept
  AlgorithmsExact
PROPERTIES
  ServersLive
