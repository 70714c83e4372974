SPECIFICATION Spec
CONSTANTS
  MaxPackets = 4
  PollCount = 2
  States = {s1, s2, s3}
  First = s1
  Stay = stay
  Unknown = unknown
  Value = {0, 1}
  Tail4 = {0, 1}
  NoCard = nocard
  MaxRegs = 2
  MaxSize = 2
  MaxTries = 2
  Width = 3
  max_devices = 3
  CntSpan = 6
  Crystals = {8000, 12000}
  Mults = {1, 2, 6, 9, 17}
  Micros = {1, 10, 59, 60, 1000}
  MaxOps = 4
  Used = {0, 9, 31, 32, 33, 53}
  Funcs = {0, 1, 4}
  MaxSets = 4
  XRes = 13
  YRes = 13
  Spots = {0, 3}
  Sides = {1, 3}
  Radii = {1, 2, 3, 5, 6}
  MaxDraws = 4
  Samples <- MCSamples
  Accs <- MCAccs
  Fifo = 3
  MaxSamples = 3
  MaxReads = 3
INVARIANTS
  TypeOK
  RadioSound
  MachinesInOrder
  ExchangesSound
  BoardTrue
  SensorsTrue
