SPECIFICATION FairSpec
CONSTANTS
  Conn = {c1, c2}
  Fd = {f1, f2, f3}
  Limits = {2}
  MaxMessages = 0
  MaxCalls = 2
  Free = Free
  Listener = Listener
  NoFd = NoFd
  NoConn = NoConn
PROPERTY StopReturns
CHECK_DEADLOCK FALSE
