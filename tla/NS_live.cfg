SPECIFICATION FairSpec
CONSTANTS
  Conn = {c1, c2}
  Fd = {f1, f2, f3}
  Limits = {1, 2}
  MaxMessages = 1
  MaxCalls = 2
  Free = Free
  Listener = Listener
  NoFd = NoFd
  NoConn = NoConn
PROPERTIES AbandonedIsClosed MessageReceived SingleAcceptProgress SingleStopReturns
CHECK_DEADLOCK FALSE
