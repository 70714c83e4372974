SPECIFICATION FairSpec
CONSTANTS
  Conn = {c1, c2, c3}
  Fd = {f1, f2, f3, f4}
  Limits = {3}
  MaxMessages = 0
  MaxCalls = 1
  Free = Free
  Listener = Listener
  NoFd = NoFd
  NoConn = NoConn
PROPERTY AcceptProgress
CHECK_DEADLOCK FALSE
