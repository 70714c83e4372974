SPECIFICATION FairSpec
CONSTANTS
  Server = {s1}
  Conn = {c1, c2}
  Fd = {f1, f2, f3}
  MaxClients = {1, 2}
  Free = Free
  NoFd = NoFd
  None = None
INVARIANTS TypeOK SlotAccounting
PROPERTIES NoForeignClose AbandonedIsClosed
CHECK_DEADLOCK FALSE
