SPECIFICATION Spec
CONSTANTS
  Conn = {c1, c2, c3}
  Fd = {f1, f2, f3, f4}
  Limits = {1, 3}
  MaxMessages = 1
  MaxCalls = 4
  Free = Free
  Listener = Listener
  NoFd = NoFd
  NoConn = NoConn
SYMMETRY Symmetry
INVARIANTS TypeOK BoundedRegistry ExclusiveDescriptors RegistryExact AtMostTwoClients
PROPERTY NoForeignClose
CHECK_DEADLOCK FALSE
