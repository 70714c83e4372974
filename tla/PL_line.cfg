SPECIFICATION Spec
CONSTANTS
  Node = {1, 2}
  Sender = {1}
  Dst = {2, 3}
  Payload <- MCPayload
  BufSize = 12
  MaxSends = 3
  MaxLost = 1
  MaxNoise = 1
CHECK_DEADLOCK FALSE
INVARIANTS TypeOK OncePerToken
PROPERTIES AcceptedWasHeard AcceptedForUs
