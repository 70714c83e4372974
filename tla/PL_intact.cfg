SPECIFICATION Spec
CONSTANTS
  Node = {1, 2}
  Sender = {1}
  Dst = {2}
  Payload <- ShortPayload
  BufSize = 14
  MaxSends = 2
  MaxLost = 1
  MaxNoise = 0
CHECK_DEADLOCK FALSE
PROPERTY IntactPasses
