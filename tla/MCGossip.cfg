SPECIFICATION FairSpec
CONSTANTS
  a = a
  b = b
  c = c
  Nodes = {a, b, c}
  Neighbour <- Chain
  GOOSIP_SIZE = 2
  Mortal = {a, b, c}
  None = None
INVARIANTS
  TypeOK
PROPERTIES
  AllMeet
  GoneTimesOut
CHECK_DEADLOCK FALSE
