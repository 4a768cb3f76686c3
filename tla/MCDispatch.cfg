SPECIFICATION FairSpec
CONSTANTS
  a = a
  b = b
  x = x
  y = y
  x1 = x1
  x2 = x2
  y1 = y1
  r1 = r1
  r2 = r2
  Nodes = {a, b}
  Clients = {x, y}
  Home <- HomeOf
  Serves = {y}
  Conns = {x1, x2, y1}
  Owner <- OwnerOf
  Calls = {r1, r2}
  Source <- SourceOf
  Start = {x1}
  MaxFaults = 1
INVARIANTS TypeOK StackLeadsHome LossNeedsFault
PROPERTIES ImplementsService
CHECK_DEADLOCK FALSE
