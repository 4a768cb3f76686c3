SPECIFICATION FairSpec
CONSTANTS
  InConns = {a1}
  OutConns = {b1}
  Infos = {i1, i2}
  None = None
  NeighbourMaxConnection = 2
  MaxFaults = 1
  MaxStops = 1
INVARIANTS
  TypeOK
  SweepMissesNone
  ListsMatchContext
PROPERTIES
  BoundNeverLeaks
  Reunion
CHECK_DEADLOCK FALSE
