SPECIFICATION Spec
CONSTANTS
  Size <- SmallPools
  Messages <- AllMessages
  Outside = {1, 2}
  Others <- AllOthers
  None = None
INVARIANTS TypeOK OnlyDeadlock
PROPERTIES WedgedForEver
CHECK_DEADLOCK FALSE
