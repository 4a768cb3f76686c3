SPECIFICATION FairSpec
CONSTANTS
  a = a
  b = b
  u = u
  t = t
  m = m
  k1 = k1
  k2 = k2
  p1 = p1
  p2 = p2
  Agents = {a, b}
  Users = {u}
  Timers = {t}
  Makers = {m}
  Byes = {m}
  Conns = {k1, k2}
  Pools = {p1, p2}
  nInitConnectNum = 1
  nMaxConnectNum = 1
  nAgentGoodByeTimeoutS = 0
  Lists <- AgentLists
  MaxFaults = 1
  None = None
  Nil = Nil
INVARIANTS TypeOK StaleNeedsRace
 
CHECK_DEADLOCK FALSE
