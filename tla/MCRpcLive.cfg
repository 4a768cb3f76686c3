CONSTANTS
    c1 = c1
    c2 = c2
    k1 = k1
    k2 = k2
    t1 = t1
    Calls = {c1, c2}
    Conns = {k1}
    Tables = {t1}
    ConnOf <- NodeConnOf
    TableOf <- NodeTableOf
    Inline = FALSE
    PoolSize = 1
    MaxReplies = 1
    MaxCloses <- NodeCloses
    NoCall = NoCall
    NoConn = NoConn
SPECIFICATION FairSpec
PROPERTIES
    DeadlineEndsCall
    DeadConnectionWakesCaller
CHECK_DEADLOCK FALSE
