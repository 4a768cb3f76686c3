CONSTANTS
    c1 = c1
    c2 = c2
    k1 = k1
    k2 = k2
    t1 = t1
    Calls = {c1, c2}
    Conns = {k1, k2}
    Tables = {t1}
    ConnOf <- ClientConnOf
    TableOf <- ClientTableOf
    Inline = TRUE
    PoolSize = 1
    MaxReplies = 2
    MaxCloses <- ClientCloses
    NoCall = NoCall
    NoConn = NoConn
SPECIFICATION Spec
INVARIANTS
    TypeOK
    ChannelNeverMisused
    TrueMeansAnswered
    NoContextLeak
    BlockedSenderCause
CHECK_DEADLOCK FALSE
