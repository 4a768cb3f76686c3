CONSTANTS
    k1 = k1
    k2 = k2
    k3 = k3
    i1 = i1
    a1 = a1
    a2 = a2
    u1 = u1
    Conns = {k1, k2}
    Instances = {i1}
    InstOf <- OneInstance
    Clients = {a1, a2}
    Uris = {u1}
    EntriesOf <- OneEntry
    MaxConnection = 1
    Leavers = {k1, k2}
    MayExpire = TRUE
    MayStop = TRUE
    NoConn = NoConn
    NoClient = NoClient
    NoInstance = NoInstance
SPECIFICATION Spec
SYMMETRY Perms
INVARIANTS
    TypeOK
    AnnouncedIffServed
    DeadIsLeaving
    MappedIsServed
CHECK_DEADLOCK FALSE
