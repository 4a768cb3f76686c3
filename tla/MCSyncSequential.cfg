CONSTANTS
    e1 = e1
    e2 = e2
    h1 = h1
    h2 = h2
    Entries = {e1, e2}
    Handlers = {h1}
    MaxVersion = 2
    MaxHellos = 1
    MayStop = TRUE
    NoEntry = NoEntry
SPECIFICATION Spec
SYMMETRY Perms
INVARIANTS
    TypeOK
    
    ObserverNeverAhead
    
    
CHECK_DEADLOCK FALSE
