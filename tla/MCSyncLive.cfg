CONSTANTS
    e1 = e1
    e2 = e2
    h1 = h1
    h2 = h2
    Entries = {e1}
    Handlers = {h1, h2}
    MaxVersion = 1
    MaxHellos = 0
    MayStop = FALSE
    NoEntry = NoEntry
SPECIFICATION FairSpec
PROPERTY VersionConverges
CHECK_DEADLOCK FALSE
