SPECIFICATION ProcSpec
CONSTANTS
    a = a  b = b
    Services <- Two
    Records <- TwoRecords
    Links <- PairLinks
    InitLinks <- Pair
    Config <- ScriptOnProcess
    ProcConfig <- ScriptsMayFail
    Orders = {"start", "stop"}
    Exits = {"fail", "signal"}
    CountBound = 2
INVARIANTS
    RequiredRuns
    StopHasAnEnd
