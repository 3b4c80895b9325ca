SPECIFICATION ProcSpec
CONSTANTS
    a = a  b = b
    Services <- Single
    Records <- SingleRecord
    Links <- NoLinks
    InitLinks <- NoDeps
    Config <- Process
    ProcConfig <- Recovering
    Orders = {"start", "stop", "release", "restart"}
    Exits = {"clean", "fail"}
    CountBound = 1
INVARIANTS
    QuietWhenDown
    ForksWhenFree
PROPERTIES
    StopEnds
    RestartsAreLimited
