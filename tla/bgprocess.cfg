SPECIFICATION ProcSpec
CONSTANTS
    a = a  b = b
    Services <- Single
    Records <- SingleRecord
    Links <- NoLinks
    InitLinks <- NoDeps
    Config <- Bgprocess
    ProcConfig <- Daemons
    Orders = {"start", "stop"}
    Exits = {"clean", "fail"}
    CountBound = 1
INVARIANTS
    StartedHasProcess
