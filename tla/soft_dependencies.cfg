SPECIFICATION Spec
CONSTANTS
    a = a  b = b  c = c
    Services <- Three
    Records <- ThreeRecords
    Links <- SoftLinks
    InitLinks <- Soft
    Config <- LastTriggered
    Orders = {"start", "stop", "wake", "release", "trigger", "shutdown", "pin_stop", "unpin"}
    CountBound = 3
INVARIANTS
    NoLostStart
    BroughtUpInOrder
PROPERTIES
    SoftDependentsSpared
