SPECIFICATION Spec
CONSTANTS
    a = a  b = b  c = c
    Services <- Three
    Records <- ThreeRecords
    Links <- DynamicLinks
    InitLinks <- Pair
    Config <- Restarting
    Orders = {"start", "stop", "wake", "release", "trigger", "shutdown", "restart", "add_dep", "rm_dep", "enable"}
    CountBound = 3
INVARIANTS
    TypeOK
    AcquisitionExact
    ActiveExact
    CountDecides
    StoppedIsReleased
    NoCycle
PROPERTIES
    HandlerEnds
    ShutdownCompletes
