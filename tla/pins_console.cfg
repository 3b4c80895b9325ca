SPECIFICATION Spec
CONSTANTS
    a = a  b = b  c = c
    Services <- Three
    Records <- ThreeRecords
    Links <- HardChainLinks
    InitLinks <- HardChain
    Config <- OnConsole
    Orders = {"start", "release", "unpin", "pin_start", "shutdown"}
    CountBound = 2
INVARIANTS
    AcquisitionBound
    OneConsoleOwner
    ConsoleNotLost
PROPERTIES
    ImplementsAcquisition
    PinnedStaysUp
