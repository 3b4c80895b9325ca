SPECIFICATION Spec
CONSTANTS
    Services = {a, b}
    Svc = a
    From = b
    SockRoom = 6
    ClientBuf = 20
    RbufSize = 7
    OUTBUF_LIMIT = 8
    Word = 32
    Dependents <- MCDependents
    MaxRecords = 2
    MaxEvents = 1
    Commands = {"start", "stop", "force_stop", "restart", "wake", "release", "unpin", "unload", "reload", "list", "status", "add_dep", "rm_dep", "shutdown", "enable", "disable", "setenv", "trigger", "signal", "catlog", "monitor", "environ", "close"}
INVARIANTS
    InStep
    HandlesAgree
    RequestsTaken
PROPERTIES
    Answered
    Freed
CHECK_DEADLOCK FALSE
