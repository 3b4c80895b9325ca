SPECIFICATION FairSpec
CONSTANTS
    Capacity = 4
    Services = {s1}
    NoService = NoService
    Messages <- MCMessages
    log_level <- MCLevels
    console_service_status = FALSE
    SyslogFormat = FALSE
    MaxMsgs = 3
    MaxOpens = 2
INVARIANTS
    MainLogComplete
    ConsoleWholeLines
PROPERTIES
    DiscardReported
CHECK_DEADLOCK FALSE
