SPECIFICATION Spec
CONSTANTS
    MaxFd = 16
    Low = {3, 4, 5}
    ForcedFds = {0, 1, 2, 3, 4, 6, 8}
INVARIANTS
    RunsWithWhatItAsked
    FailureIsTold
    LeaksOnlyWithoutInput
CHECK_DEADLOCK FALSE
