SPECIFICATION Spec
CONSTANTS
    Names = {"a", "b", "c"}
    Descriptions <- MCDescriptions
    Includes <- MCIncludes
    Edited = {"a"}
    MaxEdits = 1
    Driven = {"a", "b"}
    MaxDepth = 4
INVARIANTS
    RecordsUnique
    NoCycleLoaded
    RunningHasDeps
    FailedReloadKeeps
CHECK_DEADLOCK FALSE
