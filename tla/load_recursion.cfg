SPECIFICATION Spec
CONSTANTS
    Names = {"a", "b", "c"}
    Descriptions <- MCDescriptions
    Includes <- MCIncludes
    Edited = {"a"}
    MaxEdits = 1
    Driven = {"a", "b"}
    MaxDepth = 7
INVARIANTS
    RecursionEnds
CHECK_DEADLOCK FALSE
