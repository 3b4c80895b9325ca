SPECIFICATION Spec
CONSTANTS
    Roles = {"init", "container", "daemon", "user"}
    OrderTypes = {"SOFTREBOOT", "KEXEC"}
INVARIANTS
    EndsWithoutServices
PROPERTIES
    ProgramEnds
CHECK_DEADLOCK FALSE
