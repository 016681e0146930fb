SPECIFICATION OwnershipSpec
CONSTANTS
    Backends = {"x9_62"}
    NULL = NULL
CHECK_DEADLOCK FALSE
INVARIANT CallersKeyKept
