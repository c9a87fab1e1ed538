SPECIFICATION Spec
CONSTANTS
    Files <- NumberFiles
    Requests <- MCRequestSet
    None = None
INVARIANTS
    ValueIsMatched
CHECK_DEADLOCK FALSE
