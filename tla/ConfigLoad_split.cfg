SPECIFICATION Spec
CONSTANTS
    Files <- MCFiles
    Requests <- MCRequestSet
    None = None
INVARIANTS
    TypeOK
    FirstInFileDecides
    LastBindingWins
CHECK_DEADLOCK FALSE
