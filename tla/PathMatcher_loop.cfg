SPECIFICATION Spec
CONSTANTS
    Texts <- MCTexts
    Patterns <- MCPatterns
    Paths <- MCPaths
    None = None
INVARIANTS
    TypeOK
    ComputesCheckPath
    PanicsOnlyIfInsane
    MatchesAsDocumented
CHECK_DEADLOCK FALSE
