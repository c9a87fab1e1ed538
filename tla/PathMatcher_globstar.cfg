SPECIFICATION Spec
CONSTANTS
    Texts <- MCTexts
    Patterns <- MCPatterns
    Paths <- MCPaths
    None = None
INVARIANTS
    GlobStarAnywhere
CHECK_DEADLOCK FALSE
