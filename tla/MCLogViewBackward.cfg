\* Searching backward from a match (expected violation).
CONSTANTS
    None = None
    QuickfindRegexpType = "ExtendedRegexp"
    MaxLine = 3
    MaxColumn = 3
    LineText <- MCLineText
    Patterns <- MCPatterns
SPECIFICATION Spec
INVARIANT BackwardFindsPreviousHighlight
