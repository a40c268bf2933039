\* Three lines, the file shrinking and growing between 1 and 3 lines, portions
\* dragged over three columns, and the patterns "a", "aa", ".", "(" typed as
\* text or regular expression, with or without case folding.
CONSTANTS
    None = None
    QuickfindRegexpType = "ExtendedRegexp"
    MaxLine = 3
    MaxColumn = 3
    LineText <- MCLineText
    Patterns <- MCPatterns
SPECIFICATION Spec
INVARIANT TypeOK
INVARIANT RangeOrdered
INVARIANT SelectionQueriesAgreeOnLines
INVARIANT ForwardFindsNextHighlight
