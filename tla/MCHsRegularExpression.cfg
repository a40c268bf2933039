\* Every database of one to three patterns (and two of four), scratch
\* allocation failing, scans
\* reporting any subset of the patterns in any order.
CONSTANTS
    Good = Good
    Unsupported = Unsupported
    BadOne = BadOne
    BadTwo = BadTwo
    PatternLists <- MCPatternLists
    HsCompiles <- MCHsCompiles
    QtValid <- MCQtValid
    QtError <- MCQtError
    NoError = ""
    ScratchFailures = TRUE
    CloneFailures = FALSE
SPECIFICATION Spec
INVARIANT MatchIsExact
INVARIANT FallbackReportsFirstError
