\* hs_clone_scratch failing in createMatcher (expected violation).
CONSTANTS
    Good = Good
    Unsupported = Unsupported
    BadOne = BadOne
    BadTwo = BadTwo
    PatternLists <- MCPatternLists
    HsCompiles <- MCHsCompiles
    QtValid <- MCQtValid
    QtError <- MCQtError
    NoError = ""
    ScratchFailures = TRUE
    CloneFailures = TRUE
SPECIFICATION Spec



INVARIANT MatchIsExact
