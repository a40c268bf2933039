\* Checks of a log that grows and is rotated, against indexes built by full
\* and partial runs, in full-digest mode, with checks and the parser throwing.
\* A throwing parser may leave an operation waiting for ever, so only safety
\* properties are checked here.
CONSTANTS
    NoDigest = NoDigest
    NoCodec = NoCodec
    TabStop = 4
    BlockSize = 1
    Prefetch = 2
    FileBytes <- MCFileBytes
    MaxFileSize = 2
    MaxOps = 3
    DetectableCodecs = {"UTF-8"}
    ForcedCodecs = {NoCodec}
    LocaleCodec = "UTF-8"
    FastModes = {FALSE}
    LineLengthMax = 2147483647
    ReadErrors = FALSE
    OpenFailures = TRUE
    Checks = TRUE
    MaxRotations = 2
    ThrowPoints = {"check", "parser"}
SPECIFICATION Spec
CHECK_DEADLOCK FALSE
PROPERTY CheckTruncatesOnlyChangedFile
PROPERTY ImplementsLogIndexSafety
