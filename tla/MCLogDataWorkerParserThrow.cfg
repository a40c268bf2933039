\* Indexing runs whose parser may throw (expected violation).
CONSTANTS
    NoDigest = NoDigest
    NoCodec = NoCodec
    TabStop = 4
    BlockSize = 1
    Prefetch = 2
    FileBytes <- MCFileBytes
    MaxFileSize = 3
    MaxOps = 2
    DetectableCodecs = {"UTF-8"}
    ForcedCodecs = {NoCodec}
    LocaleCodec = "UTF-8"
    FastModes = {FALSE, TRUE}
    LineLengthMax = 2147483647
    ReadErrors = TRUE
    OpenFailures = TRUE
    Checks = FALSE
    MaxRotations = 0
    ThrowPoints = {"parser"}
SPECIFICATION Spec
\* The user stops after MaxOps, the writer at MaxFileSize.
CHECK_DEADLOCK FALSE
PROPERTY ExceptionsAreCaught
