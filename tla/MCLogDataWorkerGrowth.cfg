\* A log that grows while one indexing run is in progress (expected violation).
CONSTANTS
    NoDigest = NoDigest
    NoCodec = NoCodec
    TabStop = 4
    BlockSize = 2
    Prefetch = 1
    FileBytes <- MCFileBytes
    MaxFileSize = 3
    MaxOps = 1
    DetectableCodecs = {"UTF-8"}
    ForcedCodecs = {NoCodec}
    LocaleCodec = "UTF-8"
    FastModes = {FALSE}
    LineLengthMax = 2147483647
    ReadErrors = FALSE
    OpenFailures = FALSE
    Checks = FALSE
    MaxRotations = 0
    ThrowPoints = {}
SPECIFICATION Spec
CHECK_DEADLOCK FALSE
INVARIANT LinesMatchIndexedBytes
