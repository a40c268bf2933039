\* Fast-mode checks of a log rotated while an index run finishes (expected violation).
CONSTANTS
    NoDigest = NoDigest
    NoCodec = NoCodec
    TabStop = 4
    BlockSize = 2
    Prefetch = 1
    FileBytes <- MCFileBytes
    MaxFileSize = 3
    MaxOps = 2
    DetectableCodecs = {"UTF-8"}
    ForcedCodecs = {NoCodec}
    LocaleCodec = "UTF-8"
    FastModes = {TRUE}
    LineLengthMax = 2147483647
    ReadErrors = FALSE
    OpenFailures = FALSE
    Checks = TRUE
    MaxRotations = 2
    ThrowPoints = {}
SPECIFICATION Spec
CHECK_DEADLOCK FALSE
PROPERTY CheckIsSound
