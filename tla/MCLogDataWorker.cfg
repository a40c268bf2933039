\* Full and partial indexing of a growing single-byte log, with interrupts,
\* read errors, failed opens, exceptions in the finalisation and changes of the fast-modification
\* setting.
CONSTANTS
    NoDigest = NoDigest
    NoCodec = NoCodec
    TabStop = 4
    BlockSize = 1
    Prefetch = 2
    FileBytes <- MCFileBytes
    MaxFileSize = 3
    MaxOps = 2
    DetectableCodecs = {"UTF-8"}
    ForcedCodecs = {NoCodec}
    LocaleCodec = "UTF-8"
    FastModes = {FALSE, TRUE}
    LineLengthMax = 2147483647
    ReadErrors = TRUE
    OpenFailures = TRUE
    Checks = FALSE
    MaxRotations = 0
    ThrowPoints = {"finalize"}
SPECIFICATION Spec
\* The user stops after MaxOps, the writer at MaxFileSize. (A throwing parser hangs
\* the operation or ends the process: see MCLogDataWorkerParserThrow.cfg.)
CHECK_DEADLOCK FALSE
INVARIANT TypeOK
INVARIANT IndexMatchesFile
INVARIANT CompleteAfterQuietRun
INVARIANT MaxLengthNeverOverstates
INVARIANT CheckAgreesAfterQuietRun
PROPERTY ImplementsLogIndex
