\* UTF-16LE files of whole code units whose 0x0A byte belongs to another
\* character (expected violation).
CONSTANTS
    TabStop = 4
    Cases <- MCMisalignedCases
SPECIFICATION Spec
CHECK_DEADLOCK FALSE
INVARIANT WholeUnitLineEndsMatch
