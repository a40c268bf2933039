\* UTF-8 files in blocks of two bytes (LFs and tabs on either side of a block
\* boundary) and in one block, and UTF-16/32 files in blocks of four bytes
\* (NUL and LF bytes around every code unit).
CONSTANTS
    TabStop = 4
    Cases <- MCCases
SPECIFICATION Spec
\* The writer stops at the case's maxLen bytes.
CHECK_DEADLOCK FALSE
INVARIANT SingleByteLineEndsMatch
INVARIANT MaxLengthExactInBlock
INVARIANT AllLineFeedsFound
