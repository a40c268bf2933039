--------------------------- MODULE ParseDataBlock ---------------------------
(***************************************************************************)
(* The line-terminator scanner, the tab expander and the block parser of   *)
(* src/src/logdata/src/logdataworker.cpp (namespace parse_data_block and   *)
(* IndexOperation::parseDataBlock), as pure operators over a block of      *)
(* bytes.  Bytes are naturals; only NUL, TAB and LF are told apart from    *)
(* the other byte values.  Positions are 0-based as in the code: byte i    *)
(* of a block b is b[i + 1].  A std::string_view into a block is a record  *)
(* [blk, off, len].  std::string_view::npos is NPOS.                       *)
(***************************************************************************)
EXTENDS Integers, Sequences, SequencesExt, FiniteSetsExt

CONSTANT TabStop      \* TabStop of linetypes.h (8 in the code)

ASSUME TabStop \in Nat \ {0}

NUL == 0
TAB == 9
LF  == 10
NPOS == -1

(***************************************************************************)
(* EncodingParameters(codec) of encodingparameters.h (not part of src/):   *)
(* the width of an encoded LF and the index of its 0x0A byte.             *)
(* getBeforeCrOffset() is lineFeedIndex.                                   *)
(***************************************************************************)
Codecs == {"UTF-8", "UTF-16LE", "UTF-16BE", "UTF-32LE", "UTF-32BE"}

EncodingParameters(codec) ==
    LET w == IF codec \in {"UTF-16LE", "UTF-16BE"} THEN 2
             ELSE IF codec \in {"UTF-32LE", "UTF-32BE"} THEN 4 ELSE 1
    IN  [lineFeedWidth |-> w,
         lineFeedIndex |-> IF codec \in {"UTF-16BE", "UTF-32BE"} THEN w - 1 ELSE 0]

DefaultEncodingParameters == [lineFeedWidth |-> 1, lineFeedIndex |-> 0]

BeforeCrOffset(params) == params.lineFeedIndex

\* C++ signed integer division truncates toward zero.
CDiv(a, b) == IF a >= 0 THEN a \div b ELSE -((-a) \div b)

Max2(a, b) == IF a >= b THEN a ELSE b

View(blk, off, len) == [blk |-> blk, off |-> off, len |-> len]

At(v, i) == v.blk[v.off + i + 1]

FirstOf(S) == IF S = {} THEN NPOS ELSE Min(S)

\* Mutant: the last byte of the view is not searched.
FindNextSingleByteDelimeterMissLast(params, v, d) ==
    FirstOf({i \in 0 .. v.len - 2 : At(v, i) = d})

(***************************************************************************)
(* findNextSingleByteDelimeter: data.find( delimeter ).                    *)
(***************************************************************************)
FindNextSingleByteDelimeter(params, v, d) ==
    FirstOf({i \in 0 .. v.len - 1 : At(v, i) = d})

\* Mutant: a candidate whose code unit ends the view is rejected.
IsNotDelimeterOffByOne(params, v, checkPos) ==
    LET w == params.lineFeedWidth
        isCheckForward == params.lineFeedIndex = 0
    IN  \/ isCheckForward /\ checkPos + w >= v.len
        \/ ~isCheckForward /\ checkPos < w - 1
        \/ \E i \in 1 .. w - 1 :
              At(v, IF isCheckForward THEN checkPos + i ELSE checkPos - i) # NUL

(***************************************************************************)
(* The isNotDelimeter lambda: a candidate is rejected when its companion   *)
(* bytes (forward for lineFeedIndex 0, backward otherwise) leave the view  *)
(* or one of them is not NUL.  The disjuncts are evaluated in order, as    *)
(* the code's early returns are.                                           *)
(***************************************************************************)
IsNotDelimeter(params, v, checkPos) ==
    LET w == params.lineFeedWidth
        isCheckForward == params.lineFeedIndex = 0
    IN  \/ isCheckForward /\ checkPos + w > v.len
        \/ ~isCheckForward /\ checkPos < w - 1
        \/ \E i \in 1 .. w - 1 :
              At(v, IF isCheckForward THEN checkPos + i ELSE checkPos - i) # NUL

(***************************************************************************)
(* findNextMultiByteDelimeter: the loop visits the occurrences of the      *)
(* delimeter in order and stops at the first one that is not rejected.     *)
(***************************************************************************)
FindNextMultiByteDelimeter(params, v, d) ==
    FirstOf({i \in 0 .. v.len - 1 : At(v, i) = d /\ ~IsNotDelimeter(params, v, i)})

\* The choice of scanner at the top of parseDataBlock.
FindNextDelimeter(params, v, d) ==
    IF params.lineFeedWidth = 1 THEN FindNextSingleByteDelimeter(params, v, d)
                                ELSE FindNextMultiByteDelimeter(params, v, d)

\* charOffsetWithinBlock: pointer distance from the block start, minus beforeCr.
CharOffsetWithinBlock(distance, params) == distance - BeforeCrOffset(params)

\* Mutant: the tab's own column is counted twice (the "- 1" dropped).
RECURSIVE ExpandTabsInLineNoMinusOne(_, _, _, _, _, _)
ExpandTabsInLineNoMinusOne(block, off, len, posWithinBlock, params, additionalSpaces) ==
    LET nextTab == FindNextDelimeter(params, View(block, off, len), TAB)
        currentExpandedSize ==
            CharOffsetWithinBlock(off + nextTab, params) - posWithinBlock + additionalSpaces
    IN  IF len = 0 \/ nextTab = NPOS
        THEN additionalSpaces
        ELSE ExpandTabsInLineNoMinusOne(block, off + nextTab + 1, len - nextTab - 1,
                 posWithinBlock, params,
                 additionalSpaces + TabStop - (currentExpandedSize % TabStop))

(***************************************************************************)
(* expandTabsInLine: the view is block[off .. off + len - 1]; each tab     *)
(* found adds the padding to the next tab stop, the column being counted   *)
(* in bytes from posWithinBlock plus the spaces already added.             *)
(***************************************************************************)
RECURSIVE ExpandTabsInLine(_, _, _, _, _, _)
ExpandTabsInLine(block, off, len, posWithinBlock, params, additionalSpaces) ==
    LET nextTab == FindNextDelimeter(params, View(block, off, len), TAB)
        tabPosWithinBlock == CharOffsetWithinBlock(off + nextTab, params)
        currentExpandedSize == tabPosWithinBlock - posWithinBlock + additionalSpaces
    IN  IF len = 0 \/ nextTab = NPOS
        THEN additionalSpaces
        ELSE ExpandTabsInLine(block, off + nextTab + 1, len - nextTab - 1, posWithinBlock,
                              params,
                              additionalSpaces + TabStop - (currentExpandedSize % TabStop) - 1)

(***************************************************************************)
(* findNextLineFeed: <<isEndOfBlock, new posWithinBlock, additional        *)
(* spaces>> for the line that starts at posWithinBlock.                    *)
(***************************************************************************)
FindNextLineFeed(block, posWithinBlock, state) ==
    LET params == state.encodingParams
        searchLineSize == Len(block) - posWithinBlock
        nextLineFeed == FindNextDelimeter(params, View(block, posWithinBlock, searchLineSize), LF)
        isEndOfBlock == nextLineFeed = NPOS
        nextLineSize == IF isEndOfBlock THEN searchLineSize ELSE nextLineFeed
    IN  << isEndOfBlock,
           CharOffsetWithinBlock(posWithinBlock + nextLineSize, params),
           ExpandTabsInLine(block, posWithinBlock, nextLineSize, posWithinBlock, params,
                            state.additional_spaces) >>

(***************************************************************************)
(* The while ( !isEndOfBlock ) loop of parseDataBlock.  The result carries *)
(* the updated IndexingState, the line positions found and whether the     *)
(* "Trying to parse out of block" guard broke the loop.                    *)
(***************************************************************************)
RECURSIVE ParseLoop(_, _, _, _)
ParseLoop(blockBeginning, block, state, linePositions) ==
    LET w == state.encodingParams.lineFeedWidth
        posWithinBlock == IF state.pos >= blockBeginning THEN state.pos - blockBeginning ELSE 0
        found == IF posWithinBlock = Len(block)
                 THEN << TRUE, posWithinBlock, state.additional_spaces >>
                 ELSE FindNextLineFeed(block, posWithinBlock, state)
        isEndOfBlock == found[1]
        currentDataEnd == found[2] + blockBeginning
        length == CDiv(currentDataEnd - state.pos, w) + found[3]
        st == [state EXCEPT !.additional_spaces = found[3],
                            !.max_length = Max2(@, length)]
    IN  IF state.pos > blockBeginning + Len(block)
        THEN [state |-> state, linePositions |-> linePositions, outOfBlock |-> TRUE]
        ELSE IF isEndOfBlock
        THEN [state |-> st, linePositions |-> linePositions, outOfBlock |-> FALSE]
        ELSE ParseLoop(blockBeginning, block,
                       [st EXCEPT !.end = currentDataEnd,
                                  !.pos = currentDataEnd + w,
                                  !.additional_spaces = 0],
                       Append(linePositions, currentDataEnd + w))

ParseDataBlock(blockBeginning, block, state) ==
    ParseLoop(blockBeginning, block, state, << >>)

-----------------------------------------------------------------------------
(***************************************************************************)
(* Reference definitions, from the data model of the specification: a     *)
(* file is a sequence of code units of lineFeedWidth bytes starting at     *)
(* offset 0; a line ends after each code unit that encodes LF; a line's    *)
(* expanded length counts one column per code unit, a tab advancing to the *)
(* next multiple of TabStop.                                               *)
(***************************************************************************)
UnitCount(bytes, params) == Len(bytes) \div params.lineFeedWidth

\* Code unit k (0-based) encodes the character c (a byte value below 256).
UnitIs(bytes, params, k, c) ==
    \A i \in 0 .. params.lineFeedWidth - 1 :
        bytes[k * params.lineFeedWidth + i + 1] =
            IF i = params.lineFeedIndex THEN c ELSE NUL

\* Offsets just after each LF code unit of bytes, in increasing order.
RefLineEnds(bytes, params) ==
    LET lfUnits == SelectSeq([i \in 1 .. UnitCount(bytes, params) |-> i - 1],
                             LAMBDA u : UnitIs(bytes, params, u, LF))
    IN  [i \in DOMAIN lfUnits |-> (lfUnits[i] + 1) * params.lineFeedWidth]

\* Column reached after the code units first .. last (0-based, inclusive).
RECURSIVE ExpandedColumns(_, _, _, _, _)
ExpandedColumns(bytes, params, first, last, col) ==
    IF first > last THEN col
    ELSE ExpandedColumns(bytes, params, first + 1, last,
                         IF UnitIs(bytes, params, first, TAB)
                         THEN col + TabStop - (col % TabStop)
                         ELSE col + 1)

\* Expanded length of every line, the unterminated last one included.
RefMaxLength(bytes, params) ==
    LET n == UnitCount(bytes, params)
        lfs == {u \in 0 .. n - 1 : UnitIs(bytes, params, u, LF)}
        starts == {0} \cup {u + 1 : u \in lfs}
        EndOf(s) == IF \E u \in lfs : u >= s THEN Min({u \in lfs : u >= s}) ELSE n
    IN  Max({0} \cup {ExpandedColumns(bytes, params, s, EndOf(s) - 1, 0) : s \in starts})

=============================================================================
