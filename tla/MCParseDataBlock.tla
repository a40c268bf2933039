-------------------------- MODULE MCParseDataBlock --------------------------
(***************************************************************************)
(* Checks the block parser against the reference definitions over every    *)
(* file of a test case: a codec, a block size, the byte values and the     *)
(* longest file.  A writer appends one byte at a time and the whole file   *)
(* is parsed again in blocks of the case's size after each append, as      *)
(* doIndex( 0 ) would parse it.                                            *)
(***************************************************************************)
EXTENDS ParseDataBlock

CONSTANT Cases      \* [codec, blockSize (IndexingBlockSize), bytes, maxLen] records

ASSUME \A c \in Cases : /\ c.codec \in Codecs /\ c.blockSize \in Nat \ {0}
                       /\ c.bytes \subseteq 0 .. 255 /\ c.maxLen \in Nat

\* UTF-8 with tabs and LFs in blocks of two bytes and in one block, and the
\* four wide codecs with NUL and LF bytes in blocks of four bytes.
MCCases ==
    {[codec |-> "UTF-8", blockSize |-> b, bytes |-> {9, 10, 65}, maxLen |-> 7] : b \in {2, 8}}
    \cup {[codec |-> c, blockSize |-> 4, bytes |-> {0, 10, 65}, maxLen |-> 8] :
            c \in {"UTF-16LE", "UTF-16BE", "UTF-32LE", "UTF-32BE"}}

\* UTF-16LE files of up to six bytes in one block.
MCMisalignedCases ==
    {[codec |-> "UTF-16LE", blockSize |-> 8, bytes |-> {0, 10, 65}, maxLen |-> 6]}

VARIABLES file, case
vars == << file, case >>

InitialState(c) ==
    [pos |-> 0, end |-> 0, additional_spaces |-> 0, max_length |-> 0,
     encodingParams |-> EncodingParameters(c)]

\* The blocks bytes[bb + 1 .. bb + blockSize], parsed in order with one state.
RECURSIVE IndexBlocks(_, _, _, _)
IndexBlocks(bytes, blockBeginning, state, acc) ==
    IF blockBeginning >= Len(bytes)
    THEN [state |-> state, linePositions |-> acc.linePositions, outOfBlock |-> acc.outOfBlock]
    ELSE LET last == IF blockBeginning + case.blockSize < Len(bytes)
                     THEN blockBeginning + case.blockSize ELSE Len(bytes)
             r == ParseDataBlock(blockBeginning, SubSeq(bytes, blockBeginning + 1, last), state)
         IN  IndexBlocks(bytes, last, r.state,
                         [linePositions |-> acc.linePositions \o r.linePositions,
                          outOfBlock |-> acc.outOfBlock \/ r.outOfBlock])

Indexed == IndexBlocks(file, 0, InitialState(case.codec),
                       [linePositions |-> << >>, outOfBlock |-> FALSE])

Params == EncodingParameters(case.codec)

Init == file = << >> /\ case \in Cases

\* The log writer appends a byte; the writer stops at the case's maxLen bytes.
AppendByte == \E b \in case.bytes : Len(file) < case.maxLen /\ file' = Append(file, b)
                                    /\ UNCHANGED case

Next == AppendByte

Spec == Init /\ [][Next]_vars

TypeOK == case \in Cases /\ file \in Seq(case.bytes) /\ Len(file) <= case.maxLen

(***************************************************************************)
(* Line starts (spec 8): parsing the file block by block records exactly   *)
(* the offsets just after each LF code unit, in increasing order, and the  *)
(* "Trying to parse out of block" guard of parseDataBlock never fires.     *)
(* A line feed split between two blocks, or a tab or LF byte inside a      *)
(* multi-byte code unit, is where the scanner could go wrong.              *)
(***************************************************************************)
LineEndsMatch ==
    /\ Indexed.linePositions = RefLineEnds(file, Params)
    /\ ~Indexed.outOfBlock

(***************************************************************************)
(* Spec 4.1 for files of whole code units: a 0x0A byte inside another      *)
(* character (the high byte of U+0A00 in UTF-16LE) followed by NUL bytes   *)
(* is not a line feed, so the line starts are exactly the offsets after    *)
(* the LF code units.                                                      *)
(***************************************************************************)
WholeUnitLineEndsMatch == Len(file) % Params.lineFeedWidth = 0 => LineEndsMatch

(***************************************************************************)
(* Maximum line width (spec 3 and 8): the max_length the parser computes   *)
(* equals the largest tab-expanded length of a line of the file.           *)
(***************************************************************************)
MaxLengthExact == Indexed.state.max_length = RefMaxLength(file, Params)

(***************************************************************************)
(* Every genuine line feed is found: each offset just after an LF code     *)
(* unit is recorded, whatever bytes of other code units look like a line   *)
(* feed around it and wherever the block boundaries fall.                  *)
(***************************************************************************)
AllLineFeedsFound ==
    \A i \in DOMAIN RefLineEnds(file, Params) :
        \E j \in DOMAIN Indexed.linePositions :
            Indexed.linePositions[j] = RefLineEnds(file, Params)[i]

(***************************************************************************)
(* For the single-byte codec, at every block size: LineEndsMatch.  (The    *)
(* multi-byte scanner is not aligned to code units; AllLineFeedsFound is   *)
(* what it guarantees.)                                                    *)
(***************************************************************************)
SingleByteLineEndsMatch == Params.lineFeedWidth = 1 => LineEndsMatch

(***************************************************************************)
(* For the single-byte codec, a file parsed in one block: MaxLengthExact.  *)
(* expandTabsInLine counts a tab's column from the start of the block and  *)
(* from the start of the line, plus the spaces tabs before it added.      *)
(***************************************************************************)
MaxLengthExactInBlock ==
    (Params.lineFeedWidth = 1 /\ Len(file) <= case.blockSize) => MaxLengthExact

=============================================================================
