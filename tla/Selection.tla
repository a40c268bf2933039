------------------------------ MODULE Selection ------------------------------
(***************************************************************************)
(* Selection of src/src/ui/src/selection.cpp: the selection of a log view. *)
(* Three kinds of selection exist (a whole line, a portion of one line, a  *)
(* range of lines) and, by the class comment, only one may be active at a  *)
(* time.  Every method is a step of the UI thread.  A line number is a     *)
(* natural, an empty std::optional is None.                                *)
(***************************************************************************)
EXTENDS Naturals, SequencesExt

CONSTANT None       \* an empty OptionalLineNumber

VARIABLES
    selectedLine,   \* selectedLine_
    partialLine,    \* selectedPartial_.line
    startColumn,    \* selectedPartial_.startColumn
    endColumn,      \* selectedPartial_.endColumn
    rangeStart,     \* selectedRange_.startLine
    rangeEnd,       \* selectedRange_.endLine
    firstLine       \* selectedRange_.firstLine: where the range was started

selectionVars == << selectedLine, partialLine, startColumn, endColumn,
                    rangeStart, rangeEnd, firstLine >>

QMin(a, b) == IF a <= b THEN a ELSE b
QMax(a, b) == IF a >= b THEN a ELSE b

\* Selection::Selection(): the optionals are empty.
SelInit ==
    /\ selectedLine = None /\ partialLine = None /\ rangeStart = None
    /\ startColumn = 0 /\ endColumn = 0
    /\ rangeEnd = 0
    /\ firstLine = 0

-----------------------------------------------------------------------------
(* Operations.                                                             *)

\* selectLine (selection.h, not under src/): the line alone.
SelectLine(line) ==
    /\ selectedLine' = line
    /\ partialLine' = None /\ rangeStart' = None
    /\ UNCHANGED << startColumn, endColumn, rangeEnd, firstLine >>

\* clear (selection.h, not under src/): nothing selected.
ClearSelection ==
    /\ selectedLine' = None /\ partialLine' = None /\ rangeStart' = None
    /\ UNCHANGED << startColumn, endColumn, rangeEnd, firstLine >>

\* Mutant: the whole line is not unselected first.
SelectPortionKeepsLine(line, start_column, end_column) ==
    /\ rangeStart' = None
    /\ partialLine' = line
    /\ startColumn' = QMin(start_column, end_column)
    /\ endColumn' = QMax(start_column, end_column)
    /\ UNCHANGED << selectedLine, rangeEnd, firstLine >>

\* Mutant: the columns are stored as given, not ordered.
SelectPortionUnordered(line, start_column, end_column) ==
    /\ selectedLine' = None /\ rangeStart' = None
    /\ partialLine' = line
    /\ startColumn' = start_column
    /\ endColumn' = end_column
    /\ UNCHANGED << rangeEnd, firstLine >>

SelectPortion(line, start_column, end_column) ==
    /\ selectedLine' = None /\ rangeStart' = None
    /\ partialLine' = line
    /\ startColumn' = QMin(start_column, end_column)
    /\ endColumn' = QMax(start_column, end_column)
    /\ UNCHANGED << rangeEnd, firstLine >>

SelectRange(start_line, end_line) ==
    /\ selectedLine' = None /\ partialLine' = None
    /\ rangeStart' = QMin(start_line, end_line)
    /\ rangeEnd' = QMax(start_line, end_line)
    /\ firstLine' = start_line
    /\ UNCHANGED << startColumn, endColumn >>

\* The line a shift-click extends from: the line, the range's first line,
\* the portion's line, else line 0.
PreviousLine ==
    IF selectedLine # None THEN selectedLine
    ELSE IF rangeStart # None THEN firstLine
    ELSE IF partialLine # None THEN partialLine
    ELSE 0

SelectRangeFromPrevious(line) == SelectRange(PreviousLine, line)

\* Mutant: only the end of the range is cropped.
CropEndOnly(last_line) ==
    /\ selectedLine' = IF selectedLine # None /\ selectedLine > last_line
                       THEN None ELSE selectedLine
    /\ partialLine' = IF partialLine # None /\ partialLine > last_line
                      THEN None ELSE partialLine
    /\ rangeEnd' = IF rangeEnd > last_line THEN last_line ELSE rangeEnd
    /\ UNCHANGED << rangeStart, startColumn, endColumn, firstLine >>

\* Drop what lies past last_line: a line or portion there is unselected, the
\* range's ends are clamped to it.
Crop(last_line) ==
    /\ selectedLine' = IF selectedLine # None /\ selectedLine > last_line
                       THEN None ELSE selectedLine
    /\ partialLine' = IF partialLine # None /\ partialLine > last_line
                      THEN None ELSE partialLine
    /\ rangeEnd' = IF rangeEnd > last_line THEN last_line ELSE rangeEnd
    /\ rangeStart' = IF rangeStart # None /\ rangeStart > last_line
                     THEN last_line ELSE rangeStart
    /\ UNCHANGED << startColumn, endColumn, firstLine >>

-----------------------------------------------------------------------------
(* Queries (const methods).                                                *)

NoPortion == [valid |-> FALSE, line |-> None, startColumn |-> 0, endColumn |-> 0]

GetPortionForLine(line) ==
    IF partialLine # None /\ partialLine = line
    THEN [valid |-> TRUE, line |-> partialLine,
          startColumn |-> startColumn, endColumn |-> endColumn]
    ELSE NoPortion

\* Mutant: the range's last line is left out.
IsLineSelectedOffByOne(line) ==
    IF selectedLine # None /\ line = selectedLine THEN TRUE
    ELSE IF rangeStart # None THEN line >= rangeStart /\ line < rangeEnd
    ELSE FALSE

IsLineSelected(line) ==
    IF selectedLine # None /\ line = selectedLine THEN TRUE
    ELSE IF rangeStart # None THEN line >= rangeStart /\ line <= rangeEnd
    ELSE FALSE

IsPortionSelected(line, start_column, end_column) ==
    \/ IsLineSelected(line)
    \/ LET portion == GetPortionForLine(line)
       IN  /\ portion.valid
           /\ start_column >= portion.startColumn /\ end_column <= portion.endColumn

\* selectedRange_.size() (selection.h): endLine - startLine + 1.
RangeSize == rangeEnd - rangeStart + 1

\* getLines: the line, the portion's line, or the range in order
\* (std::iota from startLine over size() elements).
GetLines ==
    IF selectedLine # None THEN << selectedLine >>
    ELSE IF partialLine # None THEN << partialLine >>
    ELSE IF rangeStart # None THEN [i \in 1 .. RangeSize |-> rangeStart + i - 1]
    ELSE << >>

\* QString::mid( position, n ): the characters from position on, at most n.
Mid(s, position, n) ==
    IF position >= Len(s) THEN << >> ELSE SubSeq(s, position + 1, QMin(Len(s), position + n))

LineFeed == "LF"

(***************************************************************************)
(* getSelectedText( logData ): the line; the portion's columns of the      *)
(* (tab-expanded) line; or the range's lines, a LineFeed put before a line *)
(* whenever the text so far is not empty.  lineString maps a line number   *)
(* to its text (the logs here have no tabs, so expanded text is the text). *)
(***************************************************************************)
GetSelectedText(lineString) ==
    IF selectedLine # None THEN lineString[selectedLine]
    ELSE IF partialLine # None
    THEN Mid(lineString[partialLine], startColumn, (endColumn - startColumn) + 1)
    ELSE IF rangeStart # None
    THEN FoldLeft(LAMBDA text, line : (IF text # << >> THEN Append(text, LineFeed) ELSE text)
                                      \o line,
                  << >>, [i \in 1 .. RangeSize |-> lineString[rangeStart + i - 1]])
    ELSE << >>

\* A FilePosition.
Position(line, column) == [line |-> line, column |-> column]

\* Mutant: a portion's next position is its last column.
GetNextPositionAtEnd ==
    IF selectedLine # None THEN Position(selectedLine + 1, 0)
    ELSE IF rangeStart # None THEN Position(rangeEnd + 1, 0)
    ELSE IF partialLine # None THEN Position(partialLine, endColumn)
    ELSE Position(0, 0)

\* getNextPosition: after the line or range, after the portion's last column.
GetNextPosition ==
    IF selectedLine # None THEN Position(selectedLine + 1, 0)
    ELSE IF rangeStart # None THEN Position(rangeEnd + 1, 0)
    ELSE IF partialLine # None THEN Position(partialLine, endColumn + 1)
    ELSE Position(0, 0)

\* getPreviousPosition: at the line or range start, before the portion.
GetPreviousPosition ==
    IF selectedLine # None THEN Position(selectedLine, 0)
    ELSE IF rangeStart # None THEN Position(rangeStart, 0)
    ELSE IF partialLine # None THEN Position(partialLine, QMax(startColumn - 1, 0))
    ELSE Position(0, 0)

-----------------------------------------------------------------------------
(* Properties.                                                             *)

(***************************************************************************)
(* getLines() never sizes its vector from a range whose start is past its  *)
(* end: selectedRange_.size() is endLine - startLine + 1 on unsigned line  *)
(* numbers, so a reversed range would ask for ~2^64 lines.  crop() clamps  *)
(* both ends separately and must keep them in order.                       *)
(***************************************************************************)
RangeOrdered == rangeStart # None => rangeStart <= rangeEnd

(***************************************************************************)
(* The two ways a view asks what is selected agree: isLineSelected( l )    *)
(* holds exactly for the lines getLines() returns, except the line of a    *)
(* selected portion, which is drawn through getPortionForLine( l ).  It    *)
(* fails when two kinds of selection are active at once (the class         *)
(* comment: "only one type might be active at any time").                  *)
(***************************************************************************)
SelectionQueriesAgree(lines) ==
    \A l \in lines :
        IsLineSelected(l) <=> (l \in ToSet(GetLines) /\ ~GetPortionForLine(l).valid)

=============================================================================
