------------------------------ MODULE MCLogView ------------------------------
(***************************************************************************)
(* A log view composing its Selection and the QuickFindPattern of the      *)
(* quick-find bar.  The view shows lines 0 .. lastLine of LineText.  The   *)
(* user clicks, drags over a line, drags over lines, shift-clicks, clicks  *)
(* outside the text, types a pattern, and searches forward or backward;    *)
(* when the data changes the view crops its selection to the new last      *)
(* line.  Inputs are always valid lines and columns, as the class comment  *)
(* of Selection asks of its callers.                                       *)
(*                                                                         *)
(* A search (QuickFind, outside src/) starts at the selection's            *)
(* getNextPosition() / getPreviousPosition(), tries the matcher on that    *)
(* line from that column and on the following (preceding) shown lines     *)
(* from their start (column -1 backward: the whole line), and selects the  *)
(* portion getLastMatch() reports.  The view highlights what matchLine()   *)
(* returns.                                                                *)
(***************************************************************************)
EXTENDS Selection, QuickFindPattern

CONSTANTS
    MaxLine,        \* the longest file has lines 0 .. MaxLine
    MaxColumn,      \* columns a dragged portion may span
    LineText,       \* the (tab-expanded) text of each line
    Patterns        \* what the user may type

ASSUME MaxLine \in Nat /\ MaxColumn \in Nat /\ DOMAIN LineText = 0 .. MaxLine

VARIABLE lastLine   \* the last line of the data the view shows

vars == << selectionVars, patternVars, lastLine >>

\* Line 0 holds matches of "a" one apart and side by side; line 1 a case
\* variant and a literal dot; line 2 is blank; in line 3 the matches of "aa"
\* could overlap.
MCLineText == (0 :> << "a", "b", "a", "a" >>) @@ (1 :> << "A", ".", "a" >>) @@ (2 :> << >>)
                  @@ (3 :> << "a", "a", "a" >>)

\* "a", "aa", "." and the invalid "(".
MCPatterns == {<< "a" >>, << "a", "a" >>, << "." >>, << "(" >>}

Shown == 0 .. lastLine
Columns == 0 .. MaxColumn

NotFound == [found |-> FALSE, line |-> 0, start |-> 0, end |-> 0]

\* The match a forward search selects.
ForwardSearch ==
    LET pos == GetNextPosition
        hit(l) == IsLineMatching(LineText[l], IF l = pos.line THEN pos.column ELSE 0)
        hits == {l \in pos.line .. lastLine : hit(l).found}
    IN  IF hits = {} THEN NotFound
        ELSE LET l == Min(hits) IN [found |-> TRUE, line |-> l,
                                    start |-> hit(l).start, end |-> hit(l).end]

\* The match a backward search selects.
BackwardSearch ==
    LET pos == GetPreviousPosition
        hit(l) == IsLineMatchingBackward(LineText[l], IF l = pos.line THEN pos.column ELSE -1)
        hits == {l \in 0 .. QMin(pos.line, lastLine) : hit(l).found}
    IN  IF hits = {} THEN NotFound
        ELSE LET l == Max(hits) IN [found |-> TRUE, line |-> l,
                                    start |-> hit(l).start, end |-> hit(l).end]

Init == SelInit /\ PatternInit /\ lastLine \in 0 .. MaxLine

\* The user's mouse gestures: a click, a drag over a line, a drag over
\* lines, a shift-click, and a click outside the text.
UserSelects ==
    /\ \/ \E l \in Shown : SelectLine(l)
       \/ \E l \in Shown, s, e \in Columns : SelectPortion(l, s, e)
       \/ \E s, e \in Shown : SelectRange(s, e)
       \/ \E l \in Shown : SelectRangeFromPrevious(l)
       \/ ClearSelection
    /\ UNCHANGED << patternVars, lastLine >>

\* The file is truncated or grows; the view crops the selection to it.
DataChanges ==
    \E n \in (0 .. MaxLine) \ {lastLine} :
        /\ lastLine' = n
        /\ Crop(n)
        /\ UNCHANGED patternVars

TypePattern ==
    /\ \E p \in Patterns, caseless, isRegex \in BOOLEAN : ChangeSearchPattern(p, caseless, isRegex)
    /\ UNCHANGED << selectionVars, lastLine >>

\* A search that finds a match selects it; otherwise nothing changes.
Search(result) ==
    /\ result.found
    /\ SelectPortion(result.line, result.start, result.end)
    /\ UNCHANGED << patternVars, lastLine >>

SearchForward == Search(ForwardSearch)

SearchBackward == Search(BackwardSearch)

Next == UserSelects \/ DataChanges \/ TypePattern \/ SearchForward \/ SearchBackward

Spec == Init /\ [][Next]_vars

TypeOK ==
    /\ selectedLine \in Shown \cup {None}
    /\ partialLine \in Shown \cup {None}
    /\ {startColumn, endColumn} \subseteq Nat /\ startColumn <= endColumn
    /\ rangeStart \in 0 .. MaxLine \cup {None}
    /\ rangeEnd \in 0 .. MaxLine /\ firstLine \in 0 .. MaxLine
    /\ active \in BOOLEAN /\ ignoreCase \in BOOLEAN

SelectionQueriesAgreeOnLines == SelectionQueriesAgree(0 .. MaxLine)

(***************************************************************************)
(* A selection made of valid clicks stays within the data: every line      *)
(* getLines() returns exists.  crop() clamps the range but keeps its       *)
(* firstLine, from which the next shift-click extends.                     *)
(***************************************************************************)
SelectionWithinData == \A i \in DOMAIN GetLines : GetLines[i] <= lastLine

-----------------------------------------------------------------------------
\* What the view highlights: [line, start, end] with end inclusive.
Highlights ==
    UNION {{[line |-> l, start |-> h.start, end |-> h.start + h.length - 1] :
                h \in ToSet(MatchLine(LineText[l]))} : l \in Shown}

OnHighlight == partialLine # None =>
    [line |-> partialLine, start |-> startColumn, end |-> endColumn] \in Highlights

\* h lies after (before) what is selected: a line, a range, a portion, nothing.
AfterSelection(h) ==
    IF selectedLine # None THEN h.line > selectedLine
    ELSE IF rangeStart # None THEN h.line > rangeEnd
    ELSE IF partialLine # None
    THEN h.line > partialLine \/ (h.line = partialLine /\ h.start > endColumn)
    ELSE TRUE

BeforeSelection(h) ==
    IF selectedLine # None THEN h.line < selectedLine
    ELSE IF rangeStart # None THEN h.line < rangeStart
    ELSE IF partialLine # None
    THEN h.line < partialLine \/ (h.line = partialLine /\ h.end < startColumn)
    ELSE FALSE

Earlier(h, k) == h.line < k.line \/ (h.line = k.line /\ h.start < k.start)

AsFound(h) == [found |-> TRUE, line |-> h.line, start |-> h.start, end |-> h.end]

(***************************************************************************)
(* Searching forward from a selected highlight (or a line, a range, or     *)
(* nothing) selects the next highlight of the view, and finds nothing when *)
(* there is none: getNextPosition() and isLineMatching() agree with        *)
(* matchLine() on where the matches are, so the search never skips or      *)
(* repeats one, also after a crop.                                         *)
(***************************************************************************)
ForwardFindsNextHighlight ==
    OnHighlight =>
        LET after == {h \in Highlights : AfterSelection(h)}
        IN  ForwardSearch = IF after = {} THEN NotFound
                            ELSE AsFound(CHOOSE h \in after : \A k \in after \ {h} : Earlier(h, k))

(***************************************************************************)
(* The same for searching backward: from a selected highlight it selects  *)
(* the previous highlight of the view.                                     *)
(***************************************************************************)
BackwardFindsPreviousHighlight ==
    OnHighlight =>
        LET before == {h \in Highlights : BeforeSelection(h)}
        IN  BackwardSearch = IF before = {} THEN NotFound
                             ELSE AsFound(CHOOSE h \in before : \A k \in before \ {h} : Earlier(k, h))

=============================================================================
