--------------------------- MODULE QuickFindPattern ---------------------------
(***************************************************************************)
(* QuickFindPattern and QuickFindMatcher of                                *)
(* src/src/ui/src/quickfindpattern.cpp: the pattern of the quick-find bar, *)
(* the highlights it gives a line (matchLine), and the forward and         *)
(* backward searches of one line (isLineMatching, isLineMatchingBackward). *)
(*                                                                         *)
(* QRegularExpression is outside the repository.  It is modelled for a     *)
(* small language: a pattern is a sequence of one-character tokens; "."    *)
(* matches any character, "(" alone is a syntax error, a backslash-escaped *)
(* token matches itself.  Case is folded for "A" only.  Matching is        *)
(* leftmost, and globalMatch resumes at the end of each match.             *)
(***************************************************************************)
EXTENDS Naturals, SequencesExt

CONSTANT QuickfindRegexpType    \* Configuration::get().quickfindRegexpType()

VARIABLES
    pattern,        \* pattern_ (as set on regexp_)
    ignoreCase,     \* regexp_'s CaseInsensitiveOption
    active          \* active_

patternVars == << pattern, ignoreCase, active >>

-----------------------------------------------------------------------------
(* The regular-expression engine.                                          *)

Escaped(c) == "\\" \o c

\* QRegularExpression::escape: every character but a letter is escaped.
Escape(p) == [i \in DOMAIN p |-> IF p[i] \in {"a", "b", "A"} THEN p[i] ELSE Escaped(p[i])]

IsValidPattern(p) == "(" \notin ToSet(p)

Fold(c, caseless) == IF caseless /\ c = "A" THEN "a" ELSE c

TokenMatches(tok, c, caseless) ==
    CASE tok = "."            -> TRUE
      [] tok = Escaped(".")   -> c = "."
      [] tok = Escaped("(")   -> c = "("
      [] OTHER                -> Fold(tok, caseless) = Fold(c, caseless)

MatchesAt(line, i, p, caseless) ==
    /\ i + Len(p) <= Len(line)
    /\ \A k \in 1 .. Len(p) : TokenMatches(p[k], line[i + k], caseless)

NoMatch == [found |-> FALSE, start |-> 0, end |-> 0]

\* regexp.match( line, offset ): the leftmost match starting at offset or
\* later; end is capturedEnd(), one past the last character.
FirstMatchFrom(line, offset, p, caseless) ==
    LET starts == {i \in offset .. Len(line) : MatchesAt(line, i, p, caseless)}
    IN  IF starts = {} THEN NoMatch
        ELSE LET s == Min(starts) IN [found |-> TRUE, start |-> s, end |-> s + Len(p)]

\* regexp.globalMatch( line ) for a non-empty pattern.
RECURSIVE GlobalMatchFrom(_, _, _, _)
GlobalMatchFrom(line, offset, p, caseless) ==
    LET m == FirstMatchFrom(line, offset, p, caseless)
    IN  IF m.found THEN << m >> \o GlobalMatchFrom(line, m.end, p, caseless) ELSE << >>

GlobalMatch(line) == GlobalMatchFrom(line, 0, pattern, ignoreCase)

-----------------------------------------------------------------------------
(* QuickFindMatcher: getMatcher() copies active_ and regexp_; each search  *)
(* returns whether it matched and the match getLastMatch() then reports,   *)
(* its end column inclusive.                                               *)

Found(m) == [found |-> TRUE, start |-> m.start, end |-> m.end - 1]

IsLineMatching(line, column) ==
    IF ~active THEN NoMatch
    ELSE LET m == FirstMatchFrom(line, column, pattern, ignoreCase)
         IN  IF m.found THEN Found(m) ELSE NoMatch

(***************************************************************************)
(* isLineMatchingBackward: walk the line's global matches, stopping at the *)
(* first whose capturedEnd() reaches column (column -1: the whole line);   *)
(* the last match walked over is the result.                               *)
(***************************************************************************)
IsLineMatchingBackward(line, column) ==
    IF ~active THEN NoMatch
    ELSE LET matches == GlobalMatch(line)
             stops == {i \in DOMAIN matches : column >= 0 /\ matches[i].end >= column}
             walked == IF stops = {} THEN Len(matches) ELSE Min(stops) - 1
         IN  IF walked = 0 THEN NoMatch ELSE Found(matches[walked])

\* matchLine: the highlights, one per global match; empty when not active.
MatchLine(line) ==
    IF ~active THEN << >>
    ELSE [i \in DOMAIN GlobalMatch(line) |->
              [start |-> GlobalMatch(line)[i].start,
               length |-> GlobalMatch(line)[i].end - GlobalMatch(line)[i].start]]

-----------------------------------------------------------------------------
(* Changing the pattern.                                                   *)

PatternInit == pattern = << >> /\ ignoreCase = FALSE /\ active = FALSE

\* changeSearchPattern( pattern, isRegex ): escaped unless it is a regular
\* expression (ExtendedRegexp only), active when valid and not empty.
ChangeSearchPatternKeepOptions(newPattern, isRegex) ==
    LET p == IF QuickfindRegexpType = "ExtendedRegexp" /\ ~isRegex
             THEN Escape(newPattern) ELSE newPattern
    IN  /\ pattern' = p
        /\ active' = (IsValidPattern(p) /\ p # << >>)

\* changeSearchPattern( pattern, ignoreCase, isRegex ): options, then the above.
ChangeSearchPattern(newPattern, caseless, isRegex) ==
    /\ ignoreCase' = caseless
    /\ ChangeSearchPatternKeepOptions(newPattern, isRegex)

=============================================================================
