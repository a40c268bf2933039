------------------------ MODULE MCHsRegularExpression ------------------------
(***************************************************************************)
(* Patterns for HsRegularExpression: Good compiles everywhere, Unsupported *)
(* is valid for Qt but not for Hyperscan (a back-reference, say), BadOne   *)
(* and BadTwo are rejected by both, each with its own error.              *)
(***************************************************************************)
EXTENDS HsRegularExpression

CONSTANTS Good, Unsupported, BadOne, BadTwo

MCHsCompiles(p) == p = Good
MCQtValid(p) == p \in {Good, Unsupported}
MCQtError(p) == CASE p = BadOne -> "missing )"
                  [] p = BadTwo -> "nothing to repeat"
                  [] OTHER -> "no error"

\* Every list of one to three patterns, and two lists of four.
MCPatternLists ==
    UNION {[1 .. n -> {Good, Unsupported, BadOne, BadTwo}] : n \in 1 .. 3}
        \cup {<< Good, Good, Good, Good >>, << BadTwo, Good, BadOne, Unsupported >>}

=============================================================================
