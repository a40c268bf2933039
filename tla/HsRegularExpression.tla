------------------------- MODULE HsRegularExpression -------------------------
(***************************************************************************)
(* HsRegularExpression of src/src/regex/src/hsregularexpression.cpp: a set *)
(* of patterns compiled into one Hyperscan database, the fallback to       *)
(* QRegularExpression when that fails, createMatcher(), and the matchers'  *)
(* match(): reset the context, hs_scan with a match callback, move the     *)
(* per-pattern flags out.                                                  *)
(*                                                                         *)
(* Hyperscan and QRegularExpression are outside the repository.  A pattern *)
(* is a model value; whether Hyperscan compiles it, whether Qt accepts it  *)
(* and Qt's error string are constants.  A scan is the sequence of pattern *)
(* ids Hyperscan reports (each once: HS_FLAG_SINGLEMATCH).  hs_scan with   *)
(* a null scratch reports nothing (it returns HS_INVALID, which is not     *)
(* looked at).  A vector is a function from ids 0 .. n-1; a moved-from one *)
(* is empty.                                                               *)
(***************************************************************************)
EXTENDS Naturals, SequencesExt

CONSTANTS
    PatternLists,       \* the pattern vectors the constructor may be given
    HsCompiles(_),      \* hs_compile_multi accepts the pattern
    QtValid(_),         \* QRegularExpression( pattern ).isValid()
    QtError(_),         \* QRegularExpression( pattern ).errorString()
    NoError,            \* the default errorMessage_
    ScratchFailures,    \* hs_alloc_scratch may fail
    CloneFailures       \* hs_clone_scratch may fail

VARIABLES
    patterns,           \* patterns_
    database,           \* database_ != nullptr
    scratch,            \* scratch_ != nullptr
    isValid,            \* isValid_
    errorMessage,       \* errorMessage_
    matcher,            \* the MatcherVariant createMatcher() returned
    context,            \* the matcher's HsMatcherContext::matchingPatterns
    result,             \* the MatchedPatterns the last match() returned, or NoResult
    scanned             \* the ids the last scanned text matches (what a match should report)

vars == << patterns, database, scratch, isValid, errorMessage, matcher, context, result,
           scanned >>

Ids == 0 .. Len(patterns) - 1

\* A std::vector<unsigned char>( n, 0 ).
Template(n) == [i \in 0 .. n - 1 |-> FALSE]

\* HsMatcherContext::reset: matchingPatterns is overwritten with the template,
\* whatever the previous match left in it (after the move, an empty vector).
ContextReset(ctx, n) == Template(n)

\* No match() yet on the current matcher.
NoResult == [returned |-> FALSE]

Returned(flags) == [returned |-> TRUE, flags |-> flags]

NoMatcher == [kind |-> "None", scratch |-> FALSE, size |-> 0]

IsHsValid == database /\ scratch

-----------------------------------------------------------------------------
(* The constructor.                                                        *)

\* Mutant: the reduction keeps the later of two errors.
ValidationStepLast(acc, next) == IF next.first THEN acc ELSE next

\* transform_reduce's reduction: the first pattern Qt rejects wins.
ValidationStep(acc, next) == IF acc.first THEN next ELSE acc

\* Each pattern transformed to ( regex.isValid(), regex.errorString() ),
\* reduced from ( true, "" ) in order (libstdc++'s sequential reduction).
Validation(ps) ==
    FoldLeft(ValidationStep, [first |-> TRUE, second |-> NoError],
             [i \in DOMAIN ps |-> [first |-> QtValid(ps[i]), second |-> QtError(ps[i])]])

(***************************************************************************)
(* HsRegularExpression( patterns ): hs_compile_multi succeeds when every   *)
(* pattern compiles; a scratch is allocated for a database; when either is *)
(* missing, validity and the error are Qt's.  Otherwise isValid_ keeps its *)
(* initialiser (true) and errorMessage_ stays empty.                       *)
(***************************************************************************)
Construct ==
    \E ps \in PatternLists, scratchOk \in IF ScratchFailures THEN BOOLEAN ELSE {TRUE} :
        LET db == \A i \in DOMAIN ps : HsCompiles(ps[i])
            hsValid == db /\ scratchOk
        IN  /\ patterns' = ps
            /\ database' = db
            /\ scratch' = hsValid
            /\ isValid' = IF hsValid THEN TRUE ELSE Validation(ps).first
            /\ errorMessage' = IF hsValid THEN NoError ELSE Validation(ps).second
            /\ matcher' = NoMatcher
            /\ context' = << >>
            /\ result' = NoResult
            /\ scanned' = {}

-----------------------------------------------------------------------------
(* createMatcher().                                                        *)

(***************************************************************************)
(* Without a usable database, Qt's matcher over the patterns.  Otherwise a *)
(* clone of the prototype scratch (null when hs_clone_scratch fails); the *)
(* null check is made on database_ and the prototype scratch_, then a      *)
(* single or a multi matcher takes the clone.                              *)
(***************************************************************************)
CreateMatcher ==
    /\ patterns # << >>
    /\ \E cloneOk \in IF CloneFailures THEN BOOLEAN ELSE {TRUE} :
         /\ matcher' =
              IF ~IsHsValid THEN [kind |-> "Default", scratch |-> FALSE, size |-> Len(patterns)]
              ELSE IF ~database \/ ~scratch THEN [kind |-> "Noop", scratch |-> FALSE, size |-> 0]
              ELSE IF Len(patterns) = 1 THEN [kind |-> "Single", scratch |-> cloneOk, size |-> 1]
              ELSE [kind |-> "Multi", scratch |-> cloneOk, size |-> Len(patterns)]
         /\ context' = Template(IF IsHsValid THEN Len(patterns) ELSE 0)
    /\ result' = NoResult
    /\ scanned' = {}
    /\ UNCHANGED << patterns, database, scratch, isValid, errorMessage >>

-----------------------------------------------------------------------------
(* match( utf8Data ).                                                      *)

\* matchSingleCallback: flag the one pattern, return 1 (stop scanning).
MatchSingleCallback(id, ctx) == [ctx |-> [ctx EXCEPT ![0] = TRUE], stop |-> 1]

\* Mutant: the multi-pattern callback also stops at the first match.
MatchMultiCallbackStops(id, ctx) == [ctx |-> [ctx EXCEPT ![id] = TRUE], stop |-> 1]

\* matchMultiCallback: flag pattern id, return 0 (continue).
MatchMultiCallback(id, ctx) == [ctx |-> [ctx EXCEPT ![id] = TRUE], stop |-> 0]

\* hs_scan: the callback for each reported id until it returns non-zero.
RECURSIVE HsScan(_, _, _)
HsScan(events, ctx, single) ==
    IF events = << >> THEN ctx
    ELSE LET r == IF single THEN MatchSingleCallback(Head(events), ctx)
                  ELSE MatchMultiCallback(Head(events), ctx)
         IN  IF r.stop # 0 THEN r.ctx ELSE HsScan(Tail(events), r.ctx, single)

\* The orders in which Hyperscan may report the ids of a set.
Orders(S) == {s \in [1 .. Cardinality(S) -> S] : ToSet(s) = S}

(***************************************************************************)
(* HsSingleMatcher / HsMultiMatcher::match: context_.reset() from the      *)
(* template, hs_scan (nothing reported without a scratch), then            *)
(* std::move( context_.matchingPatterns ), leaving it empty.  The Noop     *)
(* matcher returns an empty vector; Qt's matcher (outside src/) reports    *)
(* each pattern that matches.                                              *)
(***************************************************************************)
Match ==
    /\ matcher.kind # "None"
    /\ \E matching \in SUBSET (0 .. matcher.size - 1) :
         /\ scanned' = matching
         /\ CASE matcher.kind \in {"Single", "Multi"} ->
                   \E events \in Orders(matching) :
                       LET reset == ContextReset(context, matcher.size)
                       IN  /\ result' = Returned(IF matcher.scratch
                                        THEN HsScan(events, reset, matcher.kind = "Single")
                                        ELSE reset)
                           /\ context' = << >>
              [] matcher.kind = "Noop" -> result' = Returned(<< >>) /\ UNCHANGED context
              [] OTHER -> result' = Returned([i \in 0 .. matcher.size - 1 |-> i \in matching])
                          /\ UNCHANGED context
    /\ UNCHANGED << patterns, database, scratch, isValid, errorMessage, matcher >>

Init ==
    /\ patterns = << >> /\ database = FALSE /\ scratch = FALSE
    /\ isValid = TRUE /\ errorMessage = NoError
    /\ matcher = NoMatcher /\ context = << >> /\ result = NoResult /\ scanned = {}

Next == Construct \/ CreateMatcher \/ Match

Spec == Init /\ [][Next]_vars

-----------------------------------------------------------------------------
(* Properties.                                                             *)

TypeOK ==
    /\ patterns \in PatternLists \cup {<< >>}
    /\ {database, scratch, isValid} \subseteq BOOLEAN
    /\ matcher.kind \in {"None", "Default", "Noop", "Single", "Multi"}
    /\ scanned \subseteq Ids

(***************************************************************************)
(* Whatever matcher createMatcher() returned, match() reports exactly the  *)
(* patterns the text matches, one flag per pattern: for a single pattern   *)
(* the first report stops the scan, for several every report must be      *)
(* recorded, and a second match() must not see the first's flags.         *)
(***************************************************************************)
MatchIsExact ==
    result # NoResult => result.flags = [i \in 0 .. matcher.size - 1 |-> i \in scanned]

(***************************************************************************)
(* When Hyperscan cannot be used, isValid() says whether every pattern is  *)
(* a valid QRegularExpression, and errorString() is the error of the first *)
(* one that is not.                                                        *)
(***************************************************************************)
FallbackReportsFirstError ==
    (patterns # << >> /\ ~IsHsValid) =>
        LET bad == {i \in DOMAIN patterns : ~QtValid(patterns[i])}
        IN  /\ isValid = (bad = {})
            /\ bad # {} => errorMessage = QtError(patterns[Min(bad)])

=============================================================================
