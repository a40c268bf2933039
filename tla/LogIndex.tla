------------------------------ MODULE LogIndex ------------------------------
(***************************************************************************)
(* What the indexing worker promises the viewers of the index (spec 3      *)
(* Lifecycle, 4.8 Worker, 5 Ordering, 6 Observable events), with no        *)
(* threads, blocks or hashes.  One operation runs at a time.  While an     *)
(* indexing operation runs, the index describes a byte sequence that only  *)
(* grows, block after block in file order, or is cleared; a check never    *)
(* changes it.  Each operation ends, with its terminal event or, when it   *)
(* fails with an exception, without one, unless the process ends.  Once   *)
(* the worker is destroyed (between operations) nothing starts.            *)
(***************************************************************************)
EXTENDS Sequences, SequencesExt

CONSTANTS
    Bytes,              \* the byte values a file holds
    LineStarts(_)       \* the line offsets an index of these bytes holds

VARIABLES
    indexed,            \* the bytes the index describes
    lines,              \* the line offsets it holds (a fake final LF left out)
    running,            \* the operation in progress, "None" when idle
    finished,           \* the last indexingFinished result, "None" if none since the request
    checkResult,        \* the last fileCheckFinished result
    ended,              \* the process has ended
    destroyed           \* the worker has been destroyed

vars == << indexed, lines, running, finished, checkResult, ended, destroyed >>

Indexing == {"FullIndex", "PartialIndex"}

Init ==
    /\ indexed = << >> /\ lines = << >>
    /\ running = "None" /\ finished = "None" /\ checkResult = "None"
    /\ ended = FALSE /\ destroyed = FALSE

\* A request runs once the previous operation has finished.
Start(kind) ==
    /\ running = "None" /\ ~ended /\ ~destroyed
    /\ running' = kind
    /\ finished' = IF kind = "Check" THEN finished ELSE "None"
    /\ UNCHANGED << indexed, lines, checkResult, ended, destroyed >>

\* The index is emptied: a full index starts, the file cannot be read, an
\* interrupt or an over-long line.
Reset ==
    /\ running \in Indexing /\ ~ended
    /\ indexed' = << >> /\ lines' = << >>
    /\ UNCHANGED << running, finished, checkResult, ended, destroyed >>

\* The lines of more bytes are published at once, after those indexed.
Extend ==
    /\ running \in Indexing /\ ~ended
    /\ indexed' \in Seq(Bytes) /\ IsStrictPrefix(indexed, indexed')
    /\ lines' = LineStarts(indexed')
    /\ UNCHANGED << running, finished, checkResult, ended, destroyed >>

\* An indexing operation emits indexingFinished and ends.
Finish ==
    /\ running \in Indexing /\ ~ended
    /\ finished' \in {"Successful", "Interrupted"}
    /\ running' = "None"
    /\ UNCHANGED << indexed, lines, checkResult, ended, destroyed >>

\* An operation fails with an exception and ends with no event; a failed
\* indexing operation leaves the index empty.
Abort ==
    /\ running # "None" /\ ~ended
    /\ IF running \in Indexing THEN indexed' = << >> /\ lines' = << >>
       ELSE UNCHANGED << indexed, lines >>
    /\ running' = "None"
    /\ UNCHANGED << finished, checkResult, ended, destroyed >>

\* A check emits fileCheckFinished and ends; the index is left alone.
Answer ==
    /\ running = "Check" /\ ~ended
    /\ checkResult' \in {"Unchanged", "DataAdded", "Truncated"}
    /\ running' = "None"
    /\ UNCHANGED << indexed, lines, finished, ended, destroyed >>

\* The process ends during an indexing operation.
End ==
    /\ running \in Indexing /\ ~ended
    /\ ended' = TRUE
    /\ UNCHANGED << indexed, lines, running, finished, checkResult, destroyed >>

\* The worker is destroyed once no operation runs.
Destroy ==
    /\ running = "None" /\ ~ended /\ ~destroyed
    /\ destroyed' = TRUE
    /\ UNCHANGED << indexed, lines, running, finished, checkResult, ended >>

\* Any step that ends the running operation.
Complete == Finish \/ Abort \/ Answer

Next ==
    \/ \E kind \in Indexing \cup {"Check"} : Start(kind)
    \/ Reset \/ Extend \/ Complete \/ End \/ Destroy

\* What may happen: the steps above and no others.
SafeSpec == Init /\ [][Next]_vars

\* The operation in progress is not left waiting: it completes unless the
\* process ends.
Spec == SafeSpec /\ WF_vars(Complete)

=============================================================================
