--------------------------- MODULE MCLogDataWorker ---------------------------
(***************************************************************************)
(* Model values and small bounds for LogDataWorker.                        *)
(***************************************************************************)
EXTENDS LogDataWorker

\* A log of bytes 'A' and LF, read in blocks of two bytes.
MCFileBytes == {65, LF}

=============================================================================
