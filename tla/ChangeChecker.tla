---------------------------- MODULE ChangeChecker ----------------------------
(***************************************************************************)
(* CheckFileChangesOperation::doCheckFileChanges of                        *)
(* src/src/logdata/src/logdataworker.cpp: the classification of the file   *)
(* on disk against the IndexedHash fingerprint stored by the last indexing *)
(* run.  The file size is taken first (QFileInfo::size), the digests are   *)
(* read later, from the file as it is then.                                *)
(***************************************************************************)
EXTENDS IndexingData

\* getDigest( indexedSize ) after file.seek( offset ): reads in buffer-sized
\* chunks until indexedSize bytes are hashed or a read returns nothing.
GetDigest(bytes, offset, indexedSize) ==
    LET last == IF offset + indexedSize < Len(bytes) THEN offset + indexedSize ELSE Len(bytes)
    IN  Digest(IF offset < last THEN SubSeq(bytes, offset + 1, last) ELSE << >>)

(***************************************************************************)
(* Fast mode compares the header, then (only if it matched) the tail;     *)
(* otherwise the digest of the first size bytes is compared with           *)
(* fullDigest.  The mode is the configuration's at the time of the check.  *)
(***************************************************************************)
IsFileModified(bytes, h, fast) ==
    IF fast
    THEN \/ GetDigest(bytes, 0, h.headerSize) # h.headerDigest
         \/ GetDigest(bytes, h.tailOffset, h.tailSize) # h.tailDigest
    ELSE GetDigest(bytes, 0, h.size) # h.fullDigest

\* Mutant: a file as long as the indexed size is taken as truncated.
DoCheckFileChangesLe(realFileSize, bytes, h, fast, opened) ==
    IF realFileSize = 0 \/ realFileSize <= h.size \/ ~opened THEN "Truncated"
    ELSE IF IsFileModified(bytes, h, fast) THEN "Truncated"
    ELSE IF realFileSize > h.size THEN "DataAdded"
    ELSE "Unchanged"

(***************************************************************************)
(* The result, for realFileSize taken before bytes are read: an empty or    *)
(* shorter file, a failed open, or a digest mismatch is Truncated;         *)
(* otherwise a longer file is DataAdded and an equal one Unchanged.        *)
(***************************************************************************)
DoCheckFileChanges(realFileSize, bytes, h, fast, opened) ==
    IF realFileSize = 0 \/ realFileSize < h.size \/ ~opened THEN "Truncated"
    ELSE IF IsFileModified(bytes, h, fast) THEN "Truncated"
    ELSE IF realFileSize > h.size THEN "DataAdded"
    ELSE "Unchanged"

(***************************************************************************)
(* What the check should answer (spec 4.7 applied to the bytes the index   *)
(* really describes): Truncated when the file is empty, shorter, or no     *)
(* longer starts with the indexed bytes; DataAdded when it extends them;   *)
(* Unchanged when it equals them.                                          *)
(***************************************************************************)
IdealCheckResult(bytes, indexedBytes) ==
    IF Len(bytes) = 0 \/ Len(bytes) < Len(indexedBytes)
       \/ SubSeq(bytes, 1, Len(indexedBytes)) # indexedBytes
    THEN "Truncated"
    ELSE IF Len(bytes) > Len(indexedBytes) THEN "DataAdded"
    ELSE "Unchanged"

=============================================================================
