---------------------------- MODULE IndexingData ----------------------------
(***************************************************************************)
(* IndexingData of src/src/logdata/src/logdataworker.cpp: the index shared *)
(* between the worker and the viewers.  It is a record value; the          *)
(* operators below are its mutating accessor's methods, each returning the *)
(* updated record, so that one step of the worker can apply several of     *)
(* them under one MutateAccessor as the code does.                         *)
(*                                                                         *)
(* A digest is modelled by the bytes it was computed over (xxhash          *)
(* collisions are not modelled); NoDigest is the value-initialised digest  *)
(* of "hash_ = {}".  NoCodec is the null QTextCodec pointer.               *)
(***************************************************************************)
EXTENDS Integers, Sequences, SequencesExt

CONSTANTS
    NoDigest,       \* digest member of a default-constructed IndexedHash
    NoCodec         \* nullptr QTextCodec*

\* FileDigest::digest() after addData of bytes.
Digest(bytes) == bytes

EmptyHash ==
    [size |-> 0, fullDigest |-> NoDigest,
     headerDigest |-> NoDigest, headerSize |-> 0,
     tailDigest |-> NoDigest, tailOffset |-> 0, tailSize |-> 0]

\* Mutant: clear() forgets maxLength_.
ClearKeepsMaxLength(d, fastModificationDetection) ==
    [maxLength |-> d.maxLength,
     hash |-> EmptyHash,
     hashBuilder |-> << >>,
     linePosition |-> << >>,
     fakeFinalLF |-> FALSE,
     encodingGuess |-> NoCodec,
     encodingForced |-> NoCodec,
     progress |-> 0,
     useFastModificationDetection |-> fastModificationDetection]

(***************************************************************************)
(* IndexingData::clear(): everything reset, the fast-modification flag     *)
(* read again from the configuration.                                      *)
(***************************************************************************)
Clear(d, fastModificationDetection) ==
    [maxLength |-> 0,
     hash |-> EmptyHash,
     hashBuilder |-> << >>,
     linePosition |-> << >>,
     fakeFinalLF |-> FALSE,
     encodingGuess |-> NoCodec,
     encodingForced |-> NoCodec,
     progress |-> 0,
     useFastModificationDetection |-> fastModificationDetection]

(***************************************************************************)
(* LinePositionArray::append_list (linepositionarray.h, not part of src/): *)
(* a fake final LF of the array is dropped before the new positions are    *)
(* appended, and the flag is taken from the appended list.                 *)
(***************************************************************************)
AppendList(d, positions, fakeFinalLF) ==
    [d EXCEPT !.linePosition = (IF d.fakeFinalLF THEN Front(@) ELSE @) \o positions,
              !.fakeFinalLF = fakeFinalLF]

\* Mutant: the hashed size only grows when the full digest is built.
AddAllSizeWithDigest(d, block, length, positions, fakeFinalLF, encoding) ==
    LET withLines == AppendList(d, positions, fakeFinalLF)
        hashes == block # << >> /\ ~d.useFastModificationDetection
    IN  [withLines EXCEPT
            !.maxLength = IF length > @ THEN length ELSE @,
            !.hash.size = IF hashes THEN @ + Len(block) ELSE @,
            !.hashBuilder = IF hashes THEN @ \o block ELSE @,
            !.hash.fullDigest = IF hashes THEN Digest(d.hashBuilder \o block) ELSE @,
            !.encodingGuess = encoding]

\* Mutant: the full digest is taken of the block alone, not continued.
AddAllDigestsBlock(d, block, length, positions, fakeFinalLF, encoding) ==
    LET withLines == AppendList(d, positions, fakeFinalLF)
        hashes == block # << >> /\ ~d.useFastModificationDetection
    IN  [withLines EXCEPT
            !.maxLength = IF length > @ THEN length ELSE @,
            !.hash.size = IF block # << >> THEN @ + Len(block) ELSE @,
            !.hashBuilder = IF hashes THEN @ \o block ELSE @,
            !.hash.fullDigest = IF hashes THEN Digest(block) ELSE @,
            !.encodingGuess = encoding]

(***************************************************************************)
(* IndexingData::addAll: the block's bytes extend the hashed size and, out *)
(* of fast mode, the rolling digest.                                       *)
(***************************************************************************)
AddAll(d, block, length, positions, fakeFinalLF, encoding) ==
    LET withLines == AppendList(d, positions, fakeFinalLF)
        hashes == block # << >> /\ ~d.useFastModificationDetection
    IN  [withLines EXCEPT
            !.maxLength = IF length > @ THEN length ELSE @,
            !.hash.size = IF block # << >> THEN @ + Len(block) ELSE @,
            !.hashBuilder = IF hashes THEN @ \o block ELSE @,
            !.hash.fullDigest = IF hashes THEN Digest(d.hashBuilder \o block) ELSE @,
            !.encodingGuess = encoding]

\* setHeaderHash and setTailHash (logdata.h, not part of src/).
SetHeaderHash(d, digest, size) ==
    [d EXCEPT !.hash.headerDigest = digest, !.hash.headerSize = size]

SetTailHash(d, digest, offset, size) ==
    [d EXCEPT !.hash.tailDigest = digest, !.hash.tailOffset = offset, !.hash.tailSize = size]

\* getIndexedSize(): the number of bytes hashed so far.
GetIndexedSize(d) == d.hash.size

SetEncodingGuess(d, codec) == [d EXCEPT !.encodingGuess = codec]

ForceEncoding(d, codec) == [d EXCEPT !.encodingForced = codec]

SetProgress(d, progress) == [d EXCEPT !.progress = progress]

\* The line offsets that end real lines: the fake final LF left out.
RealLineEnds(d) == IF d.fakeFinalLF THEN Front(d.linePosition) ELSE d.linePosition

=============================================================================
