---------------------------- MODULE LogDataWorker ----------------------------
(***************************************************************************)
(* The indexing operations of src/src/logdata/src/logdataworker.cpp:       *)
(* LogDataWorker::indexAll / indexAdditionalLines / interrupt, the         *)
(* FullIndexOperation, PartialIndexOperation and CheckFileChangesOperation *)
(* runs, and the pipeline of                                               *)
(* IndexOperation::doIndex: an IO thread (readFileInBlocks) feeding blocks *)
(* through a limiter_node of Prefetch slots and a queue_node to a serial   *)
(* function_node (indexNextBlock), then the finalisation under one         *)
(* MutateAccessor.  The file is a byte sequence a log writer appends to    *)
(* at any time, and may rotate (truncate to empty); the user may call      *)
(* interrupt() and change the fast-modification setting at any time.       *)
(***************************************************************************)
EXTENDS ParseDataBlock, ChangeChecker

CONSTANTS
    BlockSize,          \* IndexingBlockSize
    Prefetch,           \* config.indexReadBufferSizeMb(): limiter_node threshold
    FileBytes,          \* byte values the log writer appends
    MaxFileSize,        \* the writer stops at this size
    MaxOps,             \* number of indexing requests the user makes
    DetectableCodecs,   \* what EncodingDetector::detectEncoding may return
    ForcedCodecs,       \* arguments of indexAll( forcedEncoding ), NoCodec included
    LocaleCodec,        \* QTextCodec::codecForLocale()
    FastModes,          \* values config.fastModificationDetection() may have
    LineLengthMax,      \* std::numeric_limits<LineLength::UnderlyingType>::max()
    ReadErrors,         \* whether QFile::read may return a negative count
    OpenFailures,       \* whether QFile::open may fail
    Checks,             \* whether the user requests checkFileChanges
    MaxRotations,       \* the log writer truncates the file at most this often
    ThrowPoints         \* where a std::exception may be thrown: "finalize", "parser", "check"

ASSUME /\ BlockSize \in Nat \ {0}
       /\ Prefetch \in Nat \ {0}
       /\ FileBytes \subseteq 0 .. 255
       /\ MaxOps \in Nat
       /\ DetectableCodecs \subseteq Codecs /\ LocaleCodec \in Codecs
       /\ ForcedCodecs \subseteq Codecs \cup {NoCodec}
       /\ FastModes \subseteq BOOLEAN /\ FastModes # {}
       /\ ReadErrors \in BOOLEAN /\ OpenFailures \in BOOLEAN
       /\ Checks \in BOOLEAN /\ MaxRotations \in Nat
       /\ ThrowPoints \subseteq {"finalize", "parser", "check"}

VARIABLES
    file,           \* the bytes on disk
    fastConfig,     \* Configuration::fastModificationDetection()
    data,           \* the IndexingData record
    interrupt,      \* interruptRequest_
    op,             \* operation run by operationsExecuter_: "None" when idle
    forced,         \* forcedEncoding captured by indexAll's lambda
    pc,             \* where the worker thread is in run() / doIndex()
    rs,             \* the IndexingState of the current doIndex
    reader,         \* the IO thread: its loop position, file.pos() and pending block
    inFlight,       \* messages the limiter_node has let through and not yet decremented
    queue,          \* queue_node contents, in order, ahead of the serial parser
    finished,       \* indexingFinished of the last indexing operation (None until emitted)
    opsLeft,        \* requests the user may still make
    rotationsLeft,  \* rotations the log writer may still make
    ioFailed,       \* the current run met an open or read failure
    fileDisturbed,  \* since the last indexAll the file grew during a run or was rotated
    checkResult,    \* last fileCheckFinished status emitted
    checking,       \* the check's realFileSize, and the answers the file deserved since it
    worker,         \* the LogDataWorker: "alive", "destroying" (in its destructor), "destroyed"
    indexedBytes    \* ghost: the bytes the index has been built from

\* Every variable but the worker's lifetime, which only the destructor changes.
stepVars == << file, fastConfig, data, interrupt, op, forced, pc, rs, reader, inFlight,
               queue, finished, opsLeft, rotationsLeft, ioFailed, fileDisturbed, checkResult,
               checking, indexedBytes >>

vars == << stepVars, worker >>

\* The (-1, empty) block readFileInBlocks sends when it stops.
Sentinel == [begin |-> -1, bytes |-> << >>]

Min2(a, b) == IF a <= b THEN a ELSE b

\* calculateProgress (progress.h, not part of src/): pos as a clamped percentage.
CalculateProgress(pos, size) == Min2(Max2((pos * 100) \div size, 0), 100)

\* No check between its stat and its reads.
NoCheck == [size |-> 0, window |-> {}]

\* A write while a check is between its stat and its reads: the answer the
\* file now deserves joins those it deserved since the stat.
CheckSees(f) ==
    IF pc = "checkRead"
    THEN [checking EXCEPT !.window = @ \cup {IdealCheckResult(f, indexedBytes)}]
    ELSE checking

-----------------------------------------------------------------------------
Init ==
    /\ file = << >>
    /\ fastConfig \in FastModes
    /\ data = Clear([maxLength |-> 0], fastConfig)
    /\ interrupt = FALSE
    /\ op = "None"
    /\ forced = NoCodec
    /\ pc = "idle"
    /\ rs = [pos |-> 0, end |-> 0, additional_spaces |-> 0, max_length |-> 0, file_size |-> 0,
             fileTextCodec |-> NoCodec, encodingGuess |-> NoCodec,
             encodingParams |-> DefaultEncodingParameters]
    /\ reader = [pc |-> "done", pos |-> 0, pending |-> Sentinel]
    /\ inFlight = 0
    /\ queue = << >>
    /\ finished = "None"
    /\ opsLeft = MaxOps
    /\ rotationsLeft = MaxRotations
    /\ ioFailed = FALSE
    /\ fileDisturbed = FALSE
    /\ checkResult = "None"
    /\ checking = NoCheck
    /\ worker = "alive"
    /\ indexedBytes = << >>

-----------------------------------------------------------------------------
(* The user's side: requests, interrupt() and the log writer.              *)

\* Mutant: the request does not wait for the running operation.
RequestNoWait(kind, codec) ==
    /\ worker = "alive"
    /\ opsLeft > 0
    /\ interrupt' = FALSE
    /\ op' = kind
    /\ forced' = codec
    /\ pc' = "run"
    /\ opsLeft' = opsLeft - 1
    /\ ioFailed' = FALSE
    /\ fileDisturbed' = (fileDisturbed /\ kind # "FullIndex")
    /\ finished' = IF kind = "Check" THEN finished ELSE "None"
    /\ UNCHANGED << file, fastConfig, data, rs, reader, inFlight, queue, checkResult, checking,
                    rotationsLeft, indexedBytes >>

\* indexAll / indexAdditionalLines / checkFileChanges: waitForDone() waits for the running
\* operation and clears interruptRequest_, then the operation is queued.
Request(kind, codec) ==
    /\ worker = "alive"
    /\ op = "None"
    /\ opsLeft > 0
    /\ interrupt' = FALSE
    /\ op' = kind
    /\ forced' = codec
    /\ pc' = "run"
    /\ opsLeft' = opsLeft - 1
    /\ ioFailed' = FALSE
    /\ fileDisturbed' = (fileDisturbed /\ kind # "FullIndex")
    /\ finished' = IF kind = "Check" THEN finished ELSE "None"
    /\ UNCHANGED << file, fastConfig, data, rs, reader, inFlight, queue, checkResult, checking,
                    rotationsLeft, indexedBytes >>

IndexAll == \E c \in ForcedCodecs : Request("FullIndex", c)

IndexAdditionalLines == Request("PartialIndex", NoCodec)

CheckFileChanges == Checks /\ Request("Check", NoCodec)

Interrupt ==
    /\ worker = "alive"
    /\ ~interrupt
    /\ interrupt' = TRUE
    /\ UNCHANGED << file, fastConfig, data, op, forced, pc, rs, reader, inFlight, queue,
                    finished, opsLeft, rotationsLeft, ioFailed, fileDisturbed, checkResult,
                    checking, indexedBytes >>

AppendToFile ==
    /\ Len(file) < MaxFileSize
    /\ \E b \in FileBytes : file' = Append(file, b)
    /\ fileDisturbed' = (fileDisturbed \/ op \in {"FullIndex", "PartialIndex"})
    /\ checking' = CheckSees(file')
    /\ UNCHANGED << fastConfig, data, interrupt, op, forced, pc, rs, reader, inFlight, queue,
                    finished, opsLeft, rotationsLeft, ioFailed, checkResult, indexedBytes >>

\* Log rotation: the file is truncated to empty and written again.
RotateFile ==
    /\ rotationsLeft > 0
    /\ file # << >>
    /\ file' = << >>
    /\ rotationsLeft' = rotationsLeft - 1
    /\ fileDisturbed' = TRUE
    /\ checking' = CheckSees(file')
    /\ UNCHANGED << fastConfig, data, interrupt, op, forced, pc, rs, reader, inFlight, queue,
                    finished, opsLeft, ioFailed, checkResult, indexedBytes >>

\* The user changes Configuration::fastModificationDetection().
ToggleFastMode ==
    /\ \E m \in FastModes \ {fastConfig} : fastConfig' = m
    /\ UNCHANGED << file, data, interrupt, op, forced, pc, rs, reader, inFlight, queue,
                    finished, opsLeft, rotationsLeft, ioFailed, fileDisturbed, checkResult,
                    checking, indexedBytes >>

-----------------------------------------------------------------------------
(* The worker thread: run() and doIndex().                                 *)

\* doIndex with the file opened: IndexingState from the store, the IO thread
\* started at file.seek( state.pos ).
OpenAndStartGraph(initialPosition, d) ==
    /\ rs' = [pos |-> initialPosition, end |-> 0, additional_spaces |-> 0, max_length |-> 0,
              file_size |-> Len(file),
              fileTextCodec |-> IF d.encodingForced # NoCodec THEN d.encodingForced
                                ELSE d.encodingGuess,
              encodingGuess |-> d.encodingGuess,
              encodingParams |-> DefaultEncodingParameters]
    /\ reader' = [pc |-> "loop", pos |-> initialPosition, pending |-> Sentinel]
    /\ data' = d
    /\ pc' = "graph"
    /\ UNCHANGED ioFailed

\* doIndex when the file cannot be opened: an empty index.
OpenFailed(d) ==
    /\ OpenFailures
    /\ data' = SetProgress(SetEncodingGuess(Clear(d, fastConfig), LocaleCodec), 100)
    /\ pc' = "finish"
    /\ ioFailed' = TRUE
    /\ indexedBytes' = << >>
    /\ UNCHANGED << rs, reader >>

\* FullIndexOperation::run: clear, force the encoding, doIndex( 0 ).
RunFullIndex ==
    /\ pc = "run" /\ op = "FullIndex"
    /\ LET d == ForceEncoding(Clear(data, fastConfig), forced)
       IN  \/ OpenAndStartGraph(0, d)
           \/ OpenFailed(d)
    /\ indexedBytes' = << >>
    /\ UNCHANGED << file, fastConfig, interrupt, op, forced, inFlight, queue, finished,
                    opsLeft, rotationsLeft, fileDisturbed, checkResult, checking >>

\* PartialIndexOperation::run: doIndex from the indexed size.
RunPartialIndex ==
    /\ pc = "run" /\ op = "PartialIndex"
    /\ \/ OpenAndStartGraph(GetIndexedSize(data), data) /\ UNCHANGED indexedBytes
       \/ OpenFailed(data)
    /\ UNCHANGED << file, fastConfig, interrupt, op, forced, inFlight, queue, finished,
                    opsLeft, rotationsLeft, fileDisturbed, checkResult, checking >>

-----------------------------------------------------------------------------
(* The IO thread: readFileInBlocks.                                        *)

ReaderUnchanged ==
    UNCHANGED << file, fastConfig, data, op, forced, pc, rs, finished, opsLeft, rotationsLeft,
                 fileDisturbed, interrupt, checkResult, checking, indexedBytes >>

\* while ( !file.atEnd() ) { if ( interruptRequest_ ) break; ... }
ReaderLoopEnds == reader.pos >= Len(file) \/ interrupt

\* One pass of the loop body: not at end, not interrupted, read a block.
ReaderRead ==
    /\ reader.pc = "loop"
    /\ reader.pos < Len(file)
    /\ ~interrupt
    /\ LET last == Min2(reader.pos + BlockSize, Len(file))
       IN  reader' = [pc |-> "put", pos |-> last,
                      pending |-> [begin |-> reader.pos,
                                   bytes |-> SubSeq(file, reader.pos + 1, last)]]
    /\ UNCHANGED << inFlight, queue, ioFailed >>
    /\ ReaderUnchanged

\* file.read returned a negative count: "Reading past the end of file", break.
ReaderReadError ==
    /\ ReadErrors
    /\ reader.pc = "loop"
    /\ reader.pos < Len(file)
    /\ ~interrupt
    /\ reader' = [reader EXCEPT !.pc = "sentinel"]
    /\ ioFailed' = TRUE
    /\ UNCHANGED << inFlight, queue >>
    /\ ReaderUnchanged

\* The loop ends at file.atEnd() or on an interrupt request.
ReaderStop ==
    /\ reader.pc = "loop"
    /\ ReaderLoopEnds
    /\ reader' = [reader EXCEPT !.pc = "sentinel"]
    /\ UNCHANGED << inFlight, queue, ioFailed >>
    /\ ReaderUnchanged

\* Mutant: the limiter lets one message too many through.
LimiterHasSlotOffByOne == inFlight <= Prefetch

\* limiter_node: fewer than Prefetch messages passed and not decremented.
LimiterHasSlot == inFlight < Prefetch

\* gw.try_put succeeds once the limiter_node has a free slot (the thread
\* sleeps 1 ms between attempts); after the sentinel the thread releases
\* the graph's wait.
ReaderPut ==
    /\ reader.pc \in {"put", "sentinel"}
    /\ LimiterHasSlot
    /\ inFlight' = inFlight + 1
    /\ queue' = Append(queue, IF reader.pc = "put" THEN reader.pending ELSE Sentinel)
    /\ reader' = [reader EXCEPT !.pc = IF reader.pc = "put" THEN "loop" ELSE "done"]
    /\ UNCHANGED ioFailed
    /\ ReaderUnchanged

-----------------------------------------------------------------------------
(* The serial function_node: indexNextBlock, then the limiter decrement.    *)

\* guessEncoding: the detector runs once per doIndex; the effective codec is
\* the forced one, else the stored guess, else the detector's.
GuessEncoding(st, d, detected) ==
    LET guess == IF st.encodingGuess = NoCodec THEN detected ELSE st.encodingGuess
        codec == IF st.fileTextCodec # NoCodec THEN st.fileTextCodec
                 ELSE IF d.encodingForced # NoCodec THEN d.encodingForced
                 ELSE IF d.encodingGuess # NoCodec THEN d.encodingGuess
                 ELSE guess
    IN  [st EXCEPT !.encodingGuess = guess,
                   !.fileTextCodec = codec,
                   !.encodingParams = EncodingParameters(codec)]

IndexNextBlock(blk, detected) ==
    LET st == GuessEncoding(rs, data, detected)
        parsed == ParseDataBlock(blk.begin, blk.bytes, st)
        maxLength == Min2(parsed.state.max_length, LineLengthMax)
        added == AddAll(data, blk.bytes, maxLength, parsed.linePositions, FALSE,
                        st.encodingGuess)
        progress == IF st.file_size > 0
                    THEN CalculateProgress(parsed.state.pos, st.file_size) ELSE 100
    IN  IF blk.bytes # << >>
        THEN /\ rs' = parsed.state
             /\ data' = IF progress # added.progress THEN SetProgress(added, progress)
                        ELSE added
        ELSE /\ rs' = st
             /\ data' = SetEncodingGuess(data, st.encodingGuess)

ParseBlock ==
    /\ pc = "graph" /\ queue # << >>
    /\ queue' = Tail(queue)
    /\ inFlight' = inFlight - 1
    /\ IF Head(queue).begin < 0
       THEN UNCHANGED << rs, data >>
       ELSE \E detected \in DetectableCodecs : IndexNextBlock(Head(queue), detected)
    /\ indexedBytes' = indexedBytes \o Head(queue).bytes
    /\ UNCHANGED << file, fastConfig, interrupt, op, forced, pc, reader, finished, opsLeft,
                    rotationsLeft, ioFailed, fileDisturbed, checkResult, checking >>

-----------------------------------------------------------------------------
(* doIndex after indexingGraph.wait_for_all() and ioThread.join().          *)

\* Mutant: a fake LF also when the last line is terminated.
NeedsFakeFinalLFAtEnd(st) == ~interrupt /\ st.file_size >= st.pos

\* !interruptRequest_ && state.file_size > state.pos
NeedsFakeFinalLF(st) == ~interrupt /\ st.file_size > st.pos

\* A fake final LF when no interrupt is seen and the file size taken before
\* reading is past the last line start; then header and tail hashes re-read
\* from the file.
FinalizeTail ==
    /\ pc = "graph" /\ reader.pc = "done" /\ queue = << >>
    /\ LET withFake ==
               IF NeedsFakeFinalLF(rs)
               THEN AddAll(data, << >>, 0, << rs.file_size + 1 >>, TRUE, rs.encodingGuess)
               ELSE data
           endFilePos == reader.pos
           header == SubSeq(file, 1, Min2(BlockSize, Len(file)))
           withHeader == SetHeaderHash(withFake, Digest(header), Len(header))
           tailHashOffset == endFilePos - BlockSize
           tail == SubSeq(file, tailHashOffset + 1, Min2(tailHashOffset + BlockSize, Len(file)))
       IN  data' = IF endFilePos <= BlockSize
                   THEN SetTailHash(withHeader, Digest(header), 0, Len(header))
                   ELSE SetTailHash(withHeader, Digest(tail), tailHashOffset, Len(tail))
    /\ pc' = "clear"
    /\ UNCHANGED << file, fastConfig, interrupt, op, forced, rs, reader, inFlight, queue,
                    finished, opsLeft, rotationsLeft, ioFailed, fileDisturbed, checkResult,
                    checking, indexedBytes >>

\* Clear on interrupt, clear on "lines too long", default the encoding guess.
FinalizeClear ==
    /\ pc = "clear"
    /\ LET afterInterrupt == IF interrupt THEN Clear(data, fastConfig) ELSE data
           afterLength == IF afterInterrupt.maxLength = LineLengthMax
                          THEN Clear(afterInterrupt, fastConfig) ELSE afterInterrupt
       IN  /\ data' = IF afterLength.encodingGuess = NoCodec
                       THEN SetEncodingGuess(afterLength, LocaleCodec) ELSE afterLength
           /\ indexedBytes' = IF afterLength.hash.size = 0 THEN << >> ELSE indexedBytes
    /\ pc' = "finish"
    /\ UNCHANGED << file, fastConfig, interrupt, op, forced, rs, reader, inFlight, queue,
                    finished, opsLeft, rotationsLeft, ioFailed, fileDisturbed, checkResult,
                    checking >>

\* run(): result = !interruptRequest_, emit indexingFinished( result ).
Finish ==
    /\ pc = "finish"
    /\ finished' = IF interrupt THEN "Interrupted" ELSE "Successful"
    /\ op' = "None"
    /\ pc' = "idle"
    /\ UNCHANGED << file, fastConfig, data, interrupt, forced, rs, reader, inFlight, queue,
                    opsLeft, rotationsLeft, ioFailed, fileDisturbed, checkResult, checking,
                    indexedBytes >>

-----------------------------------------------------------------------------
(* CheckFileChangesOperation::run: the classification, then                *)
(* fileCheckFinished( result ).  interruptRequest_ is not consulted.       *)

\* LogDataWorker::onCheckFileFinished re-emits the operation's
\* fileCheckFinished as checkFileChangesFinished.
OnCheckFileFinished(result) == checkResult' = result

\* The answer is emitted and the operation ends.
CheckAnswers(result) ==
    /\ OnCheckFileFinished(result)
    /\ checking' = NoCheck
    /\ op' = "None"
    /\ pc' = "idle"
    /\ UNCHANGED << file, fastConfig, data, interrupt, forced, rs, reader, inFlight, queue,
                    finished, opsLeft, rotationsLeft, ioFailed, fileDisturbed, indexedBytes >>

\* QFileInfo( fileName_ ).size() and the stored hash: an empty or shorter file
\* is Truncated at once, otherwise the file is opened and read later.
CheckStat ==
    /\ pc = "run" /\ op = "Check"
    /\ IF Len(file) = 0 \/ Len(file) < data.hash.size
       THEN CheckAnswers("Truncated")
       ELSE /\ pc' = "checkRead"
            /\ checking' = [size |-> Len(file), window |-> {IdealCheckResult(file, indexedBytes)}]
            /\ UNCHANGED << file, fastConfig, data, interrupt, op, forced, rs, reader, inFlight,
                            queue, finished, opsLeft, rotationsLeft, ioFailed, fileDisturbed,
                            checkResult, indexedBytes >>

\* The digests, read from the file as it is now, with the stat'ed size and the
\* fast-modification setting of this moment.
CheckRead ==
    /\ pc = "checkRead"
    /\ CheckAnswers(DoCheckFileChanges(checking.size, file, data.hash, fastConfig, TRUE))

\* The file cannot be opened for hashing: "File failed to open".
CheckOpenFailed ==
    /\ OpenFailures
    /\ pc = "checkRead"
    /\ CheckAnswers(DoCheckFileChanges(checking.size, file, data.hash, fastConfig, FALSE))

-----------------------------------------------------------------------------
(* A std::exception out of an indexing run.                                *)

\* The catch of an indexing run: the index is cleared, false is returned and
\* no indexingFinished is emitted.
IndexRunCatch ==
    /\ data' = Clear(data, fastConfig)
    /\ indexedBytes' = << >>
    /\ op' = "None"
    /\ pc' = "idle"

(***************************************************************************)
(* After the graph has finished, the finalisation throws (addAll or a hash *)
(* buffer failing to allocate): run()'s catch clears the index and returns *)
(* false without emitting indexingFinished.                                *)
(***************************************************************************)
FinalizeThrows ==
    /\ "finalize" \in ThrowPoints
    /\ pc = "graph" /\ reader.pc = "done" /\ queue = << >>
    /\ IndexRunCatch
    /\ UNCHANGED << file, fastConfig, interrupt, forced, rs, reader, inFlight, queue,
                    finished, opsLeft, rotationsLeft, ioFailed, fileDisturbed, checkResult,
                    checking >>

(***************************************************************************)
(* indexNextBlock throws on a block of data (a bad_alloc in parseDataBlock *)
(* or addAll; on the sentinel it returns at once) before publishing it.    *)
(* The serial node has taken the block but sends no continue_msg, so the   *)
(* limiter slot it holds is never freed, and the cancelled graph runs no   *)
(* more bodies: pc "cancelled" is wait_for_all() on that graph, which      *)
(* waits for the IO thread's release_wait().                               *)
(***************************************************************************)
ParserThrows ==
    /\ "parser" \in ThrowPoints
    /\ pc = "graph" /\ queue # << >> /\ Head(queue).begin >= 0
    /\ queue' = Tail(queue)
    /\ pc' = "cancelled"
    /\ UNCHANGED << file, fastConfig, data, interrupt, op, forced, rs, reader, inFlight,
                    finished, opsLeft, rotationsLeft, ioFailed, fileDisturbed, checkResult,
                    checking, indexedBytes >>

(***************************************************************************)
(* Once the IO thread has put the sentinel and released the wait,          *)
(* wait_for_all() rethrows before ioThread.join(): unwinding doIndex       *)
(* destroys a joinable std::thread, which calls std::terminate.  Until     *)
(* then (for ever, if the limiter is full) the worker thread waits.        *)
(***************************************************************************)
ParserRethrown ==
    /\ pc = "cancelled" /\ reader.pc = "done"
    /\ pc' = "terminated"
    /\ UNCHANGED << file, fastConfig, data, interrupt, op, forced, rs, reader, inFlight, queue,
                    finished, opsLeft, rotationsLeft, ioFailed, fileDisturbed, checkResult,
                    checking, indexedBytes >>

\* Mutant: the check's catch clears the index, as the indexing ones do.
CheckThrowsClears ==
    /\ "check" \in ThrowPoints
    /\ op = "Check" /\ pc \in {"run", "checkRead"}
    /\ checking' = NoCheck
    /\ op' = "None"
    /\ pc' = "idle"
    /\ data' = Clear(data, fastConfig)
    /\ UNCHANGED << file, fastConfig, interrupt, forced, rs, reader, inFlight, queue,
                    finished, opsLeft, rotationsLeft, ioFailed, fileDisturbed, checkResult,
                    indexedBytes >>

(***************************************************************************)
(* The check throws (the hash buffer failing to allocate, say): run()'s    *)
(* catch returns Truncated to the executer, which nobody reads, and emits  *)
(* no fileCheckFinished.                                                   *)
(***************************************************************************)
CheckThrows ==
    /\ "check" \in ThrowPoints
    /\ op = "Check" /\ pc \in {"run", "checkRead"}
    /\ checking' = NoCheck
    /\ op' = "None"
    /\ pc' = "idle"
    /\ UNCHANGED << file, fastConfig, data, interrupt, forced, rs, reader, inFlight, queue,
                    finished, opsLeft, rotationsLeft, ioFailed, fileDisturbed, checkResult,
                    indexedBytes >>

-----------------------------------------------------------------------------
(* ~LogDataWorker: interruptRequest_.set(), then under mutex_ waitForDone(), *)
(* which waits for the running operation and clears the flag.              *)

DestroyBegin ==
    /\ worker = "alive"
    /\ worker' = "destroying"
    /\ interrupt' = TRUE
    /\ UNCHANGED << file, fastConfig, data, op, forced, pc, rs, reader, inFlight, queue,
                    finished, opsLeft, rotationsLeft, ioFailed, fileDisturbed, checkResult,
                    checking, indexedBytes >>

DestroyEnd ==
    /\ worker = "destroying"
    /\ op = "None"
    /\ worker' = "destroyed"
    /\ interrupt' = FALSE
    /\ UNCHANGED << file, fastConfig, data, op, forced, pc, rs, reader, inFlight, queue,
                    finished, opsLeft, rotationsLeft, ioFailed, fileDisturbed, checkResult,
                    checking, indexedBytes >>

-----------------------------------------------------------------------------
\* The steps of the process: its threads, and the user acting through it.
ProcessStep ==
    \/ IndexAll \/ IndexAdditionalLines \/ CheckFileChanges \/ Interrupt \/ ToggleFastMode
    \/ RunFullIndex \/ RunPartialIndex \/ CheckStat \/ CheckRead \/ CheckOpenFailed
    \/ ReaderRead \/ ReaderReadError \/ ReaderStop \/ ReaderPut
    \/ ParseBlock
    \/ FinalizeTail \/ FinalizeClear \/ Finish
    \/ FinalizeThrows \/ ParserThrows \/ ParserRethrown \/ CheckThrows

\* After std::terminate no thread of the process runs; the log writer, a
\* process of its own, goes on.
Next ==
    \/ /\ pc # "terminated"
       /\ \/ ProcessStep /\ UNCHANGED worker
          \/ DestroyBegin \/ DestroyEnd
    \/ (AppendToFile \/ RotateFile) /\ UNCHANGED worker

(***************************************************************************)
(* The worker thread, the IO thread and the tbb graph's serial node keep   *)
(* running while they can, and so does a destructor blocked in            *)
(* waitForDone(): weak fairness on their steps, while the process lives.   *)
(* The user and                                                            *)
(* the log writer are not obliged to do anything, and a read error is not  *)
(* obliged to happen.  The serial node's fairness is stated on its taking  *)
(* the head of the queue: only ParseBlock changes queue that way, and it   *)
(* is enabled exactly when the queue is not empty, so this is              *)
(* WF_vars(ParseBlock) without evaluating the parser to decide ENABLED.   *)
(* A cancelled graph runs no bodies, and nothing obliges the parser then.  *)
(***************************************************************************)
ParserTakesBlock == pc = "graph" /\ queue # << >> /\ queue' = Tail(queue)

\* A step of a thread of the process, which only runs while the process lives.
Live(A) == pc # "terminated" /\ A

Fairness ==
    /\ WF_stepVars(Live(RunFullIndex)) /\ WF_stepVars(Live(RunPartialIndex))
    /\ WF_stepVars(Live(CheckStat)) /\ WF_stepVars(Live(CheckRead))
    /\ WF_stepVars(Live(ReaderRead)) /\ WF_stepVars(Live(ReaderStop))
    /\ WF_stepVars(Live(ReaderPut))
    /\ WF_queue(Live(ParserTakesBlock))
    /\ WF_stepVars(Live(FinalizeTail)) /\ WF_stepVars(Live(FinalizeClear))
    /\ WF_stepVars(Live(Finish)) /\ WF_stepVars(Live(ParserRethrown))
    /\ WF_worker(Live(DestroyEnd))

Spec == Init /\ [][Next]_vars /\ Fairness

-----------------------------------------------------------------------------
(* Properties.                                                             *)

Block == [begin : -1 .. MaxFileSize, bytes : Seq(FileBytes)]

TypeOK ==
    /\ file \in Seq(FileBytes) /\ Len(file) <= MaxFileSize
    /\ fastConfig \in FastModes
    /\ data.hash.size \in 0 .. MaxFileSize
    /\ data.linePosition \in Seq(1 .. MaxFileSize + 1)
    /\ data.fakeFinalLF \in BOOLEAN
    /\ data.progress \in 0 .. 100
    /\ interrupt \in BOOLEAN
    /\ op \in {"None", "FullIndex", "PartialIndex", "Check"}
    /\ pc \in {"idle", "run", "graph", "clear", "finish", "checkRead", "cancelled",
                 "terminated"}
    /\ reader.pc \in {"loop", "put", "sentinel", "done"}
    /\ reader.pending \in Block
    /\ inFlight \in 0 .. Prefetch
    /\ queue \in Seq(Block) /\ Len(queue) <= inFlight
    /\ finished \in {"None", "Successful", "Interrupted"}
    /\ checkResult \in {"None", "Unchanged", "DataAdded", "Truncated"}
    /\ opsLeft \in 0 .. MaxOps /\ rotationsLeft \in 0 .. MaxRotations

\* Parameters of the single-byte codec the index is checked against.
LineParams == EncodingParameters(LocaleCodec)

(***************************************************************************)
(* The index always describes the bytes it has hashed: the real line       *)
(* offsets (the fake final LF left out) are exactly the offsets after the  *)
(* LFs among the first hash.size bytes of the file.  It must hold between  *)
(* any two parser steps, across blocks read ahead into the prefetch        *)
(* buffer, across partial indexing runs that start at the indexed size and *)
(* drop a fake final LF, and after interrupts and failed opens.            *)
(***************************************************************************)
IndexMatchesFile ==
    RealLineEnds(data) = RefLineEnds(SubSeq(file, 1, data.hash.size), LineParams)

(***************************************************************************)
(* maxLength never overstates: it is at most the expanded length of the   *)
(* widest line among the bytes the index has hashed, the unterminated last *)
(* line included.  Every clear (a full run, an interrupt, a failed open,   *)
(* an exception) must reset it with the lines, and the parser must not    *)
(* count a line's LF or a block's bytes twice.  (It may understate: a      *)
(* partial run measures a continued line from where the run started.)     *)
(***************************************************************************)
MaxLengthNeverOverstates ==
    data.maxLength <= RefMaxLength(SubSeq(file, 1, data.hash.size), LineParams)

\* Line offsets a correct index holds for bytes: one per LF, plus the fake
\* final LF at size + 1 when the bytes end with an unterminated line.
LinesDescribe(d, bytes) ==
    LET unterminated == bytes # << >> /\ Last(bytes) # LF
    IN  /\ d.linePosition = RefLineEnds(bytes, LineParams)
                            \o (IF unterminated THEN << Len(bytes) + 1 >> ELSE << >>)
        /\ d.fakeFinalLF = unterminated

(***************************************************************************)
(* Spec 8 (line count): after an indexing run reports Successful, having   *)
(* met no IO failure, the file not having grown while this run or an       *)
(* earlier one since the last full index was in progress, the index        *)
(* covers the file as it was when the run started (hash.size = file_size)  *)
(* and holds one line per LF plus one for an unterminated last line, whose *)
(* fake offset is file_size + 1.  An interrupt arriving too late to stop   *)
(* the reader, or a partial run continuing an unterminated line, must not  *)
(* break this.                                                             *)
(***************************************************************************)
CompleteAfterQuietRun ==
    (finished = "Successful" /\ op = "None" /\ ~ioFailed /\ ~fileDisturbed)
        => /\ data.hash.size = rs.file_size
           /\ LinesDescribe(data, SubSeq(file, 1, data.hash.size))

(***************************************************************************)
(* The same line-count statement for any successful run without IO         *)
(* failure, the file growing while it runs: the index describes the bytes *)
(* it has hashed.  doIndex decides on the fake final LF with the file size *)
(* taken before the IO thread starts, while the IO thread reads up to the  *)
(* end of file as it is when it gets there.                                *)
(***************************************************************************)
LinesMatchIndexedBytes ==
    (finished = "Successful" /\ op = "None" /\ ~ioFailed)
        => LinesDescribe(data, SubSeq(file, 1, data.hash.size))

(***************************************************************************)
(* Spec 4.7: a check that answers Unchanged or DataAdded is right: at some *)
(* instant between its stat and its reads, the file started with the      *)
(* bytes the index was built from, and the answer was the one it deserved  *)
(* then.  A rotation of the log between indexing and checking, or while   *)
(* an indexing run is finishing, must never let the viewer keep an index   *)
(* of bytes that are no longer on disk.                                    *)
(***************************************************************************)
CheckIsSound ==
    [][(CheckRead \/ CheckOpenFailed) /\ checkResult' \in {"Unchanged", "DataAdded"}
           => checkResult' \in checking.window]_vars

(***************************************************************************)
(* A check that reads the file never raises a false alarm: it answers      *)
(* Truncated (and the viewer reloads the whole file) only when, at some    *)
(* instant between its stat and its reads, the file was empty, shorter     *)
(* than the indexed bytes or no longer started with them; here for a       *)
(* non-empty index checked in the mode it was built in.                    *)
(***************************************************************************)
CheckTruncatesOnlyChangedFile ==
    [][CheckRead /\ indexedBytes # << >>
          /\ fastConfig = data.useFastModificationDetection /\ checkResult' = "Truncated"
           => "Truncated" \in checking.window]_vars

(***************************************************************************)
(* Spec 8 (a check after an append answers DataAdded, after no change      *)
(* Unchanged): once an indexing run has succeeded over a quiet file, a     *)
(* check made now, in the mode the index was built in, gives the answer    *)
(* the file deserves, however the file has grown since.  The fingerprint   *)
(* the finalisation re-reads (header and tail) and the rolling digest that *)
(* partial runs continue must both describe the bytes indexed.  (An empty  *)
(* index is left out: its fullDigest is the value-initialised one.)        *)
(***************************************************************************)
CheckAgreesAfterQuietRun ==
    (finished = "Successful" /\ op = "None" /\ ~ioFailed /\ ~fileDisturbed
        /\ indexedBytes # << >>)
        => DoCheckFileChanges(Len(file), file, data.hash, data.useFastModificationDetection,
                              TRUE)
           = IdealCheckResult(file, indexedBytes)

(***************************************************************************)
(* Spec 7.5: an exception from any stage is caught at the operation        *)
(* boundary, the store is cleared and the operation reports failure; it   *)
(* is never propagated.  So every indexing operation ends with the worker *)
(* idle again, one whose parser throws included: the serial node, the     *)
(* limiter slot of its block, the IO thread and wait_for_all() must not   *)
(* keep it waiting, and the worker thread must survive the exception.     *)
(***************************************************************************)
ExceptionsAreCaught ==
    op \in {"FullIndex", "PartialIndex"} ~> (op = "None" /\ pc = "idle")

(***************************************************************************)
(* The worker implements LogIndex: its index holds exactly the lines of    *)
(* the bytes it has parsed (the fake final LF left out), and changes only  *)
(* while an indexing operation runs, by being cleared or by publishing the *)
(* lines of the next block in file order, never during a check or between  *)
(* operations; a request starts only once the previous operation has       *)
(* ended (waitForDone); and every operation completes, unless the process  *)
(* has ended: the IO thread reaches the end of the file or an interrupt,   *)
(* the limiter never keeps it waiting forever, the serial parser drains    *)
(* the queue, and the worker emits its terminal event or its catch block   *)
(* ends the operation.                                                     *)
(***************************************************************************)
Abstract == INSTANCE LogIndex WITH
                Bytes <- FileBytes,
                LineStarts <- LAMBDA b : RefLineEnds(b, LineParams),
                indexed <- indexedBytes,
                lines <- RealLineEnds(data),
                running <- op,
                ended <- pc = "terminated",
                destroyed <- worker = "destroyed"

ImplementsLogIndex == Abstract!Spec

(***************************************************************************)
(* The steps of LogIndex only: the index only grows in file order or is   *)
(* cleared, only while an indexing operation runs, and a request waits    *)
(* for the previous operation; here also when the parser throws and the   *)
(* operation never completes.                                              *)
(***************************************************************************)
ImplementsLogIndexSafety == Abstract!SafeSpec

=============================================================================
