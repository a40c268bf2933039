# TLA+ models of klogg

This directory holds TLA+ models of klogg and the TLC configurations that
check them. The main subject is the log indexing engine
(`src/src/logdata/src/logdataworker.cpp`). The project also models three
smaller parts: the log view's selection and quick-find pattern
(`src/src/ui/src/selection.cpp`, `quickfindpattern.cpp`), and the
Hyperscan-backed regular expression (`src/src/regex/src/hsregularexpression.cpp`).
`PROJECT.json` lists every component, run, mutant, finding and hazard, and
maps each definition to the source lines it models.

## The system

Three threads take part in an indexing run:

* **Caller and worker.** `LogDataWorker::indexAll`, `indexAdditionalLines`
  and `checkFileChanges` each first wait for the running operation
  (`waitForDone`, which also clears `interruptRequest_`). They then queue
  one operation on the worker thread: `FullIndexOperation`,
  `PartialIndexOperation` or `CheckFileChangesOperation`. `interrupt()`
  sets the interrupt flag at any time.
* **The pipeline** (`IndexOperation::doIndex`). An IO thread
  (`readFileInBlocks`) reads blocks of `IndexingBlockSize` bytes from the
  current position to end of file. It stops early on an interrupt or a
  read error, and always sends a `(-1, empty)` sentinel. Blocks pass
  through a `limiter_node` of `indexReadBufferSizeMb` slots and a
  `queue_node` to a serial `function_node`. That node parses each block
  (`indexNextBlock` → `parseDataBlock`) and appends the line offsets to
  the shared `IndexingData`. After `wait_for_all` and the join, doIndex:
  * adds a fake final LF if the last line has no terminator;
  * re-reads the header and tail hashes from the file;
  * clears the index on an interrupt or an over-long line.

  Each operation's `run()` catches exceptions from doIndex and clears the
  index.
* **The parser** (`parse_data_block`). It finds line feeds with a
  single-byte or a multi-byte scanner (UTF-16/32, checking the NUL
  companion bytes). It expands tabs to compute the widest line. It carries
  `additional_spaces` of a line across block boundaries.
* **The change check** (`doCheckFileChanges`). It stats the file, then
  reads it and compares it with the stored fingerprint (`IndexedHash`):
  the full digest, or the header and tail digests in fast mode. It
  answers Unchanged, DataAdded or Truncated.

The log view, on the UI thread, keeps a `Selection`: a line, a portion of
one line, or a range of lines. It crops the selection when the data
shrinks. Its quick-find bar holds a `QuickFindPattern`. The view
highlights the pattern's matches (`matchLine`), and a search starts from
the selection's `getNextPosition` / `getPreviousPosition`, then selects
the match `isLineMatching` / `isLineMatchingBackward` finds. Filtering
uses `HsRegularExpression`, which compiles a set of patterns into one
Hyperscan database and falls back to `QRegularExpression` when that fails.
Its `createMatcher()` gives each searching thread a matcher with a cloned
scratch.

## Modules

| Module | Models | State / actions |
|---|---|---|
| `ParseDataBlock` | `parse_data_block::*`, `IndexOperation::parseDataBlock` | Pure operators: `FindNextSingleByteDelimeter`, `IsNotDelimeter`, `FindNextMultiByteDelimeter`, `CharOffsetWithinBlock`, `ExpandTabsInLine` (RECURSIVE), `FindNextLineFeed`, `ParseLoop` (RECURSIVE, the `while ( !isEndOfBlock )` loop). Also the reference definitions `RefLineEnds` and `RefMaxLength`, taken from the spec's data model. |
| `IndexingData` | `IndexingData` | The index as a record; `Clear`, `AddAll` and the setters. `AppendList` is modelled from the spec. It is the fake final LF popped by `LinePositionArray::append_list`. |
| `ChangeChecker` | `doCheckFileChanges` | `GetDigest`, `IsFileModified` (fast and full mode), `DoCheckFileChanges`. `IdealCheckResult` is spec 4.7 applied to the bytes actually indexed. |
| `LogIndex` | what the worker promises (spec 3, 4.8, 5, 6) | The abstract index: the bytes it describes, their line starts, the running operation, the last terminal events, and whether the process has ended or the worker has been destroyed. `Start`, `Reset`, `Extend` (the lines of a longer prefix of bytes), `Finish`, `Abort` (an exception: no event), `Answer`, `End`, `Destroy`. Weak fairness on completing the running operation. |
| `LogDataWorker` | the worker, the three operations, the pipeline, `run()`'s catch, the destructor | Variables: the file; the index; the interrupt flag; the running operation and the worker's `pc`; the `IndexingState` (`rs`); the IO thread (`reader`); the limiter count (`inFlight`); the queue; the emitted results; the worker object's life (`worker`). There is one action per request, per thread step and per finalisation step. The check is two steps: `CheckStat` (the size) and `CheckRead` / `CheckOpenFailed` (the reads). An exception is `FinalizeThrows` (caught in `run()` by `IndexRunCatch`), `ParserThrows` (the block keeps its limiter slot and the cancelled graph parses no more; `ParserRethrown` is `wait_for_all` rethrowing into `std::terminate` once the IO thread has put the sentinel) or `CheckThrows` (caught, no `fileCheckFinished`). The destructor is `DestroyBegin` (set the interrupt, take `mutex_`) and `DestroyEnd` (`waitForDone` returns). `ImplementsLogIndex` maps it onto `LogIndex`. |
| `Selection` | `Selection` | The three optionals as variables. `SelectLine`, `SelectPortion`, `SelectRange`, `SelectRangeFromPrevious`, `ClearSelection` and `Crop` are actions. The const queries are operators: `IsLineSelected`, `IsPortionSelected`, `GetPortionForLine`, `GetLines`, `GetSelectedText`, `GetNextPosition`, `GetPreviousPosition`. |
| `QuickFindPattern` | `QuickFindPattern`, `QuickFindMatcher` | `ChangeSearchPattern` (escaping, activation); `MatchLine`, `IsLineMatching`, `IsLineMatchingBackward` over a small regular-expression language (`.`, an invalid `(`, escapes, case folding of one letter). |
| `HsRegularExpression` | `HsRegularExpression`, its matchers | `Construct` (compile, scratch allocation, the Qt fallback's `transform_reduce`), `CreateMatcher` (the clone, the choice of matcher), `Match` (context reset, `hs_scan` with the single or multi callback (RECURSIVE), the move out). |
| `MCParseDataBlock` | harness | A writer appends bytes. Every file up to a case's length is parsed in consecutive blocks, the way doIndex(0) parses it. A case is a codec, a block size, a byte alphabet and a length. |
| `MCLogDataWorker` | harness | Model values and the byte set of the log. |
| `MCLogView` | harness, composition | A view of lines `0 .. lastLine` composing `Selection` and `QuickFindPattern`. The user clicks, drags, shift-clicks, types patterns and searches. The data changes length, and the view crops. `ForwardSearch` / `BackwardSearch` are QuickFind's loop over the lines (outside `src/`). |
| `MCHsRegularExpression` | harness | Four patterns as model values: one Hyperscan compiles, one only Qt accepts, two invalid. |

Notes on how the models match the code:

* **Bytes.** A block is a sequence of naturals. Only NUL, TAB and LF are
  told apart from other byte values. A `std::string_view` is a record
  `[blk, off, len]`, and `npos` is `NPOS`.
* **Digests.** A digest is the byte sequence it covers, so there are no
  collisions. `NoDigest` is the value-initialised digest of `hash_ = {}`.
* **Atomic steps.** Each worker step is one `MutateAccessor` scope of the
  code. The IO thread's loop body is split where it can interleave with
  the others: read, then `try_put`. The check's stat and its reads are
  separate steps. The ghost `checking.window` collects every answer the
  file deserved at some instant between them.
* **Ghosts.** `indexedBytes` records the bytes the index was built from.
  `fileDisturbed`, `ioFailed`, `checkResult`, `finished` and `checking`
  are there to state properties. `opsLeft` bounds the user's requests.
* **Refinement.** `LogDataWorker` is checked against `LogIndex` with this
  mapping: `indexed` is the ghost `indexedBytes`, `lines` is
  `RealLineEnds(data)` (the index without its fake final LF), `running`
  is `op`, `ended` is `pc = "terminated"` and `destroyed` is
  `worker = "destroyed"`. `LineStarts` is the reference `RefLineEnds`.
  Every worker step maps to one abstract step or to a stutter: a parser
  step is `Extend`, a clear is `Reset`, the terminal event is `Finish` or
  `Answer`, a catch block is `Abort`, and `std::terminate` is `End`.
* **Outside `src/`.** `EncodingDetector`'s result is a nondeterministic
  choice in `DetectableCodecs`. Hyperscan's scan is any order of any
  subset of the pattern ids. Qt's regex validity and error text are
  constants of the harness.

## Runs

| Run | Config | Expect | What it shows |
|---|---|---|---|
| parse | `MCParseDataBlock.cfg` | pass | Every UTF-8 file of up to 7 bytes from {TAB, LF, 'A'}, in 2-byte blocks and in one 8-byte block, gets exactly one line start after each LF (`SingleByteLineEndsMatch`). Within one block, `maxLength` is exactly the widest tab-expanded line (`MaxLengthExactInBlock`). Every UTF-16/32 file of up to 8 bytes from {NUL, LF, 'A'}, in 4-byte blocks, has no genuine LF code unit missed (`AllLineFeedsFound`). Blocks read from offset 0 never split an aligned LF, so this run does not reach the block-boundary case of the multi-byte scanner. The parser's out-of-block guard never fires: it is unreachable. |
| parse_utf16_misaligned | `MCParseDataBlockMisaligned.cfg` | violation | A 0x0A byte inside another UTF-16 character starts a line (finding 1). |
| worker_indexing | `MCLogDataWorker.cfg` | pass | The run covers full and partial runs, interrupts at every point, read errors, failed opens, exceptions in the finalisation, mode changes, and a writer appending throughout. The index always matches the bytes it hashed (`IndexMatchesFile`). A successful run over a quiet file indexes the whole file, with the fake final LF (`CompleteAfterQuietRun`). `maxLength` never exceeds the widest line of the hashed bytes, through every clear (`MaxLengthNeverOverstates`). After a successful run over a quiet file, a check made at any later point, in the index's own mode, answers what the grown file deserves (`CheckAgreesAfterQuietRun`). So the fast-mode header and tail that the finalisation re-reads, and the full digest that partial runs continue, both describe the indexed bytes. The worker implements `LogIndex` (`ImplementsLogIndex`): the index only grows, block by block in file order, or is cleared, and only while an indexing operation runs. A request starts only after the previous operation has ended, and every operation completes, through a full limiter and an interrupted reader. A parser exception is left out of this run because it breaks completion (`worker_parser_throw`). The limiter never lets more than `Prefetch` blocks through (`TypeOK`). |
| worker_check | `MCLogDataWorkerCheck.cfg` | pass | The file grows, is rotated and fails to open between the check's stat and its reads. A full-mode check answers Truncated only if the file deserved Truncated at some instant of the check (`CheckTruncatesOnlyChangedFile`). A check may also throw, and so may the parser, which can leave an operation waiting for ever. So this run checks only the steps of `LogIndex` (`ImplementsLogIndexSafety`): with rotations, checks, full and partial runs and both exceptions, the index only grows in file order or is cleared, and a check never changes it. |
| worker_growth | `MCLogDataWorkerGrowth.cfg` | violation | A file that grows during a run loses its last line (finding 2). |
| worker_fast_rotation | `MCLogDataWorkerFastRotation.cfg` | violation | In fast mode, a rotation during finalisation makes the check answer Unchanged for stale data (finding 3). |
| worker_parser_throw | `MCLogDataWorkerParserThrow.cfg` | violation | An indexing operation whose parser throws never ends with the worker idle (`ExceptionsAreCaught`, finding 4). TLC's trace ends in `std::terminate`; with the limiter full, it hangs instead. |
| logview | `MCLogView.cfg` | pass | Over every sequence of gestures, crops, pattern changes and searches on four lines: the columns of a portion stay ordered (`TypeOK`); a range stays ordered through crops (`RangeOrdered`); `isLineSelected` agrees with `getLines` on every line, so only one kind of selection is active (`SelectionQueriesAgreeOnLines`). From a selected highlight (or a line, a range, or nothing), a forward search selects exactly the next highlight of the view (`ForwardFindsNextHighlight`). |
| logview_crop | `MCLogViewCrop.cfg` | violation | After a crop, a shift-click selects lines past the data (finding 5). |
| logview_backward | `MCLogViewBackward.cfg` | violation | A backward search skips the previous highlight (finding 6). |
| hs_regex | `MCHsRegularExpression.cfg` | pass | For every database of one to three patterns (and two of four), with scratch allocation failing: every matcher reports exactly the matching patterns, across repeated matches (`MatchIsExact`). The Qt fallback reports validity and the first invalid pattern's error (`FallbackReportsFirstError`). |
| hs_regex_clone | `MCHsRegularExpressionClone.cfg` | violation | When `hs_clone_scratch` fails, every line reads as not matching (finding 7). |

Every property of a passing run has a mutant in `PROJECT.json`: a plausible
bug in the mapped code, defined just before the operator it replaces. TLC
finds the property violated when the mutant is substituted.

### Findings

1. **Misaligned UTF-16/32 LF** (logdataworker.cpp:309). The multi-byte
   scanner is not aligned to code units. With UTF-16LE, the bytes
   `00 0A 00 00` (U+0A00, U+0000) get a line start at offset 3: the
   0x0A inside U+0A00 is followed by a NUL. This is TLC's trace for
   `WholeUnitLineEndsMatch`, over files of whole code units.
2. **File growth during a run** (:580/:641). The fake final LF uses the
   size read before the IO thread starts. A partial run restarts at the
   indexed size (:745), so the missing last line stays missing.
3. **Fast-mode fingerprint of the wrong bytes** (:651–670). The header and
   tail are re-read after indexing, from the file as it is then.
4. **Parser exception: a hang or `std::terminate`** (:629). The block
   that throws sends no `continue_msg`, so the decrement edge never
   frees its limiter slot, and the cancelled graph parses nothing more.
   Once the limiter is full, the IO thread spins in `try_put` (:501/:507)
   without looking at the interrupt. `wait_for_all` (:633) then waits
   for `release_wait` (:613) for ever, and `~LogDataWorker` blocks in
   `waitForDone`. If the rest of the file and the sentinel fit in the
   free slots, `wait_for_all` rethrows before `ioThread.join()`, and
   destroying the joinable `std::thread` calls `std::terminate`. TLC's
   trace is the second kind: a partial run, a throw on block 0, an
   interrupt, the sentinel in the second slot. Either way the catch in
   `run()` is never reached. Spec 7.5 says every stage's exception is
   caught at the operation boundary. An exception in the finalisation,
   after the join, is caught (`FinalizeThrows`).
5. **Crop keeps a stale `firstLine`** (selection.cpp:87). The trace is
   range(0,1), then crop(0), then a shift-click on line 0. `getLines()`
   then returns lines 0 and 1.
6. **Backward search off by one** (quickfindpattern.cpp:79, with
   selection.cpp getPreviousPosition). A match ending at `startColumn - 1`
   has `capturedEnd() = startColumn >= column` and is skipped. For example,
   with `..` and "." selected at column 1, a backward search does not find
   column 0.
7. **Null cloned scratch** (hsregularexpression.cpp:244). `createMatcher`
   tests the prototype scratch, not the clone. `hs_scan`'s HS_INVALID is
   ignored, and the Noop matcher is unreachable.

### Other disagreements seen while modelling

TLC found the following traces too. No run of the project checks them:

* **Late interrupt** (:686 vs :723). Suppose an interrupt arrives after
  the finalisation has decided not to clear, but before the result is
  computed. The run then reports Interrupted, but the index is kept. Spec
  4.8 and 5 say an interrupted run clears the store.
* **Empty index in full mode** (:117–123, :853). An index of an empty file
  keeps the value-initialised `fullDigest`. Appending to the file then
  gives Truncated, not DataAdded. This assumes, as xxHash does, that the
  digest of zero bytes is not the zero value. `CheckTruncatesOnlyChangedFile`
  excludes the empty index for this reason. The same goes for a check
  whose mode differs from the index's.
* **Check split, the other direction** (:794). Start from an index of
  `\n`. The check stats `A\n`, size 2, which deserves Truncated. The
  file is rotated and rewritten to `\n` before the reads, which see a
  matching digest. The answer is DataAdded, because the stat'ed size is
  larger. At no instant of the check did the file deserve it: `A\n` and
  the empty file deserved Truncated, and `\n` Unchanged. This is TLC's
  trace for `CheckIsSound` in full-digest mode.
* **No terminal event after an exception** (:726, :758, :779). The catch
  in an indexing `run()` clears the index but emits no `indexingFinished`.
  The check's catch returns Truncated to the executor, which discards it,
  and emits no `fileCheckFinished`. Spec 6 says each signal is emitted
  exactly once per operation. `LogIndex` states the code's behaviour: its
  `Abort` ends an operation without an event. A listener of the signals
  is never told that the operation ended.
* **Tab across a block boundary, and UTF-16 tabs** (:349). The column of
  a tab restarts at the block start, so `<<TAB,TAB,TAB>>` in 2-byte blocks
  gets `maxLength` 10, not 12. For UTF-16, tab stops are computed on byte
  offsets, while lengths are counted in code units (:422). This is why
  the `parse` run checks `maxLength` within one block only.
* **maxLength of a line continued by a partial run** (:584, :419). A
  partial run starts with `state.pos` at the indexed size and
  `max_length` 0. So the part of a line that the previous run left
  unterminated is not counted. TLC's trace: the file is `A` and is
  indexed, with `maxLength` 1. `A` is appended, and a partial run
  indexes it. The file is the single line `AA`, but `maxLength` stays 1.
  Spec 8 says every line's expanded length is at most `maxLength`.
  `MaxLengthNeverOverstates` checks the other direction, which holds.
* **Blank lines in a copied range** (selection.cpp:174).
  `getSelectedText` puts a line feed before a line only when the text so
  far is non-empty. A range that starts with blank lines loses them.

## Bounds

* **Blocks.** Block sizes are 1–8 bytes instead of 1 MiB, so files of 2–8
  bytes span several blocks. Every boundary case is reached: an LF as the
  last or first byte of a block, a tab in the next block, a multi-byte LF
  at the end of a file, and header and tail windows that overlap or not.
* **Prefetch.** `worker_indexing` reads 1-byte blocks through two
  limiter slots. So two blocks can wait in the queue while the IO thread
  blocks on a full limiter with a third, and the parser drains a backlog.
  `worker_check` and `worker_parser_throw` use two slots as well. After
  the parser throws, its block holds one slot for ever. The second slot
  is what lets the sentinel through in some behaviours, and not in
  others, so both the hang and `std::terminate` are reached.
  Blocks of several bytes, with line feeds inside and at their edges, are
  covered by the `parse` run.
* **MaxOps 2.** This is enough for a full run followed by a partial run
  (the pairs behind finding 2), and for each exception point. The check
  run uses 3 ops with `MaxFileSize` 2 and `BlockSize` 1, so it covers
  index → partial → check and index → rotate → check. In each, the writer
  acts between the stat and the reads.
* **MaxRotations.** The writer rotates at most this many times: 2 in
  `worker_fast_rotation` and `worker_check`, and 0 where rotation plays
  no part. A writer that rotates and appends for ever can keep the IO
  thread's stop condition from staying enabled, so no liveness property
  could hold. A bounded writer is a log that eventually settles for long
  enough.
* **TabStop 4.** This keeps the tab cases within 7-byte files. The code
  uses 8, and nothing depends on the value.
* **Log view.** There are four lines:
  * one with adjacent and separated matches;
  * one with a case variant and a literal dot;
  * a blank one;
  * `aaa`, where matches of `aa` could overlap.

  Portions span columns 0–3. The patterns are `a`, `aa`, `.` and the
  invalid `(`. This gives highlights that touch or could overlap, a match
  at column 0, searches that start inside a match or wrap past the last
  line, and crops to every length.
* **Hyperscan.** Every list of one to three patterns over the four kinds
  is checked, plus two lists of four. A scan reports any subset in any
  order.
* **Run time.** `worker_indexing` explores about 415k states in about
  70 s, most of it on the liveness and refinement checks. `worker_check`
  explores about 1.2M states in under 1 minute: it checks safety only.
  `worker_parser_throw` finds its violation in under 1 minute. `logview`
  explores about 49k states in 30 s. The others take seconds.

## Fairness

`ImplementsLogIndex` (its `WF_vars(Complete)`) and `ExceptionsAreCaught`
assume weak fairness on the following steps. Each is a thread that runs
while it can: the worker thread, the dedicated `std::thread`, the tbb task
that runs the function_node, or the destroying thread blocked in
`waitForDone`.

* the worker's steps;
* the IO thread's read, stop and put (its `try_put` retries every
  millisecond);
* the serial parser;
* the finalisation steps;
* the check's stat and reads;
* `ParserRethrown`, once the IO thread has released the graph's wait;
* `DestroyEnd`, once no operation runs.

Each fairness condition is stated on `Live(A)`, meaning `A` while the
process has not ended in `std::terminate` (finding 4). After the parser
throws, the cancelled graph runs no body, so `ParserTakesBlock` is
guarded by `pc = "graph"`. Nothing then obliges the parser to drain the
queue, and the hang of finding 4 is a fair behaviour. Otherwise, a
behaviour in which the process has ended would leave every thread step
enabled but never taken. The fairness would then rule that behaviour out,
and the liveness properties would hold vacuously for it. The steps of the
process use the subscript `stepVars`, which leaves out `worker`: those
steps leave `worker` unchanged through `Next`, not through the action
itself.

A read error or an exception is not assumed to happen. The user and the
log writer get no fairness: the user may stop making requests, and the
writer may stop writing.

The parser's fairness is stated as `WF_queue(ParserTakesBlock)`, on its
taking the head of the queue. Only the serial node dequeues: it parses
the block (`ParseBlock`) or throws on it (`ParserThrows`). `ParseBlock`
is enabled whenever the graph runs and the queue is non-empty, so this
is equivalent to weak fairness on the node's two steps. It avoids evaluating the parser to decide
`ENABLED`, which made liveness checking two orders of magnitude slower.

The log view and the regex models have no liveness property. Every
operation there is a single synchronous call.

## Not modelled

* **Over-long lines** (:533). The branch is modelled, but it needs lines
  of 2^31 columns, which is out of TLC's reach. Its `QMessageBox` is
  not modelled.
* **`attachFile`** (logdataworker.cpp:181). The model has one file, and
  `attachFile` only sets the name that later requests capture. The code
  that attaches and then indexes (`LogData`) is not in the repository.
  The Worker component is therefore `partly` modelled.
* **Code outside `src/`.** `FileDigest`, `EncodingDetector`,
  `LinePositionArray` and `calculateProgress` are modelled from the spec
  where needed, and marked `spec_modelled` in the map. QuickFind's search
  loop, which lives in the view, is modelled as the harness's
  `ForwardSearch` / `BackwardSearch`. Hyperscan's and Qt's regex engines
  are replaced by a small language (QuickFindPattern) or by constants
  (HsRegularExpression).
* **`LogMainView`** forwards to `AbstractLogView`, `Overview` and
  `LogFilteredData`, none of which is in the repository. Its only state
  is the `filteredData_` pointer. The mark shortcuts (:83, :89)
  dereference the pointer without the null test that `lineType` makes.
  Whether a shortcut can fire before `useNewFiltering` depends on the
  view's creator, which is outside the repository. This is listed as a
  hazard.
* **`PredefinedFiltersDialog`** is a Qt dialog: table rows to and from
  settings, with no concurrency.
* **`FontUtils`** is a pure query of the platform's fonts.

## Plan for later sittings

1. **Partial runs.** Give partial runs that continue an unterminated line
   a `maxLength` property (hazard at :745).
2. **Late interrupt and empty index.** These need runs of their own (see
   "Other disagreements"). The project is at its limit of runs.
3. **Fast mode under rotation.** Check `CheckAgreesAfterQuietRun` with
   rotations and both modes together. That instance takes longer than a
   run may. In fast mode it needs a rotation that changes the header or
   the tail, because fast mode cannot see other changes.
