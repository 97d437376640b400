# A TLA+ verification of n1k1

n1k1 is a SQL++ engine over local files: one process reads a directory of JSON,
CSV, Parquet and other files as keyspaces and runs queries over them, in a
browser, from a command line or from a library.  This directory holds
specifications of its parts; TLC configurations that check them on small
instances; and proofs, checked by TLAPS, that hold for every instance.  Every
definition is a translation of the source; the "map" of `PROJECT.json` names
the lines it stands for.

## 1. Inventory

| Part | Source | State | Operations | Interacts with |
|---|---|---|---|---|
| Stage | `base/stage.go`, `rt/ctx.go` | channels `ActorReadyCh`, `BatchCh`, `StopCh`; first error; pool of batches | `StartActor`, `yieldVals`, `yieldErr`, `batchSend`, `ProcessBatchesFromActors`, `Acquire`/`RecycleBatch` | goroutines of `UNION ALL`, one consumer |
| StageCursor | `base/stage_cursor.go` | bounded channel of batches, `done`, `finished`, first error | `NextBatch`, `Stop`, `Wait`, the producer goroutine | merge scan and merge join pull from it |
| Merge scan | `engine/op_merge_scan.go` | heap of child heads, reorder buffer, watermark, effective bound, last key | concatenate, heap, watermarked and streaming merges; late-record policy | one StageCursor per child |
| Joins, set operations | `engine/op_join_*.go`, `op_merge_join.go` | probe map with match counts, right rows held or streamed, queues per partition | build, probe, co-advance | StageCursor |
| Order, group, window | `engine/op_order.go`, `op_group.go`, `op_window*.go`, `base/agg*.go` | bounded heap, map of accumulators, frame cursors | push a row, emit at the end or at a partition's change | each calls its child with callbacks |
| Expressions | `engine/expr*.go`, `base/val_*.go`, `glue/expr*.go` | none | lower a tree to the native lane, evaluate | operators |
| Session | `glue/session.go`, `stmt.go`, `exec.go`, `prepare.go` | halt flag, row callback, arguments, prepared plans, temporary keyspaces | `Run`, `Interrupt`, PREPARE, EXECUTE, CREATE, INSERT, `Close` | everything; the REPL's signal goroutine |
| INSERT | `glue/insert.go`, `insert_writer.go` | target and temporary file; writer goroutine and channel | `InsertRun`, `write`, `finish`, `abort` | runs a source query in the same session |
| Named cursors | `glue/cursor.go`, `cmd/n1k1/multi_cursor.go` | `NAME.json` (position, fingerprints, query hash), `NAME.snap.json` | create, peek, advance, rm with their flags | one process per command; the files' writers |
| Packs of queries | `glue/multiquery*.go`, `engine/op_broadcast*.go`, `glue/compose.go`, `cmd/n1k1/multi*.go` | automaton of literals, broadcast contexts, nodes' results, golden files | fuse, broadcast, extract context, compose, test, update | the shared scan, cursors |
| Indexes | `glue/idx_*.go` | bbolt / bleve files, watermarks and floors, source signatures, slots in memory | open, build, catch up, extend backwards, scan, search | other processes' builders, sources that change |
| Shared rows | `glue/multiquery_cache.go`, `temp_keyspace.go` | captured scans, registered heaps | capture, replay, abandon, put, drop | the scans of one request |
| Subqueries | `glue/subquery.go`, `glue/recursive*.go` | memoised results, outer row, WITH scope | evaluate, memoise, iterate to a fixpoint | operators of concurrent branches |
| JavaScript | `glue/ext_*jsvm*.go` | a goroutine with a runtime, `recs`, `errc`, `done`, `finished`; a shared runtime with per-group state | `Next`, `Close`, `emit`; call with a timer | scans, aggregates |
| Planning | `glue/conv.go`, `optimize_temporal.go`, `extract.go`, `columnar.go`, `vector.go` | the operator tree under construction; cached descriptions of files | visit a plan operator, recognise and rewrite | the third-party planner |
| Datastore | `glue/datastore*.go`, `flat.go` | listing of a request, document cache, sender of an index scan | scan, fetch, drain | sources, indexes, files that change |
| Records | `records/` | readers with refilled buffers, a pool of sources | split, read lines, walk, seek | files |
| Command line | `cmd/n1k1` | REPL settings, interrupt count | dispatch, formatting | Session |

`PROJECT.json` lists the parts with what of each is modelled.

What is hard in this code (the list with lines is under "hazards"):

* Batches of rows are passed between goroutines and **recycled**; sources are
  **pooled** while a record is lent from them.  Every goroutine must end,
  whichever of its siblings fails or gives up.
* A failed producer **looks like one that ended**: a truncated stream must not
  be taken, cached or replayed as a complete one.
* Streams are **merged, windowed and joined in one pass**: watermarks, frame
  cursors and match counts are updated in place, subtract from `int64`, and
  rely on orders that are only declared.
* A named cursor is moved by commands that may **die between any two steps**,
  run at once, and retry stale tokens, over files that are appended to,
  rotated, truncated and replaced at any moment.
* Indexes, descriptions and memoised results are **checked once and used
  later**, while the source changes, and are written by processes that crash.
* A statement is **rewritten**: to merges, columns, fused packs, literals that
  wake an entry, native expressions.  Nothing but the answer shows that the
  rewriting applied where it should not have.
* An interrupt **races** the start and the end of statements.

## 2. Modules

Each row names the definitions that the runs check; in parentheses the parts of
a conjunction.

| Module | Models | Properties |
|---|---|---|
| `Stage` | `base.Stage`, as used by `OpUnionAll`; the pool of `rt.SpillState` | `OneOwner`, `RowsDelivered` (`InOrder`, `Complete`, `BuffersBounded`), `ErrorReported`, `StopCopyLive`, `Termination` |
| `StageProofs` | proofs about `Stage` | |
| `OrderedStream` | abstract: what a merge relies on in a child | |
| `StageCursor` | `base.StageCursor`; implements `OrderedStream` | `PulledInOrder` (`InOrder`, `BackPressure`), `Released`, `StreamSpec` |
| `MergeScan` | `engine/op_merge_scan.go` | `MergeExact` (`SortedOutput`, `Complete`, `ChildErrSurfaces`, `BandOnly`), `NoFalseAlarm` |
| `RowOps` | what the operators share: `int64`, row comparison | |
| `Joins` | nested-loop, hash, merge and ASOF joins, INTERSECT and EXCEPT | `JoinsExact` (`HashJoinExact`, `SetOpExact`, `NestedLoopExact`), `MergeJoinSound` (`MergeJoinExact`, `BrokenRightSurfaces`, `JoinBandOnly`) |
| `OrderOffsetLimit` | `engine/op_order.go` | `OrderLimitExact` (`OrderExact`, `OrderHeapBounded`) |
| `OperatorProofs` | proofs about `MergeScan`, `OrderOffsetLimit`, `Joins` and `ContextQuery` | |
| `GroupBy`, `Window` | `engine/op_group.go`, `base/agg.go`; `engine/op_window*.go` | `AggregatesExact` (`GroupExact`, `WindowExact`, `NtileFair`, `EdgesAsScan`) |
| `AggregateProofs` | proofs about `GroupBy` and `Window`, with the lemmas of `OperatorProofs` | |
| `RetainedRows` | the scan cache of multi-queries, temporary keyspaces | `RetainedRowsExact` (`ScanRowsExact`, `CaptureBounded`, `ScansReadOpenHeaps`, `HeapsOwned`) |
| `Subquery` | evaluation and memoisation; recursive CTEs | `SubqueriesExact` (`SubqueryExact`, `UncorrelatedRunsOnce`, `ScopeGone`, `RecursiveExact`, `CycleKeysUnique`) |
| `JavaScript` | extract streams; the shared runtime and its timers | `ScriptsContained` (`NoReadAfterClose`, `CleanEndIsComplete`, `InterruptIsNoError`, `GroupStateOwn`), `CloseReturns` |
| `SharedProofs` | proofs about `StageCursor` and its refinement, `RetainedRows`, `JavaScript` and the extract cache of `TemporalRewrite` | |
| `Session` | statements, interrupts, PREPARE / EXECUTE, callbacks, Close | `SessionExact` (`SessionOutput`, `SessionHalts`, `SessionKeyspaces`, `SessionFrees`) |
| `SessionProofs` | proofs about `Session` | |
| `IndexSource` | the files under an index and their signature | |
| `SecondaryIndex` | `idx_si.go`, `idx_backfill.go`, `idx_mem.go` | `IndexExact` (`FreshIsExact`, `QueryExact`, `MemOpenExact`) |
| `FtsIndex` | `idx_fts.go`: build, freshness, search | `FtsExact` (`FtsFreshIsComplete`, `SearchExact`) |
| `IndexProofs` | proofs about the indexes | |
| `IndexSpan` | key encoding and spans; the flexible translation to searches | `SpansExact` (`SpanExact`, `SpanOrdered`, `FlexSuperset`) |
| `MultiQuery` | the automaton of literals, fusing, broadcast, report; graphs of packs that read one another | `PacksExact` (`FindsExactly`, `PackExact`, `ReportTrue`), `ComposeSound` (`ReadsThisRun`, `OrderSound`) |
| `ContextQuery` | context extractors and the window they replace | `ContextSound` (`ContextExact`, `ContextBounded`) |
| `PackEntry` | entries' tests and their update, parameters, drift of a pack under a cursor | `EntriesSound` (`PassIsEarned`, `UpdateSticks`, `ParamsReplay`, `GivenIsUsed`, `DriftIsReal`, `OnePackPerPosition`) |
| `TemporalRewrite` | the extract cache; ordered unions and correlated subqueries as merges | `ExtractCacheTrue` (`CachedIsCurrent`, `EntryIsTrue`), `RewriteSound` (`MergeRewriteSame`, `NeverTrips`, `AsofRewriteSame`) |
| `Conv` | `glue/conv.go`, and the engine's operators that run the tree | `ConvSound` (`ConvExact`, `RowsFit`, `AggregatesHeld`) |
| `Expressions` | native evaluation; lowering | `LanesAgree` (`LoweredSame`, `CompiledSame`) |
| `RecordSource` | splitting bytes into records; the pool of sources | `RecordsExact` (`SplitExact`, `SplitAdvances`, `SeekFindsRecord`, `LinesExact`, `LentRecordIntact`, `SourcesReturned`) |
| `DatastoreScan` | listing, scan, fetch; the drain of an index scan | `DatastoreExact` (`ScanAllOrWarned`, `ScansSeeOneListing`, `FetchFindsRecord`, `FetchCacheBounded`, `PositionsRise`, `DrainComplete`), `ScannerEnds` |
| `Columnar` | aggregates over columns, masks and file metadata; fused vector scans | `ColumnarExact` (`ColumnarSame`, `VectorFuseSame`) |
| `RecordScanFilter` | the filter of `glue/cursor.go`: pure operators | |
| `AppendCursor` | append cursors; extends `RecordScanFilter` | `NeverMisses`, `ReDisclosed`, `AcceptClears`, `MarkNeverRewinds` |
| `DiffCursor` | diff cursors | `DiffExact` (`InSync`, `SnapshotFirst`, `VersionTellsSnapshot`) |
| `CursorProofs` | proofs about both kinds of cursor | |
| `Insert` | `glue/insert.go` and its writers | `InsertAtomic` (`AllOrNothing`, `CountTrue`, `NoLeftover`, `NoColumnLost`), `RowsLeaveOnlyBlindly`, `InsertEnds` |
| `SourceProofs` | proofs about `Insert`, `RecordSource` and `DatastoreScan` | |

`StageCursor` has a configuration of its own; the `MC*` modules hold the values of constants and the bounded inputs for TLC.
One of them checks several components that do not interact: a variable `part`,
chosen in `Init`, says which one the behaviour is about, and the others rest.
An operator whose comment begins with "Mutant" or "As X, but" is not part of
the model: it is a plausible mistake, put in X's place to see that a property
notices.

How the modules are composed: `StageCursor` implements `OrderedStream`, and
`MergeScan` and the streaming join of `Joins` read children that behave as
`OrderedStream`s.  `AppendCursor` and `IndexSource` share the files of
`RecordScanFilter`.  `TemporalRewrite` compares a statement with the merge of
`MergeScan` and the ASOF join of `Joins` that replace it, by their definitions.
`Window` folds with the accumulators of `GroupBy`.

How state and actions correspond to the code:

* **Stage.**  One program counter per actor goroutine and one for the consumer;
  `apc` values name the blocking points (`ready`: the receive on
  `ActorReadyCh`; `send`: the select of `batchSend`; `last`: the closing nil).
  A Go channel is a sequence; a send on an unbuffered one completes when the
  receiver waits.  `mem` holds what the slots of each batch buffer hold, so
  that sharing a buffer shows as rows that change.  What runs under the
  stage's mutex is one step.
* **StageCursor, JavaScript (streams).**  Deferred closes are separate steps,
  in their LIFO order: a reader may see the channel closed before `finished`.
* **MergeScan, Joins.**  The configuration (inputs, declared sortedness and
  bounds, policy, tolerance) is chosen in `Init`.  `int64` is `-Half .. Half-1`
  with arithmetic that wraps.  Binary heaps are sets of which a least element
  is taken, ties in any way.
* **OrderOffsetLimit, GroupBy, Window.**  One step per row pushed and per row
  yielded, as the callbacks run; the reference is the definition over the whole
  input.
* **RetainedRows.**  Three scans interleave row by row; a capture is
  registered, abandoned or dropped as its scan ends.  Statements on temporary
  keyspaces are begun, read and ended in separate steps, and a heap is open or
  closed.
* **Subquery.**  Two branches evaluate outer rows with a stack of frames each
  over the request's memo; the scope fields are saved and restored as the code
  does.
* **Session.**  A script of statements, the signal goroutine (count, then
  `Interrupt`), and the scan that polls the flag every `SeEvery` records.
* **SecondaryIndex, FtsIndex.**  Each transaction or batch of the store is one
  step; the process may die between any two, the slots in memory go and the
  files stay.  A file is a function from offsets to record numbers.
* **IndexSpan, Expressions, Conv, Columnar, MultiQuery.**  Translations are
  operators; the state chooses one input, runs the translation and keeps both
  answers, which the property compares.
* **TemporalRewrite (cache).**  Several describers stat, describe, write a
  temporary entry and rename it while the file gets new versions and the
  producer changes.
* **RecordSource, DatastoreScan.**  A file is a string of symbols that tell the
  cases apart (brace, quote, backslash, newline, other); refills, opens, reads
  and skips are steps, and files are appended to, removed or become unreadable
  between them.
* **AppendCursor.**  A file is a function from the offsets at which records
  start to record numbers that are never reused.  A command is a process with
  a program counter; load, first scan, second scan, temporary file and rename
  are separate steps, and it may die before each.  A refusal changes nothing
  and is a guard.  History variables (`accounted`, `held`, `cleared`) say what
  was delivered, disclosed and acknowledged; no guard reads them.
* **DiffCursor.**  The snapshot, the state file and the printing are three steps
  with a crash point before each.  A document is its bytes; `Stored` gives those
  that `json.Marshal` saves (and prints) for it.  `replica` is what a caller
  makes of the printed changes.  History variables say at which versions a commit
  was cut (`torn`) and which rows' changes were never printed (`missed`).
* **Insert.**  A statement is a session of its own.  `inSt[s].pc` is where the
  statement's own goroutine is; the writer goroutine takes from a bounded
  queue.  The temporary file's exclusive creation is a guard.

## 3. Runs

| Run | Shows | Bounds |
|---|---|---|
| `stage` | every interleaving of two actors and the consumer, either actor failing at any row: one owner per buffer, rows in order and complete, errors reported, every goroutine ends | one actor with batches of 2, the other with one giant batch, 5 rows each, unbuffered channel, pool of 2, 4 buffers |
| `stage_cursor` | order, back pressure, join after an early stop, refinement of `OrderedStream` | 7 rows, batches of 2, channel of 2 |
| `operators` | joins, set operations, ordering, grouping and windows yield what their definitions say; merge scans are sorted or end with an error, lose nothing, raise no false alarm, surface a child's error and buffer the band only | sides of up to 3 rows with repeated, NULL and MISSING keys, two partitions, both ends of a 16-value `int64`; merges of all inputs of up to 3 rows a child (one child: 5) over 3 to 5 keys; up to 4 rows ordered with every direction and place of NULLs, OFFSET + LIMIT beyond `int64`; 15 aggregates over up to 3 rows of every type; 10 windows of up to 4 rows under every kind of frame |
| `hash_join_keyless` | **violated**: `OuterKeepsKeyless` | the same hash joins |
| `shared` | three scans over the scan cache, statements on temporary keyspaces, subqueries of two branches, recursive queries, JavaScript streams and runtimes, sessions with interrupts | budget 2; 4 statements on 2 names in 3 spellings; 4 graphs of 3 items with limits; a script of 3 records; scripts of up to 4 statements, 2 presses, a poll every 2 records |
| `indexes` | an index that is taken for fresh is exact while files change and processes crash; spans and flexible searches reach what the predicate accepts | 2 files of 2 offsets, 2 changes, 3 operations per index; 2 documents of 10 x 3 values under spans with 0 to 2 components; two-field documents under trees of depth 2 |
| `packs` | fused packs, contexts, graphs of packs, entries' tests, parameters and drift | up to 3 patterns of length 3 over two slices; 13 x 13 predicates in pairs, packs of 4 entries run twice; windows of up to 2 rows around 5 rows; all graphs of 3 nodes run twice; two commands per entry file |
| `planning` | rewritten statements, converted plans and lowered expressions answer the same; cached descriptions are true | files of up to 2 rows, claimed by a plugin or not; two-branch unions, with GROUP BY and LIMIT in a branch; subqueries with up to 3 conjuncts; plans over 4 and 3 rows; 2 describers, 3 versions of a file |
| `sources` | bytes to records, walks and fetches over changing files, pooled sources, drains, columnar and vector routes, INSERT | two values of up to 7 symbols in arrays, streams and every truncation; all line files of up to 5 symbols; 2 files, 2 scans, 2 changes, a cache of 2 documents; 3 spans, room for 1; batches of 2, 2 row groups with statistics of their own; two INSERTs of two rows, a queue of 1 |
| `cursors` | append cursors with every flag, stale tokens, two concurrent callers, crashes; diff cursors | 2 files, offsets 0..2, 3 records; results of up to two rows with duplicate keys and documents in and out of their saved form, 2 versions |
| `diff_two_step` | **violated**: `InSync` | the same diff cursor, with a quiet commit |
| `empty_token` | **violated**: `NeverMisses` | two callers with tokens over one file that is empty at first |

Why the bounds are enough to see the cases that matter: two actors suffice for
one to fail while the other is in its select, and five rows in batches of two
give full, recycled and partial batches.  Seven rows fill a channel of two
batches and block the producer twice.  Sixteen `int64` values contain keys whose
difference to a bound of 2 underflows and keys that do not; three rows per
child let a child's late row come after another child's.  Three rows per side
of a join give duplicates on both sides with a row that is not matched; four
rows of a window let a frame's edge move by more than one and a row leave
while another enters.  Three scans let one capture, one replay what was
captured and one run while the capture is abandoned.  Three operations on an
index are a build, a change that makes it stale and the query that must notice;
two files let one change while the other does not.  Three nodes of a graph
have a cycle beside a node that is not on it.  Two offsets above 0 distinguish
a truncated file from one that was rewritten at its mark and one that regrew
past it.  A queue of one with two rows lets the producer block while the writer
fails.

Deadlock checking is off where the modelled program ends and its end is a
property or one goroutine's (`stage`, `stage_cursor`); the modules
that several components share have a stuttering step at their end instead.
The cursor models never stop: a command can always be run.

Fairness.  `Stage`, `StageCursor`, `Insert`, the JavaScript stream and the
drain of an index scan assume weak fairness of each goroutine (the Go scheduler
runs every goroutine that can go on) and that operators, sources and scripts
end or can be interrupted.  No fairness is assumed of crashes, errors, presses
of Ctrl-C, other processes or the files' writers.  The properties that need it
are `Termination`, `Released`, `CloseReturns` and `GoroutinesEnd` (`ScannerEnds`
and `InsertEnds`).

## 4. Where the code and its documentation disagree

Three runs show a behaviour that contradicts a comment or help text; the
"findings" of `PROJECT.json` quote it.

* `hash_join_keyless`: a left-outer hash join loses the left rows whose key is
  MISSING.
* `diff_two_step`: `advance --to --quiet` on a diff cursor commits the current
  result, not the one that was peeked; changes in between are never printed.
* `empty_token`: the position that a peek of files without records prints is the
  empty string, which `advance --to` takes for no token; it commits the head, and
  `--quiet` then passes what was appended since the peek.

The models show further ones, for which no run is kept.  Each is excluded from
the passing runs by a constant or by the guard of a property, and reappears
when that is changed or when the definition named is checked.

*Streams and operators*

* `MergeScan.NeverSilent`, for a single child with bound 1: under "widen" `lastKey`
  moves back to a late row's key, so that a later row is emitted out of order
  without the promised warning (`op_merge_scan.go:357`, comment at 298); and the
  bound grows to the distance from the last emitted key, not from the largest
  key seen (comment at 332).
* `Window.CurrentRowIsPeers`, `ExcludesArePeers`, `SlidingAsFold`: a GROUPS frame
  that starts at CURRENT ROW lacks the peers before it, EXCLUDE GROUP and TIES
  exclude other rows than the peers, a sliding COUNT is not always the count of
  its frame, and RANGE frames wholly before or behind the current row include
  it.  `WindowExact` is about the other frames (`FrameOrdinary`).
* A negative LIMIT or OFFSET that is a constant reaches the operator as it is
  (`conv.go:1974`) and makes their sum negative, which `op_order.go:44` takes
  for an overflow: LIMIT -1 yields every row without ORDER BY and none with it.
  `OrderOffsetLimit` is about counts that are not negative.
* INTERSECT and EXCEPT drop rows of 110 labels (modulo 256): the count of labels
  is taken for the marker byte (`SetOpExact` leaves them out).

*Shared state*

* `RetainedRows.CacheTransparent`: a LIMIT that was pushed into a scan is not part
  of the cache's key, so that its few rows are replayed to scans without one
  (`multiquery_cache.go:289` says that scans share only identical rows).
* `JavaScript.ThrowIsNoOp`: an aggregate's step that throws leaves undefined in
  place of the group's state (`ext_jsvm_agg.go:64` calls it a no-op).
* `Session.OnRowTakesRows` with `SeStreamed = {TRUE}`: a compiled EXECUTE does
  not stream (`session.go:90`, `exec.go:159`), nor does it see interrupts.
* An interrupt between the submission of a statement and the clearing of the
  flag is lost, and the next press then quits (`repl.go:46` says the first one
  halts); with several statements on one line a press during the first can land
  in the second.  `SessionHalts` is about presses after the run began.
* A plan cached by PREPARE keeps the closed heap of a temporary keyspace that
  was replaced since.

*Indexes*

* `FreshIsExact` with `Races = {TRUE}`: two processes that extend one index, or
  a file that changes under a backward page (`idx_backfill.go:268`, comment at
  176).
* `SpanExact` with a smaller `SpMantissa` (numbers that the encoding rounds to one
  another); `IndexSpan.LeadingKeyIndexed`: a document that lacks a later key is
  not indexed (`idx_si.go:1023`); `FlexSuperset` for text without a word that the
  analyzer keeps and for numbers in fields mapped as text (`idx_fts.go:220`).
* `FtsIndex.FtsCrashSafe`: a rebuild that was cut short leaves the signature file
  of the index it removed, and what is there passes for fresh
  (`idx_fts.go:759`).

*Packs*

* `PackExact` with `MqEscaped = {"load"}`: a literal that a record holds in
  escaped form does not wake its entry.  `MultiQuery.LintFaithful`: the lint calls
  entries fused that the compilation does not fuse.
* `DriftIsReal` leaves out statements with a multi-line string literal: an added
  blank line inside it passes for the same statement under the second scheme
  (`cursor.go:689`).
* `ContextExact` takes statements whose CASE gives the flag for its first WHEN and
  less for everything else, and whose window has no WHERE below it.  The
  recogniser promises never to lower another shape (`multiquery_context.go:31`), but
  reads neither the ELSE, nor the other WHENs, nor the THENs (line 330), and passes
  by what is between the window's sort and the scan (line 389).  With `else = 1`, or
  with `below` and a row that the WHERE drops, TLC finds `ContextExact` violated.

*Planning*

* `AsofRewriteSame` with `OuterFields = {"o"}`: the outer row's field is another
  than the ordered one.
* `ConvExact` with `HardPlans` of `HardPlan` (`letId`, `orderId`, `starOrder`,
  `unionGroup`, `nestedLimit`, `hashFilter`): columns that LET drops, ORDER BY
  over `META()` that was projected away or over a star, groups below a UNION, two
  LIMITs folded into one, a hash join with a filter of its own.
* `ConvExact` with a left-outer hash join that loses left rows without a key (run
  `hash_join_keyless`) asks only that each row that comes is right (`KeysHeld`).
* A keyspace of two or more files that plugins describe is expanded into these,
  and the rows of files that no plugin claims are lost (`extract.go:343`,
  `optimize_temporal.go:1117`); a GROUP BY or LIMIT of the branch then runs once
  for each file (1197).  With one described file the whole keyspace is an input,
  whose unclaimed rows may come out of order: the statement fails, or the
  streamed right side of an ASOF join (`op_merge_join.go:144`) ends before it
  notices and answers from the rows so far.  `MergeRewriteSame`, `NeverTrips` and
  `AsofRewriteSame` are about the files that are read (`Read`, `Seen`) and exempt
  the rest by name (`ClonedPerFile`, `asMatch.ok => RightSide.err = "nil"`).  Rows
  without the ordering key, which merges skip, are not modelled.
* `LoweredSame` leaves out: NULL compared with MISSING; a field that is MISSING
  while its name exists in the outer scope; a path label without its prefix; two
  star labels.

*Files*

* `Columnar.EmptySumIsNull`: SUM over no selected row is 0, not NULL
  (`base/agg_masked.go:58`, comment at `base/agg.go:78`).
* `FetchFindsRecord` excepts one record: a `.json` file that holds an array of one
  element is scanned as that element under the file's stem (`records.go:574`,
  608), and a fetch of the stem gives the file's bytes, brackets included
  (`datastore_fetch.go:328`, 463).
* `ColumnarSame` excepts COUNT of a column from footers of which only some row
  groups have a null count: the known ones alone are summed
  (`parquet.go:199`) and subtracted (`columnar.go:982`), so COUNT is too large.
* `FetchFindsRecord` with `Kinds = {"bound"}` (`datastore_fetch.go:500`) and
  `SplitAdvances` with `Stray = TRUE` (`records.go:578`): a bound keyspace's ids,
  and a comma between top-level values.
* `Insert.NewNeverReplaces`: two INSERTs in "new" mode that both saw no target;
  the second replaces the first one's file (`insert.go:98`, comment at 63).

*Cursors*

* `AppendCursor.CompareAndSwap` with `Parts = {"expect"}`: the check of
  `--expect` and the save are not one step (`multi_cursor.go:933`, help at
  1745).
* `RacyRescan = TRUE`: a file that is replaced between the two scans of one
  advance has its new fingerprint committed without disclosure.
* In part "tokens" `NeverMisses`, `ReDisclosed` and `AcceptClears` do not hold: a
  token has offsets but no fingerprints, an empty one is taken for none
  (`multi_cursor.go:1086`), and one that lacks a file held at offset 0 drops it.
  `MarkNeverRewinds` is therefore stated of marks above 0.
* `DiffExact` excepts what the code does to rows whose bytes are not in the form of
  `json.Marshal` (white space, `<`, `>`, `&`): the snapshot holds them compacted
  and escaped (`cursor.go:325`) and is compared with the query's own bytes (876),
  so an unchanged row is an update, and the version moves on, at every advance.
  The comments say "byte-identical => no event" (`cursor.go:849`) and that an id
  names a position (`multi_cursor.go:1209`).  It excepts, too, a commit that dies
  between its two files, which leaves the new snapshot under the old version
  (`torn`), and the changes of a commit that dies before it prints: they are
  never printed (`missed`).

## 5. Proofs

The proofs hold for every value of the constants that the named assumptions
admit: any number of actors, rows, files, commands, statements and operations.
Each theorem below states a property that a run checks, unless marked *.

| Module | Theorem | Statement | Hypotheses |
|---|---|---|---|
| `StageProofs` | `Typing`*, `Ownership`, `StopCopies`, `Errors` | `Spec => []TypeOK`, `OneOwner`, `StopCopyLive`, `ErrorReported` | |
| | `Delivery` | `Spec => []RowsDelivered` | |
| `OperatorProofs` | `SortedAndComplete`, `AlarmsAreTrue` | `MergeSpec(..) => []MergeExact`, `NoFalseAlarm` | `MergeConfigOK` |
| | `SliceOfOrder` | `OrderSpec(..) => []OrderLimitExact` | `OrderConfigOK` |
| | `MergeJoinIsSound` | `MergeJoinSpec(..) => []MergeJoinSound` | `MergeJoinConfigOK` |
| | `JoinsAreExact` | `HashJoinSpec(..) /\ NestedLoopSpec(..) => []JoinsExact` | `HashJoinConfigOK`, `NestedLoopConfigOK` |
| | `ContextIsSound` | `CxSpec(..) => []ContextSound` | `ContextConfigOK` |
| `AggregateProofs` | `GroupsAreExact`* | `GroupSpec(..) => []GroupExact` | `GroupConfigOK` |
| | `WindowCursorsAreScans`* | `WindowSpec(..) => [](RowsInOrder /\ EdgesAsScan)` | `WindowConfigOK` |
| `CursorProofs` | `SnapshotBeforeState`* | `DiffSpec => []SnapshotFirst` | |
| | `VersionNamesSnapshot`* | `DiffSpec => []VersionTellsSnapshot` | |
| | `DiffIsExact` | `DiffSpec => []DiffExact` | `~Quiet` |
| | `MarksNeverRewind` | `CursorSpec => MarkNeverRewinds` | |
| | `OneStepNeverMisses`* | `CursorSpec => []NeverMisses` | `~RacyRescan`, no `--to` |
| | `OneStepDiscloses`* | `CursorSpec => [](ReDisclosed /\ AcceptClears)` | `~RacyRescan`, no `--to`, no `rm`, one caller |
| | `TokensNeverMiss`* | `CursorSpec => [](NeverMisses /\ ReDisclosed /\ AcceptClears)` | files only grow, `SomeRecord` |
| | `CursorsNeverMiss`, `CursorsDisclose` | `Spec => []NeverMissesAppends`, `DisclosedUntilAccepted` | `~RacyRescan`, `SomeRecord`, finitely many callers |
| `SourceProofs` | `AllOrNothingInserted`, `NoRowLost` | `InsertSpec(..) => []InsertAtomic`, `RowsLeaveOnlyBlindly` | `TargetsOK` |
| | `RecordsAreExact` | `RtSpec(..) /\ SpSpec(..) => []RecordsExact` | `SourceConfig` |
| | `DatastoreIsExact` | `RfSpec(..) /\ IdSpec(..) => []DatastoreExact` | `FilesConfigOK`, `DrainConfigOK` |
| `SharedProofs` | `Typing`*, `InOrderWithBackPressure` | `Spec => []TypeOK`, `PulledInOrder` | |
| | `ImplementsStream` | `Spec => StreamSpec` | |
| | `Retained` | `ScanCacheSpec(..) /\ TempSpec => []RetainedRowsExact` | `ScanConfigOK` |
| | `Contained` | `ExtractStreamSpec /\ JsRuntimeSpec(..) => []ScriptsContained` | `JsConfigOK` |
| | `ExtractsAreCurrent` | `XcSpec(..) => []ExtractCacheTrue` | |
| `SessionProofs` | `SessionsExact` | `SessionSpec(..) => []SessionExact` | `SessionConfigOK` |
| `IndexProofs` | `IndexesExact` | `IndexSpec(..) => []IndexExact` | `SiOpsOK` |
| | `FullTextExact` | `FtsSpec(..) => []FtsExact` | `FtOpsOK`, `FtSince <= Cardinality(IdxContainers)` |

**What is assumed.**  The constants' assumptions are named in the modules that
declare them, and TLC evaluates them on every run: sizes are naturals, "none"
values are no values, files and requests have their form.  `WidthAssumption`
takes any `Half` above 1 for the width of `int64`, so the wrapped arithmetic of
watermarks and of OFFSET + LIMIT is proved for 2^63 as for the 8 of the run.  The hypotheses of the
table say:

* `MergeConfigOK`: keys and bounds are `int64`, bounds are not negative, there is
  at least one child.  `OrderConfigOK`: every row has a value for each sort key,
  OFFSET and LIMIT are not negative, and an `int64` counts all rows.
* `MergeJoinConfigOK`: keys are `int64` and the tolerance is one that is not
  negative, as `splitLookback` and `splitLookahead` see to
  (`optimize_temporal.go:681` and 705); the sides may be sorted or not, broken
  or not.  `HashJoinConfigOK`: two sequences of keys, those that are NULL or
  MISSING included.  `NestedLoopConfigOK`: any right rows, matching or not, for
  each left row, any of which may fail.
* `ContextConfigOK`: statements of one pack have different labels; a scan that
  stands in for the sort yields the rows of a partition one after another; and
  each statement that is recognised has a CASE and rows of the shape that the
  recogniser takes for granted (`StatementOK`; section 4, Packs).
* `GroupConfigOK`: any list of the 15 aggregates, with GROUP BY or without, over
  any rows, whose values are MISSING, NULL, numbers (whole ones, as everywhere in
  `GroupBy`) or strings; the input may fail.  `GroupExact` is the first part of
  `AggregatesExact`, the property that the run `operators` checks.
* `WindowConfigOK`: any rows whose ORDER BY values ascend within a partition, as
  the sort below a window passes them (the code assumes ascending order too,
  `base/agg_window.go:558`), any function, frame and bounds; the input may fail.
  `EdgesAsScan` is another part of `AggregatesExact`.
* `ScanConfigOK`, `JsConfigOK`, `TargetsOK`: what is enumerated in `Init` is well
  formed (limits and sizes are naturals; the target's first rows are by no
  statement).
* `SourceConfig`: a .jsonl file is any sequence of bytes.  A .json file that is
  whole was written from JSON values, with white space between them and, in an
  array, commas too; one that is not whole is such an array, cut off anywhere
  before its closing bracket.  What a value is, is said without the code that
  looks for its end (`JsonValue`): an object, array or string is complete with its
  last byte and at no earlier one, any other value has no delimiter in it, and a
  delimiter follows it.  All .json files of the run `sources` are such.
* `FilesConfigOK`: any finite set of files of any form, but a .toml file is one
  document, a file that breaks while it is streamed has a first record to break
  after, no document is the model's word for an error, and a file that is
  named by its stem shares the stem with no top-level `<key>.json` but itself.
  The last is needed: two such files have one id, and a fetch of it reads the
  `.json` (`docPath`).  `DrainConfigOK`: spans are sequences of entries.
* `SessionConfigOK`: the script is a sequence of statements of the model's forms,
  of any length, over a file of any records; and four things are left out, each
  of which breaks the property as the code stands.  A plan that an EXECUTE has
  kept holds the heap of a temporary keyspace, so a later EXECUTE reads that heap
  although the keyspace has been replaced or dropped (`ExecuteRun`,
  `session.go:688`): no prepared statement reads `t`, or `t` is neither made nor
  dropped after an EXECUTE.  A compiled statement returns its rows instead of
  streaming them, and the command line prints no returned rows when it streams:
  with `-exec=compiled` the output does not stream.  A second PREPARE of a name
  forgets the directory of the first one's binary: with `-exec=compiled` no
  name is prepared twice.  A panic inside CREATE is recovered by `Run`, which
  knows nothing of the heap under way: no operator panics in a script that has a
  CREATE.  All configurations of the run `shared` satisfy it.
* `~Quiet`: a diff cursor has no `advance --to --quiet`; the run `diff_two_step`
  shows what happens otherwise.
* `~RacyRescan`: no file is replaced between the two scans of one command
  (section 4).  `SomeRecord`: some file holds a record at first.  It is needed:
  a peek of files without any record prints the empty string for its position
  (`encodeWater`, `multi_cursor.go:449`), and `advance --to ""` or an empty
  `--to-file` is taken for no token at all (`multi_cursor.go:1087`) and commits
  the head, so that with `--quiet` whatever was appended since the peek is
  skipped: the run `empty_token`.  `CursorsNeverMiss` and
  `CursorsDisclose` also name what the parts of the run take for granted: that
  "a" and "b" are files, and that the value for "no cursor" is not a cursor.
* `SiOpsOK`, `FtOpsOK`: the files do not change while a backward page is read.  Changes
  during any other operation, and at any time around it, are admitted, as are
  crashes between any two steps.  Section 4 (`Races`) shows that a change under
  a page is not noticed.
* `FtSince <= Cardinality(IdxContainers)`: the full-text index's `since=` is not
  later than the clock of the initial states.  A page's batch and its floor are
  written one after the other; with a floor in the future a crash between them
  would leave entries of a file that can change and still lie below the floor.

**Stage.**  `TypeOK` is not inductive: the callback reads `mem[cbuf]`, which
has a type only if it holds a batch; `TypeInv` adds `BufInv`, that a goroutine
in its select or in the callback holds a batch that is not nil.  `OneOwner` is
inductive with `TypeInv`: each action moves a buffer from one owner to another,
and `AcquireBatch` takes one from the pool or one that nobody holds.
`StopCopyLive` needs `StartInv`: `StopCh` stays open until the consumer has
passed every `StartActor`, because an actor's operator, the only one to close
it, waits for the consumer on `ActorReadyCh`.  `ErrorReported` needs two facts:
`ErrInv`, that `stage.Err` is set iff some actor has an error and is then one
that an actor raised; and `CountInv`, that the nils received and those still in
`BatchCh` number exactly the finished actors, so that the consumer leaves its
loop only when no actor can fail any more.  `RowsDelivered` accounts for every
row between the actor and the callback (`FlowInv`): the actor's own batch, the
actor's batches in the channel and the batch under the callback are runs of
consecutive rows, each beginning where the next one closer to the consumer
ends, and the one closest to it begins after the rows in `out` (`Fill`, `Chan`,
`Read`, `ChainInv`).  `SendInv` says what an actor at each blocking point may
still hold, and `EndInv` that one which has left without an error or a stop
holds nothing; with `CountInv` nothing is then on its way either.  The bound on
buffers is `LoadInv`: the channel and the callback hold at most one more than
the channel's size, and each actor one.

**StageCursor.**  `TypeInv` adds that no more rows are accepted than were
yielded; `ControlInv` ties the program counters of the two goroutines to
`done`, `finished`, the closing of the channel and the stop; `ChainInv` says
that the rows pulled, those in the channel's batches and those in the
producer's batch are 1, 2, 3, ... in that order; `SizeInv` bounds the batches in
the channel and their rows.
`PulledInOrder` adds up.  The refinement goes step by step: filling the batch is
the stream's accept, a pull is its pull of as many rows, the closing of the
channel is a stutter, and `Wait` returns the error that the stream ends with.

**Merge scan.**  `MergeInv` is about each regime at once: what was yielded and
what is buffered is exactly what was consumed of each child, each row once
(`RowsInv`), the program counter knows which children are used up
(`ControlInv`), and under the "error" policy the output is sorted up to
`lastKey` (`OrderInv`).  `BandInv` bounds the streaming variant's buffer by the
keys within the reorder bound of the largest one.  `AlarmInv` is about children
that keep what they declare (`Honesty`): none of their unconsumed rows lies
below the watermark or the last key, also when the watermark underflows.  The
least element of a heap is the least of a finite set of integers, so the
argument does not depend on how ties are broken.

**ORDER BY, OFFSET and LIMIT.**  The order of rows is a strict weak one
(`RowOrder`): rows that no direction tells apart are equivalent, whatever the
directions and the place of NULLs.  While rows are pushed, each row that is not
in the heap is not below any that is, and the heap lacks rows only when it is
full (`KeptInv`); the slots are sorted, and none is below what is left in the
heap (`SortedInv`).  A heap of n rows and the slots after them are then a sorted
order of the least n + Len(slots) rows, so the rank of each slot follows by
counting (`SlotRank`): at least as many rows are not after it, and fewer before
it, than its place (`SlicedInv`).  `PassInv` counts the rows without ORDER BY.
A wrapped sum stands for "no bound", since no input has more rows than `int64`
counts.

**Joins.**  The merge join never looks back, so its invariants say what it may
forget.  By equal keys, all right rows it passed lie below the last left key
(`KeyInv`); by what precedes, it holds of each partition the last row that it
passed (`HeldInv`); by what follows, the rows of a partition before its index
lie below the last left key (`IndexInv`), or its queue holds just the passed
rows that do not (`QueueInv`), none of them beyond the tolerance
(`JoinBandInv`).  The left side is in order as far as it was read, hence the
next left row needs no row that is gone, and what is at hand is its match by the
definition (`JoinedInv`: the output is that of the left rows so far, one after
another).  This holds while the right side is whole; `JoinErrInv` says that a join
that ends without an error has read its left side to the end, and on a
materialised or peeked right side met no error.  The proof found a precondition
too weak: `mjInRange` admitted keys whose difference is the least `int64`, which
has no negative, so that the distance of a row that follows wraps; TLC's keys did
not have that difference, and now do.

The nested loop's output is a prefix of its rows (`LoopInv`), by induction on the
right rows of one left row and on the left rows.  For the hash join and the set
operators the argument counts how often each row occurs (`Times`, additive over
concatenation): the entry of a key has counted the left rows and the right rows
seen so far and chains the left rows (`MapIs`, `EntryIs`), so each right row
adds each of its pairs once (`JoinOut`) or, of a set operator, one row if fewer
have come out than went in (`SetOut`); a visit of the keys then adds what is left.

**Contexts.**  An extractor and the window it replaces are compared by the rows
that are flagged by a match among the first `t` (`Flagged`).  The invariant
(`Extractor`) says of each extractor that it owes rows exactly as far as the last
match reaches, and that it remembers an unbroken run of rows up to the last, none
of them flagged, which holds every row that is not flagged but within reach of
the next match.  So what it emits on a row is what becomes flagged by it, each
row for the first time (`ExtractorStep`), and the results occur as often as that
(`TimesInOne`: the others' results have other labels).  A partition starts afresh
because no row of it came before (`Contiguous`, from the sort).  At the end the
flagged rows are those of the frame: within a partition, places differ as row
numbers do (`PlacesAreNumbers`), and a maximum over a frame reaches the flag just
when a match is in it (`MostIsTop`, `CaseIsFlag`).

**Groups.**  The accumulator of an aggregate is a function of the values it was
given, in their order (`AccOf`): their number, their sum, the best of them, or
the list of them or of the first occurrence of each, as the aggregate asks.
It starts so (`AccStarts`) and every update keeps it so (`AccUpdates`); the result
is then the aggregate's definition (`AccResults`).  A sum over a sequence is
given by a function of its prefixes, which exists and is unique
(`SumsExist`, `SumsUnique`, by a least counterexample), the least and the greatest
value because values of all types are in a total order (`ValOrder`, `BestExists`).
`GroupMapInv` says that after any number of rows the map holds just the groups
of these rows, each with the accumulators of its own values in the order of the
rows (`GroupGrows`); `GroupOutInv` that the visit of the map has yielded each
group it has seen once.

**Windows.**  In an ordered partition the rows within an edge of the current row
reach up to it, and as it moves on, no row comes to be within the edge behind
it and none ahead ceases to be (`EdgesMove`).  So a cursor that resumes where the
row before left it ends where a scan outward ends (`CursorsAsScan`), for numbers,
strings, NULL and MISSING and for bounds of either sign.  `WindowFrameInv` says
that the cursors of a drain are those of its last row, and that the first row of
a partition, which has a new id, starts them anew.

**Cursors.**  A diff cursor's commands exclude one another (`CommandInv`: what a
running command has loaded is still so), so `FilesInv` (no state without its
snapshot) survives a crash anywhere; what is in the file is in the saved form
(`Saved`), what a query gives in any (`Raw`).  `StampInv` says that a version
names the one snapshot it was committed with, unless it is in `torn`;
`ReplicaInv` that the caller's copy agrees with the committed snapshot except on
`missed`.  That rests on lemmas about the operators alone: applying the
difference of a saved snapshot and a result to the first gives the second as it
is saved (`ApplyDifference`, by `Applied` and, for rows without an event,
`Unprinted`), the two are one when there is no difference (`NoDifference`), and a
result that differs from its own saved form has a row that is not in it
(`OnlyBytes`).  For append cursors `WaterInv` types every
mark that a command holds and, for a command that is to save, says which
containers it may lower (`PositionKept`, flag by flag); a commit then rewinds
nothing else, or has been overtaken by another command.

That an append cursor never misses rests on what a position says of each file.
`KnownInv` (one-step advances): every mark has a fingerprint, and where the
record at the mark still is the one of the fingerprint (`Kept`), every record up
to the mark was delivered or given up by an acknowledgement (`StateOK`); records
are numbered as they are written, so a file that was replaced or cut short and
filled again cannot be kept by chance.  It holds of the committed position, of
the one in the temporary file and of those that commands have loaded or are to
save, which is why commands may run at once.  Each of the two scans preserves it
(`CommitOK`): of a file that was found violating, the mark stays as it was or is
acknowledged with what lies behind it; of any other, the filter lets through all
above the mark.  `~RacyRescan` says that the violations found by the first scan
are still those of the second (`FoundNow`).  `HeldInv` adds that what was
disclosed is violating in the committed position and in every one to be saved
(`SavedOK`): an advance that does not acknowledge pins the mark and keeps its
fingerprint, since the scan's own is scrubbed.  It needs that commands follow
one another: one that loaded its position before an acknowledgement would save
the violation again.  With tokens there are no fingerprints to go by, and
`TokenInv` says instead that the files only grow: every position, committed,
loaded, to be saved or printed by a peek, has its marks on records and only
delivered ones up to them (`Sound`), so a token may be as old as it likes.  A
sound position is never reported as violated (`SoundUnviolated`), hence neither
of the flags about violations does anything.  `PartInv` puts the parts of the
run together.

**INSERT.**  `HolderInv`: at most one live statement holds the temporary file,
by its exclusive creation.  `Progress` (with `Working`, `Written`, `Queued`)
says where each row of the source is: written to the temporary file, in the
queue, or not yet evaluated, in order; `FilesInv` that the target holds of each
statement all rows or none; `NoLeftover` that a temporary file without a holder
is that of a statement that died.

**Record sources.**  `SplitInv` relates the splitting to the text that the file
was written as, of which it may be a beginning only: between two steps it stands
behind the last value it found and not behind the start of the next (`Between`),
or at the end of a file that is cut off.  White space and commas lead from one to
the other (`NextToken`); there the value's own end is found, since the bytes from
its start on are the value, or a beginning of it in which no end is
(`ScanFinds`, by `SliceIsPart`).  `LineInv` says of the line reader that it
stands at the beginning of a line, however the bytes came in; that its records
are those of the lines before with something on them; that the ordinals count
the newlines; and that what was appended since lies behind them all.  A source
of the pool is in it or with one scan, which filled its buffers with the file that
it is at (`PoolInv`); every source was made for a file of its own (`MadeOnce`),
hence there are never more than the scans have files.

**Datastore.**  Everything rests on what may become of a file (`Evolved`): a
line is appended to it or it is gone, and a file that arrives is of no interest
to a listing that was made before.  A document keeps its record and its id
(`EvolvedRecord`), which for formats that number their documents needs that
only .jsonl files grow, and those number lines.  `ScanInv` accounts for the
rows: of every file before the one the scan is at, it gave all that was there
to begin with, one after another, or none with a warning (`Settled`); of the
open one, the rows given and the records still in hand are together the file's
(`ReadOn`).  `RowsInv` says of every row and key that it is a record of a file,
`CacheInv` of every cached document that a read would find it still.  An id leads
to one record only (`FoundIsIt`), so that what a fetch reads or takes from
the cache is the record's, or the whole file where the record is the only
element of an array (`Due`).  `DrainInv`: what was sent is what is in the sender
and what was yielded, without repetition, and covers the spans up to where the
goroutine is.

**Shared rows and scripts.**  `ScanInv` and `CapturedInv`: a scan has served a
prefix of its source, and what was registered in the cache is a complete
capture of a scan that is over and was not cut short.  `TempInv`: each open
heap has one owner, and a reader reads only open ones.  `StreamInv` follows the
order of the deferred steps (`errc`, then `recs`, then `finished`), so that the
end seen by `Next` is the end of the script.  `RuntimeInv`: each group has a
handle of its own, whose slot holds the fold over the rows so far.  `XcInv`,
about the memoised describe of `TemporalRewrite`, orders three versions of the
file: what was said under a fingerprint was read at that version or later, a
query's own fingerprint is not later than the present one.

**Session.**  `SessionInv` says of the state between any two steps what each
part of the session relies on.  `StoreInv`: the keyspaces hold what the
statements that ended well made of them, also while another statement runs.
`OpenInv`: an open heap is that of `t`, or of the CREATE under way, which
whatever ends it closes or installs.  `PrepInv`: a name was prepared by an
earlier statement, and a plan that it has is what its keyspace still resolves
to; the argument is that a statement that changes `t` comes before every
EXECUTE, or no prepared statement reads `t`.  `BinInv`: the binaries on disk
are those that the prepared statements name.  `RunInv` follows the hooks from
`exec` to the scan: `OnRow` is the caller's, or the collector or the writer of
the statement, and `back` is the caller's.  `ScanInv` relates the rows printed,
returned, collected or written to the records at the scan's position, and the
halt flag to the place where an interrupt landed: the flag is up in a scan only
if an interrupt landed in that scan, since `PlanExec` lowers it first, and it
ends the scan if a look is still to come (`ScanEnds`).  `EndInv` and `EndsInv`
carry this to the end of the statement and beyond it.

**Indexes.**  The invariants `SiInv` and `MiInv` say what the entries have to do
with files that have been changed since.  A signature's time bounds the
modification time of all containers in scope (`SignatureTime`), so that a
container changed later shows in it; the entries of each container in scope
that was last written by then are its records (`Faithful`), and none is of a
container below the floor (`Scoped`).  A mark names the record at its offset, so
that where a file still holds the record, it holds all before it, and those are
the entries (`Marked`): a record of a rewritten file is another one.  Hence a
catch-up that meets no anomaly stores what a rebuild from the same walk would
(`FoldIsRebuild`), and a page with its floor (`PageFloor`, `PageStored`) extends
the scope by exactly what it read.  The full-text index writes its directory,
its floor and its signature separately, so `FtsInv` speaks of two signatures:
a walk has read all that was written by the time of the one in the file, which
stays if the process dies before the new one is written, and of the one that
the open has taken (`FtsWalkInv`); and of a file below the floor the directory
holds nothing, or all that a page without its floor has left (`BelowExact`).
For the index in memory, `WriteInv` says that a blob under
way lacks exactly the entries it announces and has not got, so that one which
can be read to its end is complete (`BlobInv`).

**What stays with TLC, and why.**

* Liveness (`Termination`, `Released`, `CloseReturns`, `ScannerEnds`,
  `InsertEnds`): fairness and ENABLED are out of the prover's reach.
* What recursive definitions compute for every input: `Columnar`, `Conv`,
  `Expressions`, `IndexSpan`, `MultiQuery` and `Subquery` declare RECURSIVE
  operators, because the code they translate walks trees.  The library's
  induction theorems take an operator as parameter and cannot be used, so the
  proofs here reason with least counterexamples where they need induction on
  numbers (`LeastNat`, `LeastOffset`, from the well-foundedness of < on Nat).
* Not proved: of `Window`, that exclusions and the functions over frames are
  those of the definition, the rewrites of `TemporalRewrite`, `PackEntry`.  What an append cursor promises of tokens for files that shrink is
  only that marks do not move back unasked (`MarksNeverRewind`): the rest fails,
  as section 4 says.

## 6. Plan

Everything the inventory names is modelled as far as section 7 says.  Proofs
to come, in this order:

1. The rest of `AggregatesExact`: windows against their definition.
2. `RewriteSound`, whose merge rewrite needs a model of the scan order, and the
   entries of packs (`EntriesSound`).

## 7. What is not modelled, and why

Third-party code is modelled by how it is used: the planner and cbq's
expressions (the reference of `LoweredSame`), the JavaScript engine, bbolt and
bleve (atomic batches), arrow, the rhmap stores.  Statistics are counters that
nothing depends on.  Formats that only parse or print, the object stores, the
Iceberg manifests and VARIANT encoding, YAML and CSV inference, argument
handling and completion are I/O or text without concurrent or durable state.
Arithmetic on floating point numbers, dates, regular expressions and most
string functions are pure leaf functions, out of TLC's reach.  The generated
compiler output is the interpreter's code, specialised.

Within the modelled parts:

* Streams and operators: keyless rows and the materialised drain of the merge
  scan; `trackRank`; sliding COUNT and SUM of frames that start two or more rows
  ahead, and any sliding aggregate of ROWS frames that end two or more rows behind,
  whose end the code does not clip at 0 (`base/agg_window.go:543`);
  soft tolerances whose sum with a key wraps; numbers are integers.
* Sessions: lines of a compiled child's output that are too long or unparsable;
  the generated binary's directory after a second PREPARE.
* Indexes: names and definitions of the catalogue; a signature is the count and
  the newest change, so that a rewrite that keeps both is not noticed, in the
  code as in the model.
* Packs: subqueries inside the WHERE of fused entries; the order of literals
  matched within one row; truncation of hashes.
* Conversion: UNNEST, NEST, LATERAL, WITH, GROUP AS, windows, EXCLUDE,
  INTERSECT and EXCEPT; rows that tie have any order.
* Expressions: one function of each family; the dispatch on the number of
  arguments of SUBSTR, TRIM and the regular expressions.
* Files: keyspaces whose stems collide, a torn last line, YAML markers; nested
  Parquet columns and parts of differing types; vectors of differing widths.
* Cursors: whole-file units, the read-only verbs; hash collisions of
  fingerprints are assumed away.
* INSERT: the encoding and the types of columns, and the rows that RETURNING
  prints.
