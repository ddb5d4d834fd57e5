# A formal model of marketdata-provider

This directory holds TLA+ specifications of `marketdata_provider`, the TLC
configurations that check them on small instances, and TLAPS proofs of the most
important results for every instance. Paths are relative to `src/marketdata_provider/`
unless they begin with `src/`. `PROJECT.json` maps every definition to the lines it
models and lists runs, mutants, hazards, findings and theorems.

## 1. The system

The package fetches OHLCV candles from exchanges (REST pages, archives, WebSocket
streams), keeps them in a local store, and answers range queries from that store,
fetching what is missing and building higher timeframes from lower ones.

| Part | State | Operations | What is hard | What makes it correct |
|---|---|---|---|---|
| Segment store `store/segment_*.py` | per series: `bars.csv` or `bars.parquet`, manifest, append journal, replace journal, hard-linked backup, integrity generation, a row of the SQLite index, a lock file | append, replace, upsert, compact, vacuum, read, open | a crash between any two file operations, also inside a recovery; several processes; hard links; a reader that finds a journal | one complete generation or a journal that leads to one; reads are atomic; rows ordered; recovery never refuses |
| Candle store `store/candle_store.py`, `store/current_store.py` | the series' final candles, the open row per transport, the stream checkpoint | `upsert_open`, `commit_closed`, the two checkpoint updates | separate transactions, partly outside the series lock; calls that die midway and are repeated | a final candle never changes; the checkpoint never runs ahead of the store; open rows are cleared |
| Streaming `streaming/*.py` | the coalescing queue, counters, the set of final candles seen | `put`, `drain`, `run` with reconnect and backfill | a full queue, late updates, a store that fails, a second writer | every update is accounted for; final candles reach the store |
| Service `service.py` | the flight locks; derived series | `fetch_bars`, `materialize_bars` | threads of a process and other processes working from an old reading; the candle being formed; failures inside the flight | answers are complete; only closed candles are final; nothing stored is lost |
| REST sources `exchanges/binance`, `exchanges/bybit`, `exchanges/public_spot.py` | the cursor and the pages collected | paged fetch of candles and trades, retry | candles open and close between pages; failed and repeated answers | the result is complete as of one server time; a fetch of candles ends, one of trades unless a full page is repeated for ever |
| Archive `exchanges/binance/archive.py` | downloaded ZIP files | fetch a range, fill gaps | a ZIP written in place by a process that is killed, or by two; months before days, limits on both | a candle is missing for a reason only; monthly and daily files are not mixed |
| Footprints `footprint/`, `store/raw_store.py`, `store/footprint_store.py` | partitions of raw trades (payload and manifest), a footprint file | `fetch_footprint`, `write_batch`, `read_partitions`, `write`, `read` | no lock; payload and manifest are two renames; trades go on while a call runs | a partition is never read torn; a footprint that was fetched has every trade the fetch returned |
| Local bar cache `cache/local.py` | a CSV and a metadata file, both written in place | write, read | two files, two writers, a killed writer | a read that succeeds is one segment as it was written |
| Range reader `store/segment_csv.py` | none | bisection over bytes, scan | offsets inside rows, ends of the file, unparsable times | exactly the rows of the range |
| Repair `store/repair.py` | a log | audit, repair | a series that changes meanwhile; sources with several revisions | the series is as the source says, and no other write is lost |
| Adapters `factories.py`, `_adapters.py` | none of their own | canonical and legacy write, read, fetch | several steps over one store; partial failure | results tell the truth; a snapshot serves what is stored |
| Canonical bars `canonical/` | none; revision chains of bars | build and validate a snapshot | order of rows, repeats, revocations, ranges that end within a bar, bars that overlap | the newest valid revision of every bar of the range, whatever the order, or a refusal |
| CLI, acceptance, distribution, registry, symbols, timeframes, contracts | none | parsing, reports, tables | | not modelled: no state and no ordering |

Interactions. The service calls a source, writes the base series through the candle
store and the segment store, reads back, and writes derived series to the segment
store. The supervisor takes updates from the queue and calls the candle store. The
candle store holds the series' writer lock of the segment store while it writes final
candles; open rows and checkpoints are SQLite transactions of their own. Processes
share nothing but the directory, the SQLite files and the `flock`; threads of a
process also share the service's flight lock. The adapters sit on top: the exchange
provider calls the service and reads the store twice, the candle store adapters and
repair write to it. Footprints, raw trades, the bar cache, archive ZIPs and offline
files are directories of their own, which processes share without any lock.

## 2. Modules and the code

| Module | Models | State and actions |
|---|---|---|
| `SeriesRows` | rows, ordering, merge and tail of a batch | operators only |
| `SegmentStore` | `store/segment_*.py` for one series | `dir`, `manifest`, `index`, `ajournal`, `rjournal`, `integ` are what is on disk; `writer`, `readers` the lock; one step per system call that changes any of them; `Crash` at every step |
| `CommittedSeries` | the promise of the store: a series changed by atomic operations | invoke, commit, return |
| `SegmentStoreInvariant` | the inductive invariant `StoreInv(env)`, `IInv` for a disk that only the store writes | |
| `SegmentStoreEdited` | the same store with somebody editing `bars.csv` behind its back | adds `Edit`, and the inductive invariant `EditedInv` |
| `CandleStore` | `candle_store.py`, `current_store.py` over an atomic series | one step per SQLite transaction and per segment operation; `Fail` between any two |
| `StreamSupervisor` | `MockWebSocketSupervisor.run`, `CoalescingKlineQueue` | extends `CandleStore`: the run's steps, and other processes' calls between them |
| `MarketDataService` | `MarketDataService` and what it calls | extends `CandleStore`: one step per store or network access of a call; `Tick` closes candles |
| `RestPaging` | the two `get_bars_sync`, `binance_get_agg_trades_sync`, `public_market_get_bars_sync` and their `_get_json` | one step per HTTP attempt; the exchange's clock runs meanwhile |
| `CanonicalSnapshot` | how rows become a snapshot: `canonical/bar.py`, `canonical/provider.py` | operators only |
| `StoreAdapters` | the adapters of `factories.py` and `store/repair.py` | extends `CandleStore` and `CanonicalSnapshot`: one step per store access of an adapter call, between the store's own steps |
| `CsvRange` | `store/segment_csv.py` | the offsets of the bisection, then the row of the scan |
| `LocalCache` | `cache/local.py` | the rows of the data file and the metadata; one step per row written or read; `KillCacheProcess` |
| `FootprintPipeline` | `footprint/`, `store/raw_store.py`, `store/footprint_store.py` | payloads and manifest of each day, the footprint file; one step per file access; `Trade` is the exchange, `KillFootprint` |
| `ArchiveFetch` | `exchanges/binance/archive.py` | the ZIP files; one step per download, write or read; `KillArchive` |
| `OfflineFile` | `_OfflineProviderAdapter` | a file with any rows, and one query |
| `LocalFiles` | the five modules before, of which a behaviour exercises one | |
| `SegmentStoreProofs`, `CandleStoreProofs`, `StreamSupervisorProofs`, `MarketDataServiceProofs`, `StoreAdaptersProofs`, `RestPagingProofs`, `LocalFilesProofs` | theorems, one module for each specification | |
| `SharedFacts` | lemmas the proofs share: least and greatest elements, places in a total order, and what `build_public_snapshot` makes of the rows of one candle | |
| `MC*` | instances for TLC | |

Composition. `CandleStore` uses the series as `CommittedSeries` promises it: a write
under the lock is one step. That step is justified by the property
`ImplementsCommittedSeries` of `SegmentStore`. `StreamSupervisor` and
`MarketDataService` extend `CandleStore`, so their steps interleave with its calls.
`MarketDataService` uses a REST source by what it returns: the candles of the range
that are closed, or an error; `BarsAreComplete` of `RestPaging` is what justifies it.
`StoreAdapters` uses the service by what a call of it stores, in one step, and takes
the series operations from `CandleStore`. The modules under `LocalFiles` share no file
with each other, so `LocalFiles` does not interleave them.

How data is abstracted:
- A row is an open time and a value. A checksum is the sequence of rows it was
  computed from, so two checksums agree exactly when the rows do. Encodings (CSV text,
  the chained digest, SHA-256) are left out; the difference between a plain checksum
  and a tail chain is kept (`base`), since a chain can only be extended.
- File sizes count half rows: a torn append is an odd size, and `truncate` restores an
  even one. `mtime` is a stamp that a new write may or may not repeat.
- The backup is a second name for the same inode, as `os.link` makes it: what is
  written in place shows through both names, what is renamed does not.
- A derived candle is the set of base candles it was built from; the arithmetic is
  left out.
- A bar has an open time, a value, a transport and a receipt time, since
  `commit_closed` compares provenance too.
- In `RestPaging` an item is an id and a time. The exchange is external: it answers
  with the oldest `limit` items from `startTime` on, the newest when there is no start,
  which is what both loops are written for. The code treats Bybit alike, and so does
  the model.
- In `StoreAdapters` the provenance of a bar is its provider, provider revision,
  revision and state. A negative value is the candle without the decimal text of its prices, which
  `canonical_candle_payload` tells apart and a snapshot needs.
- A content hash in `CanonicalSnapshot` is the part of the chain it covers, since each
  revision hashes the one it supersedes. `close_time_ms` is a constant operator: the
  last millisecond of the bar that opens at a time, which `_canonical_close_time`
  (`canonical/bar.py`) takes from `close_time_ms` of `timeframes/__init__.py` and of which
  the proofs assume nothing. Every row carries that close time, since any other is
  refused (`v` negative in `StoreAdapters`, not `legible` in `OfflineFile`). A range
  need not end on the grid, and open times need not lie on it.
- The service expects the candles at `start`, `start + Duration`, ... of a range, as
  `_coverage_complete` does, and a read takes every stored candle that opens in it.
- A page may be repeated by a cache between the exchange and the client, of candles and
  of trades alike, any number of times and between any two other answers.
- A CSV file in `CsvRange` is the offsets and times of its rows; rows may have any
  length.
- A footprint bar is the set of trades in it, a payload the set of trades it holds and
  its checksum the same set; price levels are left out. `footprint.csv` has a manifest
  too, but nothing reads it.
- An archive bar is its open time, the period it came from and the rows merged into
  it; a month has a fixed number of days.

## 3. Runs

Every run finishes within three minutes on two workers. Where the cfg says
`CHECK_DEADLOCK FALSE` the workload is finite and the system stops when it is done.

| Run | Question | Bounds and why they are enough |
|---|---|---|
| `SegmentStore` | Do crash consistency, recovery, ordering, atomic reads and the refinement hold? | 2 processes, 3 operations, crash at any step: one operation crashes, a second one crashes in its recovery, a third recovers; 4 inodes, so that freed inode numbers are reused; batches that overlap, conflict and are empty; a legacy plain-checksum segment |
| `SegmentStoreEdited` | Is an external edit ever served, and does every operation end? | 2 processes, 2 operations with crashes, 1 edit: validate, edit, read; a reader that meets a journal while a writer comes in between |
| `SegmentStoreOpen` | violation, see findings | |
| `CandleStoreLateOpen` | violation, see findings | |
| `StreamSupervisor` | Accounting, queue limit, storage of final candles, checkpoint, open rows, reconnects, immutability, termination | queue of 2 or none, six streams (overflow, correction, redelivery, an older candle closed after a newer one opened, out of order), a reconnect with backfill, one failure, three calls, some of another process and over another transport |
| `StreamSupervisorLate` | violation, see findings | |
| `MarketDataService` | Completeness, finality, flight, no lost candle | 2 processes, 2 calls, 1 failure, a stream that also writes, compaction, 4 candles in 2 buckets, a query off the bucket grid |
| `MarketDataServiceThreads` | Do threads of one process share one fetch, and do calls end? | 2 threads, 2 calls, 1 failure, a gap no source can fill |
| `MarketDataServiceMaterialize` | violation, see findings | |
| `RestPaging` | Is a paged fetch complete, and does it end? | pages of 2, five candles with a gap, up to 3 pages, one retry per request, pages repeated any number of times, the clock anywhere in 0..11; trades that share a millisecond; public exchanges asked by range, start, end or count |
| `StoreAdapters` | Do repairs converge, do snapshots serve the store, are write results true? | 2 processes, 3 calls, 1 death: a writer, a repair and a reader overlap; two candles of length 2, one before and one after the archive's cutoff; ranges that end on the grid and within a candle; a batch with a tail and a repeat, one that is not closed; a snapshot with an open candle of another provider under the sources' provider revision, and one that keeps a correction; a source with two revisions and one whose candles overlap, strict or not; an open row that corrects the stored candle, or comes from a series or a snapshot; compaction |
| `LocalFiles` | Are range reads exact, are the lock-free files never served torn, does a shortfall have a cause, does the order of an offline file matter? | files of up to 4 rows of 1 or 3 bytes, every start and 4 probes; 2 processes and 4 calls on one cache segment; 2 processes and 3 footprint calls over 2 days and 4 trades that arrive while they run; 2 processes, 2 archive calls, 9 archives with rows missing, shifted or not published, limits of 1 month and 1 day; all offline files of up to 4 of 11 rows of length 2, one off the grid, and ranges that end on the grid and off it |

Every property of a passing run has a mutant in `PROJECT.json`: a small change of one
definition (marked `Mutant:` in the modules) under which TLC finds the property
violated, so that none of them holds for lack of behaviour.

### Fairness

- `SegmentStoreEdited`: weak fairness of each process's next step, once it has begun
  an operation. A step is a system call, and `flock` is granted when it is free; the
  workload is finite, so a lock is free in the end and weak fairness suffices. Crashes,
  edits and new calls are not fair.
- `StreamSupervisor`: weak fairness of the run's own step. The other process holds the
  lock only inside its finite calls, which are fair as well.
- `MarketDataService`: weak fairness of each thread's step inside a call. Failing calls
  are not forced or excluded.
- `RestPaging`: weak fairness of "the pending request is answered in some way": the
  client has a timeout, and every sleep is finite. `FetchEnds` makes one exception,
  which is the code's: `binance_get_agg_trades_sync` has no check for a stall
  (`exchanges/binance/trades.py:94-114`), so without `max_trades` it goes on while a full
  page is repeated for ever. `repeats` counts 0, 1, 2, 1, 2, ... so that a repetition is
  a step although it changes nothing else.

## 4. Proofs

Checked by TLAPS for any number of processes, times, values, inodes, operations and
crashes, and for every input the assumptions admit. The assumptions are named, stand in
the module that declares the constants, and TLC evaluates them in every run.

**`SegmentStoreProofs`** proves `Invariance`, `Spec => []IInv`, and from it
`CrashConsistency`, `RecoveryNeverStuck`, `NoCorruption`, `OrderedRows`,
`OnlyOperationsCommit`, `ReadsAreAtomic` and `TypeCorrect`; then `Refinement`, that the
store implements `CommittedSeries`. Assumptions: the inputs are ordered batches of bars
(`InputAssumption`: `validate_bars` has run), there are at least two stamps, `Nil` is
none of the values, rows or calls.

None of these properties is inductive. That a recovery always succeeds depends on which
disks a crash can leave, and that depends on what each step had already done.
`IInv == StoreInv("closed")` says both:
- `LockInv`: at most one process inside the exclusive lock, and no reader then;
- `LinkInv`: names that share an inode are the same file;
- `DiskInv`: the disk is quiet (one clean generation, the index row agrees), or an
  append journal is there and the file is a prefix of the new rows that contains the
  old ones, or a replace journal is there and either the new generation is in place or
  the old one can be brought back, from the live file or from its backup;
- `OrderInv`: whatever is or will be committed is ordered;
- `JobInv`: a call keeps to its own control path;
- `PhaseInv`: what the lock's holder has achieved at each of its steps, which ties its
  program counter to the disk;
- `ResultInv`: no call has ended with "unrecoverable" or "corrupt".

The proof has one lemma per action; steps outside the lock cannot touch the disk
(`LockInv`), a crash keeps the disk and releases the lock, so `DiskInv` alone must carry
it. The refinement needs `CInv` as well: what a call has planned is the effect of that
call on the generation that is committed now, although the plan was made several steps
earlier. Every start maps to `Invoke`, the two writes of a manifest to `Commit`, every
end, exception or crash to `Return`, and all other steps, recoveries included, to a
stutter.

`EditsNeverServed` proves `EditedSpec => EditsAreDetected`, for any number of processes,
operations and edits, each made while the series is at rest (no lock held, no journal).
An edit breaks `IInv`, which knows the rows of every file. The lemmas of the actions are
therefore proved of `StoreInv(env)`: `"closed"` is `IInv`, `"open"` knows of a data file only that it is there and how many rows it has, which an
edit keeps. That is enough for every recovery to find the file it needs, and it says
nothing of the rows a reader gets; `EditedInv` adds why those can be trusted:
- `FormatsApart`: a CSV and a Parquet name never share an inode;
- `LiveInv`: the published generation describes nothing but the live CSV file, under one
  name or two, or the backup of the replacement that is pending;
- `DroppedInv`: that backup is gone before the journal is;
- `Trustworthy`: while no writer has published since the last edit, a file that the
  generation describes has the rows it was published for.

An edit, like every write in place, gives the file another modification time, so the
edited file is described no more (`WriteInPlace` in the model; `segment_integrity.py`
compares `st_mtime_ns`). A read that is served has then trusted a described file, or has
compared the rows with the manifest.

**`CandleStoreProofs`** proves `CandleInvariance` and from it `CandleTypeCorrect`,
`CheckpointNeverAhead`, `LockAlwaysReturned`, `FinalCandlesNeverChange` and
`RedeliveryCleansUp`. The strengthening: a call past its segment write carries a bar
whose candle is stored, and a checkpoint it has read names a stored candle; while one
process only has used the store, a commit past its deletion has left no open row.

**`StreamSupervisorProofs`** shows the same of a run of the supervisor with other
processes between its steps (its steps are those of `CandleStore`, or leave the store
alone), and of the queue: `QueueStaysBounded`, `UpdatesAreAccounted`,
`ClosedCandlesAreStored` and `ReconnectsStayCounted`. For the third the invariant follows
each closed update: it is still to come, queued, in the hand of the run, stored, or
dropped and counted. It needs `OrderedStreams`, no open update of a candle after its
closed one, as a hypothesis: without it the claim is false, which is the finding
`StreamSupervisorLate`.

**`MarketDataServiceProofs`** proves `FlightsAreReleased`, `OnlyClosedBecomeFinal`,
`AnswersStayComplete`, `CandlesAreNeverLost` and `FlightsAreSingle` from
`ServiceInvariance`. `FlightsAreSingle` has the hypothesis `OneHome`, one process and no
other writer of the series: another process does not know of the flight lock. Its
invariant says of each step inside the flight what has been looked at and cannot have
changed since. `ServiceAssumption` asks for one receipt time at least and that `Nil` is
no set of bars.

**`StoreAdaptersProofs`** proves `AdaptersInvariance` and from it `RepairsConverge`,
`RevisionsStayDeliberate`, `WritesStayReported` and `SnapshotsStayTrue`. A process inside repair holds the
series lock, hence what it has audited is still what is stored (`Alone`); a write knows
which of its bars are stored and counted (`Counted`, `Delivered`); after the replacement
the series is the one computed from the source (`Converged`). `SnapshotsStayTrue` adds
`SInv`: a stored candle stands at its own open time (`Placed`), so what one read returns
has one bar for each time; and what was read after a fetch is every candle the service
expects in the range but for `revised` (`ReadOK`). The rest is about
`build_public_snapshot`. With the open row a candle has two rows at most; they are a
chain unless the original is missing or both have the same revision, and the last of the
chain, unless revoked, is the row of `Standing`: the stored candle, or the open row that
corrects it. `SnapshotVerdict` of `SharedFacts` says that a snapshot is refused exactly
when a row is of another revision or reaches beyond the range, a candle's rows are no
chain, or two standing candles overlap; together with the provider check of
`_snapshot_source_identity` that is `Obstacle`, disjunct by disjunct. `InputsAssumption` says
that what batches, snapshots, sources and the exchange hold can be converted to bars of
the series, `QueriesAssumption` that ranges are finite, open times have a latest one
and candles a positive length, and `ProvenanceAssumption` that revision 0 is the original one.

**`RestPagingProofs`** proves `PagingTypes`, `BarsStayComplete`, `StallsStayReal`,
`OnlySplitMillisecondsAreLost` and `PublicPagesSuffice` from the loop invariant
`PagingInvariance`: what lies before the cursor is collected. The page that may be
repeated is full and lies before the cursor, which is why it can only end a fetch of
candles (`BarsInv`) and, when it sets the cursor of a fetch of trades back, loses none
(`TradesInv`); as long as none has been repeated the list has no entry twice, and after
that `OnlySplitMillisecondsLoseTrades` counts the entries against `max_trades` as the
code does. `PagingAssumption`: candles of one exchange do not overlap, limits
are positive.

**`LocalFilesProofs`** proves `RangeReadsAreExact` of `CsvRange` alone, and of the
composition `LocalRangeReadsAreExact`, `CacheReadsStayWhole`, `RawReadsStayWhole`,
`FetchedFootprintsStayWhole`, `ShortfallsAreExplained` and `OfflineFilesAreJudged`.
- Range reads, for every file whose rows are ordered, every row length and every bound
  on the probes: `best` is the offset of a row before which nothing belongs to the
  range. What `low` and `high` are does not matter for it, so the offsets at which the
  bisection probes cannot make it wrong, only slow.
- Cache: the metadata is always one segment's own, so data that match it are that
  segment, however the rows of two writers mix in the data file.
- Raw trades: a payload is named by its content and never removed, so a manifest that
  was read once names a whole payload for good.
- Footprints: from the fetch to the answer, what a call has in hand is what the exchange
  had at its fetch, unless it is marked as disturbed by another process.
- Archive: each file of the period a call is in is still to be loaded, has failed, or
  has its bars among the loaded ones (`Covered`). When none is left, a candle that is
  not there is in no file that could be read. That a candle has a file at all is
  arithmetic: days and months grow with time (`Calendar`), candles of a range lie one
  bar apart (`Grid`), and every missing candle lies in a coalesced gap (`GapsCover`).
- Offline files: the rows of a candle, sorted, pass `_resolve_bar_group` exactly when
  they are `Consistent` (`GroupVerdict`), a statement in which no order occurs. A hash
  is repeated only where an original is, so the unique rows are the distinct originals
  and every correction; their chain breaks where two of them share a revision or one
  follows a revocation, and its last row is the newest. Close times against the end of
  the range and overlaps among the newest rows are the conditions `SnapshotVerdict` adds,
  and they do not mention the order either.

Assumptions: segments are ordered by time (`SegmentsAssumption`), trade
ids grow with time (`TradesAssumption`), archive ranges are not empty and lengths of
bars, days and months are positive (`ArchiveAssumption`), and the marks for a missing file are no files
(`NoManifestAssumption`, `NoFileAssumption`); times and revisions of a legible offline
row are numbers (`OfflineAssumption`).

**`SharedFacts`** has no specification; it holds what both uses of
`build_public_snapshot` need. Sorting is not recursive in the model:
`sorted(...)` puts each row at the number of rows that do not come after it, so that a
sort is a permutation in order (`StableSort`) follows from counting, without an
induction over the file.

Only model-checked: liveness (`OperationsEnd`, `RunEnds`, `CallsEnd`, `FetchEnds`).
Fairness and `ENABLED` are out of the prover's reach. Every invariant and every action
property that a passing run checks is proved.

## 5. Findings

Each is a run that ends in a violation.

- `SegmentStoreOpen`, `OpenNeverFails` (`store/segment_append.py:371`): journals are
  listed before the lock is taken and read after it. When their owner has finished in
  between, opening the store raises `FileNotFoundError`.
- `CandleStoreLateOpen`, `CommitClearsOpenRow` (`store/candle_store.py:51`): an open
  row can be written after the candle was committed, by a call that looked before.
  `RedeliveryClearsOpenRow` shows that the next delivery of the candle removes it.
- `StreamSupervisorLate`, `ClosedUpdatesReachStore` (`streaming/live.py:62`): a late
  open update replaces the queued final one; the candle is not stored and nothing is
  reported as dropped.
- `MarketDataServiceMaterialize`, `MaterializeFillsGaps` (`service.py:237`): a gap
  between stored derived candles is not filled when the span looks complete.

Observations that contradict no document, or only loosely, and have no run:

- `commit_closed` compares candles with their provenance, so the same candle delivered
  again over another transport raises `MDCacheConflict`, while `upsert_closed` and
  append compare canonical values.
- `append_strictly_newer` publishes the integrity generation of a file of which it has
  looked at the last row only; an edit of an older row made before is trusted afterwards.
- A derived bucket is stored as closed when the base candles it has are closed, although
  others are missing or still to come; a later derivation overwrites it.
- The service's merge overwrites a stored final candle without comparing it.
- The checkpoint is read in one transaction and written in another, so concurrent calls
  lose each other's update; `CheckpointIsCommitted` holds all the same, and the
  reconnect counter is exact only without a second writer (`ReconnectsAreCounted`).
- `binance_get_agg_trades_sync` loses trades when a full page ends inside a millisecond;
  `OnlySplitMillisecondsLoseTrades` shows that it loses no others. A page of trades that
  a cache repeats is collected again, so its trades count twice among `max_trades`, and
  the fetch may end with fewer than there are; without `max_trades` it does not end while
  a full page is repeated (`exchanges/binance/trades.py:94-114`; the loops of candles
  raise `MDPaginationStalled`).
- `get_bars_sync` without a start and with `max_bars=1` returns nothing while a candle
  is being formed. A `Retry-After` that is a date raises a bare `ValueError`.
- The public adapters return rows without finality, so `_market_bar_from_core` refuses
  every one of them; the candle being formed cannot become final on that path. A range
  longer than one page is cut without notice (`PublicPageIsEnough` says when it is not).
- The exchange provider refuses a snapshot whose candles have more than one provider
  revision. Archive and REST candles, the candles of two fetches, and each stream event
  have different ones, so a range that was filled in more than one way cannot be
  served; `SnapshotsServeTheStore` lists this and the other obstacles: a candle without
  decimal text (written by the legacy store), one of another provider
  (`factories.py:194-196`; written from another snapshot), a correction stored without
  its original, an open row of the same revision left behind for a final candle, a
  candle that reaches beyond a range whose end is off the grid (`canonical/bar.py:543`),
  and candles that overlap (`canonical/bar.py:570`; a repair may store one off the grid). An open
  correction takes the place of the stored candle, which a snapshot of closed bars then
  lacks.
- A snapshot that keeps a corrected bar can never be written: revalidation finds a
  chain without its original. A snapshot that was read and is written again conflicts
  with what is stored, since the transport differs.
- With several revisions of one time in its source, repair stores the last one and the
  audit goes on reporting the others; a revoked revision is stored like any other.
  After a strict repair the checkpoint may name a candle that is gone.
- `rows_written` of a failed write does not count the bar whose write died after it was
  stored (`WritesAreReported` says that it is off by one at most).
- `_months_for_intervals` passes over the last month when the range starts later in the
  day than it ends. A ZIP cut short by a crash is ignored for good.
  `fill_binance_archive_gaps` is called by nothing in the package.
- `_raw_covers` never looks at the end of the query, so trades cached by a shorter query
  make a longer one look covered, and it needs a trade exactly at the start, so most
  queries fetch again. A raw batch replaces its day's partition.
- A footprint bar at the end of a range, or one still being formed, is stored with the
  trades it has and later served as complete. `FootprintStore.write` drops the stored
  bars outside the query's range, and two writers drop each other's.
- `read_cache_segment` does not compare the range that was cached with the one asked for.

## 6. Plan

Done: all components of section 1 that have state are modelled and checked; the safety
properties of the segment store with its refinement, the candle store, the supervisor,
the service, REST paging, repair and the write adapters, the range reader, the bar
cache, the footprint pipeline, the archive, the offline files and the snapshots of both
adapters are proved, and so is that an edit from outside is never served. Nothing of the
plan is left; liveness stays with TLC.

## 7. Not modelled

- Command line, acceptance reports, packaging and release checks: they call what is
  modelled here and print; no state of their own.
- Symbol, exchange and timeframe tables, value types of `contracts/`, configuration:
  no state and no order.
- `PublicKlineWebSocketClient.events` and the live client adapter: one socket, one
  reader, a delay and a new connection; what they deliver is the stream that
  `StreamSupervisor` takes as its input, with duplicates and in any order.
- `load_repair_source` and the field formats of canonical bars: parsing of one value,
  which is the input of `StoreAdapters` and the flag `legible` of `OfflineFile`. An
  offline row whose open time is no number refuses every query, inside the range or not;
  `OfflineFile` has no such row.
- The asynchronous HTTP client and `canonical_bars_from_binance_klines`, which the
  package does not call, and a generator from `iter_all` that a caller keeps suspended.
