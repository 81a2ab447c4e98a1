# A verification of MiniOB

This directory holds TLA+ models of the server (`src/src/observer`), from the redo log to the
network service, the TLC configurations that check them on small instances, and TLAPS proofs about
the redo log, the double write buffer, the buffer pool, the transactions, the record file, the network
service and the nodes of the B+ tree. Names of variables and actions follow the C++ code.
`PROJECT.json` maps every definition to the lines it models.

## The system

The repository is a fork of MiniOB, a small relational database server, part of whose storage is
being moved to the sled key-value engine. A request goes through the network service, the parser,
resolver and optimizer, and the executor, whose operators call the storage engine.

| Part | State | Operations | Works with | What is hard | Module |
|---|---|---|---|---|---|
| Redo log `storage/clog` | queue of entries, LSN counters, log files, one thread | `append`, `wait_lsn`, `start`, `stop`, `await_termination`, `replay`, `iterate` | every module that changes pages appends; `Db::recover` replays | log thread against appenders and stop; two writes per entry; failing writes; kill and restart | CLog, WriteAheadLog |
| Double write buffer `storage/buffer/double_write_buffer` | table of buffered pages, slot file with header | `add_page`, `read_page`, `flush_page`, `clear_pages`, `load_pages`, `recover` | buffer pool writes through it; `Db::init` and `Db::sync` | crash between any two writes, torn pages, several pools in one file | DoubleWriteBuffer, PageStore |
| Buffer pool `storage/buffer` | frames with pin counts, LRU, page bitmap of each file | `get_this_page`, `allocate_page`, `dispose_page`, `unpin_page`, `purge_frames`, redo | everything that reads pages; double write buffer; page log | eviction against pins, two threads loading a page, files sharing frames, running out of frames | BufferPool |
| Record manager `storage/record` | slotted pages, `free_pages_`, page latches | insert, delete, update, scan, redo | Table, MvccTrx, record log | lock and latches in two orders; redo on pages flushed at different times | RecordFile |
| B+ tree `storage/index` | nodes in pages, latch memo, mini-transaction log | find, insert, delete, update, scan, roll back, redo | buffer pool, clog | latch crabbing, log entries in another order than the changes | BplusTreeNode, BplusTree |
| MVCC transactions `storage/trx` | id counter, per transaction id and operations, two hidden columns per row | `start_if_need`, `insert_record`, `delete_record`, `visit_record`, `commit`, `rollback`, `redo` | sessions, executors and operators drive it; rows are visited under page latches; writes the redo log | a statement works row by row, so statements of sessions interleave; commit stamps rows one by one; restart | MvccTrx |
| Resolver, optimizer, operators, expressions `sql` | the statement, the plan, the state of each operator | `create_stmt`, `create_plan`, rewrite rules, `open`, `next`, `close`, `get_value` | the transaction for every row; the communicator pulls rows | conditions moved about the plan, operators opened again and again, errors halfway | SqlPlan, SqlQuery, SqlSemantics |
| Session `session` | current transaction, multi-operation mode | begin, commit, rollback, disconnect | executors, thread handlers | connection end in a transaction | MvccTrx, NetServer |
| Network service, thread pool `net`, `deps/common/thread` | connections, events, threads, queue, `state_` | accept, dispatch, read, answer, rearm, close, stop, await | clients; sessions | event thread against pool threads; elastic threads; shutdown at any time | NetServer |
| Table, Db, metadata `storage/table`, `storage/db` | table files, sled handle | create, drop, insert, sync, recover | all of the above | half moved to sled | only what the others use |
| Lexer and grammar, client, IVF-flat index, text files, memtracer | none, or data only | | | | not modelled |

Mutexes of the classes (`common::Mutex`) are real only when the build sets `CONCURRENCY`; the models
take them as real, as the default thread model needs. Standard atomics, and data that no lock
protects, are treated as the code has them.

What makes the parts correct: an acknowledged log entry survives and entries stay in order
(log); recovery leaves every page intact and no page older than it was (double write buffer); a
transaction sees exactly the committed rows of its start, and writers do not overwrite each
other (transactions); no frame is reused under its users, none is lost, and redo restores allocation and content
(buffer pool); the records are those of the log and pages with room are found (record file); the tree
holds exactly the keys of the committed requests, whoever latches what and whenever it crashes (B+
tree); an answer is what SQL means, and a write touches what it selects (SQL); a connection has one user
at a time, whole requests are answered and the server stops (network).

## Modules

### CLog: the redo log

Threads: any number of appenders (`BeginAppend`, `LeaveSpin`, `Push`, `Return`, then optionally
`BeginWait`, `LeaveWait`, `EndWait`), the log thread (`ThreadLoop`, `OpenFile`, `PopEntry`,
`WriteHeader`, `WritePayload`, `Publish`, `FlushDone`, `Requeue`, `ThreadExit`, and the failing
variants), and the owner (`Recover` for `Db::recover`, `Stop`, `AwaitTermination`). A step ends
where another thread can see it: at an atomic, at the buffer's mutex, or at a system call. The
disk is a sequence of fragments tagged with their file, because an entry is written with two
`writen` calls; `Reads`, `Delivered`, `ListFiles` and `Iterated` are the reader. `Crash` loses
all memory, at any point.

* `entry_number()` reads the queue without its lock. While an append is in progress the value
  may be anything (`TornRead`), so both branches of the loop are possible.
* An LSN is never replayed from the middle: `Db::flush_meta` does nothing, so `start_lsn` is 0.
  `IterateComplete` still checks `iterate` for every start, as its interface allows it.
* Once damaged bytes are read out of step with the entries, the rest of the start is arbitrary:
  `phase = "garbage"`, which has no further step but is not hidden from the invariants.
* The payload is its size. `bytes` follows the code, wrong sum included.

### WriteAheadLog: what a log promises

The interface `LogHandler` as a specification of four variables: whether the log is up, the last
LSN appended, the last LSN that a restart would find, and the LSNs somebody was told about. `CLog`
implements it under the mapping `Wal` (the last replayable LSN plays `durable`).

### DoubleWriteBuffer

Every write to the slot file or to a data file is a step of its own, and the process can die, be
killed by a power failure or tear the write in progress, between and in any of them. `AddPage`,
`WriteHit`, `WriteSlot`, `WriteHeader` are `add_page`; `SyncFiles`, `FlushPage`, `Invalidate`,
`FlushEnd` are `flush_page` with its `sync()`; `ClearPages` ... `ClearEnd` are `clear_pages` with
`DiskBufferPool::close_file`; `Restart` is `load_pages`, opening of all the pools, and `recover`.
A page's content is the number of the `add_page` that brought it. `lag` records what a power
failure may bring back until the next `sync()`; `excused` names pages whose newest content a
failed write destroyed because the code ignores the error. Calls do not overlap, and writes to
the slot file do not fail. A failed flush leaves freed pages in the table; what happens then is
`phase = "undefined"`.

### PageStore: what the store of pages promises

What the buffer pools rely on: a store with the content of each page and what a process that dies now would find
(`kept`). A write takes effect between `BeginWrite` and `EndWrite`, all of it or nothing (`Persist` is the moment
when a kill no longer undoes it); closing a file, a kill and a restart change no page, but for those
whose only copy a fault destroyed. `DoubleWriteBuffer` implements it under the mapping `Store` (`Seen` is what
`load_page` reads, `Kept` what `recover` would make of the files), and `BufferPool` is written against it: its `store` is the content
of a PageStore whose calls are one step.

### MvccTrx

A row is its two hidden columns; a negative id is a mark. A session goes through `Begin`, `Open`,
`InsertRecord`, `Scan`, `DeleteRecord`, `Close`, `Commit`/`Rollback` and their ends as
`SqlResult`, `TrxBeginExecutor`, `TrxEndExecutor` and the operators drive it. Visiting a row is one
step (page latch); each row is on a page of its own, so anything can happen between two. `Close`
commits outside `begin`, a failed statement too. A crash restores the state after some prefix of
the log (`images`); recovery takes the id counter from the transaction ids in it and rolls nothing
back, as `trx_map_` is never filled. `commit` waits for its log record; other records become
durable at any time.

`Table` is the record-file interface that `MvccTrx` is written against. In the present state of
the repository `Table::insert_record` writes to sled, so these transactions do not run end to
end; the model is of the transaction code, not of the migration. `update_record` is not modelled:
commit and rollback have no case for what it pushes.

### BplusTreeNode, BplusTree: the index

`BplusTreeNode` has the nodes: items as pairs of key (user key and RID, two numbers) and value,
`lookup`, `is_safe`, `validate_tree`, and each mini-transaction step as a list of logged operations
(`LeafSplitOps`, `NewRootOps`, `RedistributeOps`, ...), with their redo and roll back. `BplusTree` has
the threads. Going down, a thread takes the latch of the child and lets go of its ancestors when
the child is safe (`FetchPage`); `InsertIntoLeaf`, `InsertIntoParent`, `DeleteFromLeaf`,
`CoalesceOrRedistribute` change nodes level by level under the latches that are left; `Commit`
appends the one log entry, stamps the pages with its LSN and releases everything, or rolls back when a
page could not be allocated. `OpenScan`, `HopScan`, `NextEntry` and `CloseScan` are the scanner:
it holds no latch on the leaf where it started, and keeps the shared latch of each later leaf until
it has tried the next. `Flush` writes any page that nobody pins, after its log; `Crash`
keeps the file and the durable prefix of the log, redoes and starts again. A request is one of a
script, so that the runs can aim at deep trees with few requests.

### BufferPool

Two files share the frames. `Get`, `Lookup`, `AllocateFrame` (which evicts from the end of the LRU
list when no frame is free), `Load` are `get_this_page`; `AllocateFreePage`, `BeginExtend`, `Extend` are
`allocate_page`; `Dispose`, `Modify`, `UnpinPage`, `CloseFile`, `OpenFile`, `Crash`, `Replay`, `Recovered`
the rest. The content of a page is the LSN of its last change. The double write buffer and the
file are one store that never fails (PageStore, without its faults). A change that the eviction
through another pool drops, because `DiskBufferPool::flush_page` returns at once, goes to `lost`.

### RecordFile

Pages of `Capacity` slots with bitmap and count, `free_pages_`, `lock_`, the frame latches. The steps of
`insert_record` (`InsertStart` ... `InsertPut`) end where a lock or latch is taken or let go;
`DeletePage` and `DeleteFreePage` are the two halves of `delete_record`; a scanner keeps the latch
of its page from call to call (`ScanPage`, `ScanRecord`, `UpdateCurrent`, `ScanCleanup`).
`Evict` writes any page after its log; `Crash`, `Replay` and `ReplayDone` are recovery, with
`init_free_pages` before the redo as `Table::open` and `Db::recover` order them. A record is the LSN that
brought it, so `RecordsAsLogged` tells records apart.

### SqlPlan, SqlQuery, SqlSemantics: a statement

`SqlPlan` has values, expressions and physical operators: `Run` is the mutual recursion of
`get_value`, `open` and `next`, and an operator is a record with the fields of its class, so what a
`close` does not reset is there at the next `open`. `SqlQuery` takes a parse tree through
`ResolveStage`, `OptimizeStage` (logical plan, rewrite rules, physical plan), `OpenResult` (where
a write does all its work), `NextTuple` and `CloseResult`; any call to the transaction may fail.
`SqlSemantics` is the reference: three-valued conditions on the cross product, on the tree itself and
without a plan. Values are integers, floats in units of 1/6, booleans and NULL. These modules are recursive, so
they are for TLC only. Statements that the pipeline is known to get wrong are named one by one
(`OrSplit`, `LimitBelowGroup`, `OnlyConstants`, `KeepsState`, `ListMisread`, `Shadowed`), each with the
line that is the cause; the properties are about all the others.

### NetServer: connections and threads

Both thread handlers and both protocols in one module, chosen at the start (`mode`, `protocol`). Clients connect, send a request in
two parts (or one too long for the buffer), and vanish. In the pool, the thread that runs
`event_base_loop` is itself a task of the pool (`SubmitLoop`); `Dispatch` is a fired one-shot event
with `execute`, `Pop`, `BeginTask`, `EndTask`, `ExitThread` are `thread_func`, and `ExtendThread` is
the end of `execute`, which reads the queue and the counters after the push is visible. `ReadEvent`, `WriteResult`, `Rearm`, `CloseConnection`,
`DeleteCommunicator` serve one request; `ReadMysql` and `WriteMysql` are its reading and answering in
the MySQL protocol, where the handshake and commands other than queries are answered at once and a
failure to send the rows does not end the connection. `Shutdown`, `StopLoop`, `StopPool`, `AwaitStop` are the end of
`serve()`.

## Runs

| Run | Question | Result |
|---|---|---|
| CLogSafe | two appenders, 4 entries in files of 2, one failing write or open, one crash: no loss of acknowledged entries, no gaps in `iterate`, fresh LSNs, refinement | holds (0.5 M states) |
| CLogFaults | all faults, torn writes too, with fairness: order, drain at stop, progress | holds (86 k states) |
| Dwb | a pool of three pages, two slots, 4 writes, 2 crashes, torn writes, a failing data write: recovery, no page goes back, refinement of PageStore | holds (0.7 M states) |
| Mvcc | two sessions, two rows, ids up to 6, two operations each | holds (1.8 M states) |
| MvccRestart | does a new transaction see committed rows after a restart? | violated: ids restart below the commit ids |
| BptLatch | two threads with one or two requests each on a tree of ten keys whose root is full | holds (32 k states) |
| BptRecover | one thread, up to seven requests, a file of four pages, flushes, two crashes | holds (0.2 M states) |
| BptDeadlock | scans with a left bound against deletes: can two threads wait for each other? | violated: the scanner's `open` latches the next leaf blocking |
| BufferPool | two files of up to three pages, four frames, two threads, two log entries, two closes or crashes: pins, content, recovery, frames to be had | holds (0.3 M states) |
| RecordFile | two threads, two pages of two slots, three more log entries, a scan, a crash | holds (0.2 M states) |
| Query | 60 statements over 273 contents of two tables, a transaction call failing | holds (95 k states) |
| Net | two clients, two requests, two core threads and one more, both thread models, each with one of the two protocols, with fairness | holds (0.2 M states) |

Bounds. Files of 2 entries and 4 LSNs give a full file, a new one, and a restart into the middle
of each; one fault and one crash are enough for a retry after each write and for a crash on top of
a retry. Two slots and three pages make the double write buffer overflow, and the fourth write finds an invalid image
of an earlier flush in a slot; two crashes allow one during recovery. A second pool (2 M states, minutes)
changes nothing. In `Mvcc`, six ids allow two transactions and their commits to overlap with a
third; with seven ids (10 M states, too long for a regular run) nothing changes. Nodes of four items
(the order `bplus_tree_test.cpp` uses) let one insert split leaf and root and one delete merge leaves
or borrow; four pages make an allocation fail in the middle of a split. Four frames are the two
headers and one for each thread, so misses evict; a header is written when its file is closed only,
so that replay over a newer header takes a close and a crash. The first record page starts full, so
three more log entries are a new page with a record, or a record deleted and put again. Another log
entry (`MaxLog = 3` in BufferPool with page 2 free at the start, 1.7 M states; `MaxLog = 8` in
RecordFile, 1.3 M states) takes minutes and changes nothing. Two rows in each table give ties, NULLs, empty and doubled groups. Two
clients and two requests with a pool of three keep every thread busy, add one and let it leave.
`MaxGone` ends the vanishing of clients only, so that connections lost and served both occur. Symmetry
(appenders, pools, sessions, threads) is used where no liveness is checked.

Deadlock checking is off where a run ends by its bounds (scripts, requests and statements that are done).

### Where the code does not do what it says

Two disagreements are runs: MvccRestart and BptDeadlock. The others that the models show are kept
out of the passing runs by a constant or a named exception. To see one, check the property in a
configuration that differs from the named one as follows.

| Property | Configuration | What happens |
|---|---|---|
| `CLog!RestartSucceeds` | CLogSafe | killed between the header and the payload of an entry, the next start fails (`miniob-durability.md:28` says a start after kill -9 recovers) |
| `CLog!BufferBounded` | CLogSafe with `PayloadSizes = {1, 3}`, `MaxEntries = 4`, `MaxBytes = 4`, no faults or crashes | `append` takes the size of a moved-from entry (`log_buffer.cpp:41` gives the bound) |
| `DoubleWriteBuffer!FileHoldsNewest` | Dwb with `CloseShared = TRUE`, `Pools = {p1, p2}` | after a pool is closed, the next new page takes the slot of a buffered one (`double_write_buffer.h:83`) |
| `DoubleWriteBuffer!RecoveredIntact` | Dwb with `SPECIFICATION SpecPower`, `"power"` in `Faults`, `CHECK_DEADLOCK FALSE` | `clear_pages` drops copies before the data file is synced (`miniob-double-write-buffer.md:32`) |
| `MvccTrx!DeletedStaysDeleted` | Mvcc with `MaxRid = 1`, `MaxId = 7` | a row whose delete committed is deleted again by an older transaction and rolled back (`miniob-transaction.md:103`) |
| `MvccTrx!ConflictRollsBack` | Mvcc | a statement that met a conflict is committed (`miniob-transaction.md:117`) |
| `BplusTree!UniqueKeys` | BptRecover with `Scripts <- ScriptsUnique` | `try_insert_entry` moves to the next leaf and compares with the old one |
| `BufferPool!NothingLost` | BufferPool | a dirty page evicted for another file is not written (`frame.h:126`) |
| `NetServer!CoreThreadsStay` | Net with `EarlyThreads = TRUE`, one client, one request | core threads leave before `init` sets `RUNNING` (`thread_pool_executor.h:36`) |

What each passing run leaves out:

`Dwb` has `CloseShared = FALSE` and no power failure. `Mvcc` states what holds: `SeesCommitted` and
`NoPhantoms` leave out rows of a commit that is under way when the reader starts (a TODO in `commit_with_trx_id` admits that commits are not atomic),
`NoPhantoms` leaves out rows with a delete mark, `WritersKeepRows` leaves out rows that the
transaction inserted itself, and `OwnedMarks` leaves out sessions that disconnected. Each of
these exceptions is a hazard of `PROJECT.json`, with its line. `BptLatch` has scans without a left
bound, `ScanExact` is about scans that no writer overlapped, `HolderSeesNewest` leaves out lost pages and
pages another thread is loading, `PinsExact` pages whose load fails and `FrameFound` the states in which
`purge_frame` has left a pin on such a page, `FreePagesKnown` pages that recovery
changed, and `Net` runs with `EarlyThreads = FALSE`: threads start after `init` is done.

Fairness (`CLog!Fairness`, used by CLogFaults only): weak fairness of the log thread, and of
each appender inside a call. Both are threads of the operating system that poll with short sleeps, so the
scheduler runs them. Nothing obliges a client to append, wait or stop. Faults are bounded, that
is, the disk works again some day; with a disk that always fails the log thread retries for ever.

`NetServer!Fairness` (run Net): weak fairness of every thread of the pool, of every worker and of
the main thread, which the operating system schedules; of the event loop for each event that is
ready (libevent returns all of them); of the end of a request that a client has begun, as the
server reads until it has it or the client is gone. Nothing obliges a client to connect, to
send or to vanish, nor an extra thread to reach its idle timeout.

## Proofs

`CLogProofs` proves, for any set of appenders and all values of the constants
(`ConstantsAssumption`):

* `TypeCorrect`: `Spec => []TypeOK`, with all the faults.
* under `NoTornWrites` (no fault of a kind that leaves part of an entry behind; crashes anywhere,
  also between header and payload, failing opens and failing writes are in):
  `CLogInvariant`, and from it `AckedEntriesSurvive`, `EntriesStayInOrder`, `StopDrainsTheLog`,
  `WriterNeverStuck`, `IterateMissesNothing`, the action property `LsnsAlwaysFresh` and the
  refinement `ImplementsAbstractLog`.

With `Complete` the number of complete entries on disk and `Taken` 1 while the log thread holds
an entry that is not written, the invariant `CLogInv` says: fragment i of the disk is entry i, all but the last
are complete, and each is in a file whose name covers it (`DiskInv`); the thread holds the entry
after the last complete one and its writer is behind it (`ThreadInv`); the queue is the run of
LSNs that follows, up to `current_lsn`, and `flushed_lsn` is `Complete`, or one less before
`Publish` (`BufferInv`); acknowledged LSNs are complete, and `promised` entries stay in reach of
the thread until it leaves (`ClientInv`). `LogContiguous` alone is not inductive: it says nothing of
the file the writer has open, nor of an entry between header and payload. The refinement uses
`RecoverableLsns = 1..Complete`, so `durable` moves exactly when `WritePayload` completes an entry.

`NoTornWrites` is not cosmetic: after a header without payload the log is not readable any more
(`RestartSucceeds` above), and a retry after a failed payload write appends behind the damage, where replay
does not get: `AckedRecoverable` does not hold then (a warning in `LogFileWriter::write` says that half-written entries are not handled).

`DwbProofs`, `MvccProofs`, `RecordProofs`, `NetProofs`, `BufferProofs` and `BufferDataProofs` do the
same for five more components (`BplusTreeProofs`, below, is of another kind). Each defines an inductive invariant `IInv`, which TLC had checked on the instance of the component's run
before it was proved, and proves Init => IInv, one lemma per action, and IInv => property.

`DwbProofs`, for any pools, pages, sizes and all faults of `Spec`, if `CloseShared = FALSE`:
`HeaderAlwaysCovers` (`load_pages` never meets a slot that the file is too short for), `AlwaysRecovered`, `FileAlwaysNewest`,
`NewestAlwaysSurvives`, the action property `NeverRegresses`, and the refinement `IsPageStore`. The condition is needed: `clear_pages` leaves the slots of other pools' pages
where they are while `add_page` numbers the next slot by the size of the map, and the slots are not
distinct any more (second table above). Three descriptions follow each other. `FileInv` is about the
files alone and says when a start can repair them: a torn page has a valid image that `load_pages`
picks, and the newest content is in the data file or in that image. `UpInv` is about a running
process: the buffered pages have the slots 0 .. Count - 1, slots hold the images of
memory except the one being written, and whatever else the header counts is invalid
(`StaleInv`). It implies `FileInv` at every step, which is what lets a crash happen
anywhere. `RecInv` is about `recover`, which may die and be repeated. The properties say nothing of stale
slots, and without `StaleInv` a restart could load one of them. For the refinement `Recov(k)` is what a start at
this moment would leave in the data file: `StoreInv` says it is the content in memory while a page is
buffered and not just being written, and the data file otherwise, and `CallInv` which call is under way. So the
abstract page changes at one write only, the one of its slot or, if the header does not count that slot yet, of
the header; every other write maps to a stutter.

`MvccProofs`, for any sessions, rows and operations (`MvccAssumption`; sessions are finitely many), while
the server runs: `MarksOwned`, `WritersKeepRowsAlways`, `CommittedStaysVisible`, `NoPhantomsAlways`. Crashes are
out, as `MvccRestart` shows what they do. The invariant says that ids are drawn once (`IdInv`), that an insert
that is not committed carries no other transaction's delete mark (`RowInv`), what the operations of a
transaction find on their rows (`OpsInv`: the mark, or for a row inserted and deleted by the same
transaction the commit id), and for the snapshot that a commit under way which still has to
stamp such a row has a later id than the reader (`SeeInv`, `NotInv`). That last part is what makes
visibility inductive: commit ids are drawn before the rows are stamped.

`RecordProofs`, for any threads, page capacity, page numbers, crashes and log lengths
(`RecordFileAssumption`): `AlwaysAsLogged`, `FreePagesAlwaysKnown`, `ScansAlwaysComplete`, `NeverWaitCycle`.
`StoreInv` says that each log entry is one its page could make after the entries before it (an insert
takes the lowest free slot, a delete or update names a record that is there), and that each page,
in memory and on disk, is what the entries up to its LSN make of it. Then replay is one more step
along the log for each page, whatever was flushed, and `replay_insert`, which looks for a free slot itself, finds
the one logged. `HolderInv` ties latches and `lock_` to what threads do; `FreshInv`, that a page being made
is known to its maker only and has room until its record is in, gives `NeverWaitCycle`, for any group of
threads and not only for two: `insert_record` takes `lock_` with a
latch held only on a page no one else can want. `ScanInv` follows a scan's position.

`NetProofs`, for any clients, threads and requests, both thread models and both protocols, if
`EarlyThreads = FALSE` (threads start to run after `init`; otherwise core threads can leave, second
table above): `OneUserAlways` and `PoolStopsCleanAlways`. `UserInv` says that of armed event, queue
entry and thread each connection has at most one, and only while its communicator lives;
`RegisteredInv` that a live communicator is in the map until its deleter runs; `AttendedInv` that a
core thread looks after the queue until the pool ends with an empty one, which is why nothing
is left when `await_stop` returns.

`BufferProofs`, for any files, threads, frames, page numbers, crashes and log lengths
(`BufferPoolAssumption`): `PinsAlwaysExact` and `FrameAlwaysFound`. `PinOK` counts, for each frame, the threads that have fetched
its page and not let it go. It is exact but for a page below `page_count` that the file is too short for:
there `purge_frame` returns without unpinning when a second thread waits, and the pins are at least the
users. A page at `page_count` is exact again, as the thread that makes it holds the lock of its file,
which `ThreadOK` says; without that a page could become readable with stray pins. `MemOK` has the frames of open files
only, with the headers of all of them, and that each header has the header page in its bitmap and no page behind
`page_count`. The steps of a thread are reduced to one lemma (`StateStep`) by what they do to the
frames: another pin, a new frame, a freed one, new content.

`FrameAlwaysFound` adds `FrameInv`: the frames in use and the free ones are `FrameNum` in number, through
every allocation, purge, failed load, close, open and replayed entry. The rest is the pigeonhole. If no frame is
free and none can be purged, each frame in use is the header of an open file, or has a pin and so,
by `PinOK`, a thread that has fetched that page. These threads are different ones, as a thread
fetches one page at a time, and the one that asks for a frame is not among them (`open_file` asks when a file is not open,
the replay when no thread works); so there are fewer of them and of headers than there are frames. The exception `PinsLeft` is the pin
that `purge_frame` leaves, above: each costs a frame for good. That a thread holds one page is the model's limit: the code
bounds the pins of a thread nowhere, and a B+ tree operation holds several.

`BufferDataProofs` adds what frames and files hold: `HoldersSeeNewest`. `PageOK` says of each page that the
content in its file is one logged durably and the content in its frame one logged (log before
page), that a page not in the file was never changed, and that the last change is kept (`Keeps`): in
the file, in a frame that is dirty or agrees with the file, or in the file while an empty frame is about to be
loaded. During replay the change kept is at least as new as any entry replayed, so at the end of the log it is
the last one. `LsnOK` bounds the LSNs of headers by the log, without which flushing a header
could move `durable` past its end. What a step does to one page falls into six cases (`Same`, `Out`, `WrittenOut`,
`New`, `Loaded`, and the change itself), and `PageStep` handles them once for all actions. The
property excepts the pages in `lost`, which are exactly those that a purge on behalf of another
pool dropped or a second load read over (the findings above).

Its second part relates headers and log: `RecoversExactly`. `HeaderAt` says that a header is what the first m
entries leave: its bits are the pages they leave allocated (`AllocAt`), its `page_count` is above every page
allocated so far and not higher. The header in a file is so for an m of durable entries, the one in a frame for
all entries, or while replaying for all entries replayed (`StoreHdrOK`, `RestHdrOK`, `RedoHdrOK`). m cannot simply
be the LSN of the header: `redo_allocate_page` does not set it for a page below `page_count`, so after a replay
it may be older than the content. `NoDispose` says why that does no harm: the
entries between the LSN and m allocate only, and allocating again what is allocated changes nothing, whereas
`redo_deallocate_page` on a page that was allocated again later would take it away. `Pending` is the header of a
file being extended, whose entry is logged before `page_count` moves; nobody can log another change of the file
meanwhile, as the maker holds its lock. `LogOK` says that each entry was possible after the ones before it, from
which it follows that replay never fails.

`BplusTreeProofs` is not about a specification but about the functions that the specification is built from,
for nodes of any size, any keys and any tree around them:

| Theorem | Code |
|---|---|
| `LeafLookupFinds`, `InternalLookupFinds` | the binary searches; the internal one, which leaves out the first key and steps back, goes to the one child whose range has the key |
| `IndexInParentFinds` | where `validate_node` accepts the place of a node in its parent, `coalesce_or_redistribute` finds that place by the last key |
| `LeafInsertKeepsOrder`, `LeafRemoveKeepsOrder` | an entry put in or taken out where the search ends: the leaf stays in order and no other key is touched |
| `LeafSplitKeepsItems`, `ParentInsertBehind`, `ParentSplitKeepsItems` | splits: the halves hold the old entries and the new one in order, the chain and the parents of the children are right, the new half comes directly behind the old one |
| `RedistributeKeepsItems`, `CoalesceKeepsItems` | borrowing and merging: the entries of the two neighbours in order, the parent's entry for the right one adjusted or gone, the chain and the moved children right |

Each theorem about a change states what all pages are afterwards, the ones that do not change included.
The hypotheses are what `validate_tree` checks of the pages involved (order, place in the parent) and what
the caller has tested (room, a second child to borrow from or to merge with). The theorems
have one argument in common: a change is a list of logged operations (`LeafSplitOps`, ...), which `ApplyAll` runs as
a recursive function; `RunExists` and `RunUnique`, by the least position where it fails or differs, say what such a
run is, and `ApplySeqs` that lists run one after the other. From there each operation is one lemma,
`AdoptDoes` and `MoveDoes` join them, and the rest is about positions in sequences (`InsertedIs`, `RemovedIs`,
`JoinIs`). Sets are counted by `CountPrefix`, as the searches are modelled by the number of smaller keys.

What the runs add is that the changes meet in the right order: that the hypotheses hold when a request reaches
the change, with other requests and crashes in between.

Assumptions about constants are those named in the modules (`ConstantsAssumption`, `DwbAssumption`,
`MvccAssumption`, `RecordFileAssumption`, `NetAssumption`, `BufferPoolAssumption`): sizes are natural numbers, sets are finite,
`"free"` is not a thread. TLC evaluates them in every run.

Only model-checked: the liveness properties (fairness is out of the prover's reach); the log with torn
writes; the transactions across a restart; the tree as a whole (`TreeConsistent`, `LogRepeatsTree`, `ScanExact`,
`ChangesLatched`, which need induction along paths and along the log; `NoLatchCycle`, which holds without the scans of
BptDeadlock only); and the SQL modules, which are recursive and so out of the prover's reach.

## Not modelled

Listed with reasons in `PROJECT.json`. The lexer and the grammar are generated; text and vector files
are plain I/O; the IVF-flat index is numerical; the sled wrapper is an external engine; the client
sends lines. DDL and metadata are half moved to sled: `Table::create` returns before it creates the
data file (`table.cpp:133`), `insert_record` writes only to sled, `Db::flush_meta` and `Table::sync`
return at once, so a table does not survive a restart and there is no protocol to state. The storage
modules are modelled against the interfaces that their code and tests use. PAX pages, chunk operators,
index and view scans, strings, dates and functions are left out of `RecordFile` and the SQL modules;
of the MySQL protocol `NetServer` has the handshake, the commands and the order of the packets of an
answer, but not their bytes; the command line communicator is left out. 32-bit
overflow of LSNs in `LogFileWriter` and of transaction ids needs 2^31 operations.

## Plan

1. An abstract snapshot-isolation specification for `MvccTrx`, with the exceptions above as its
   explicit weakening.
2. A version of `DoubleWriteBuffer` whose calls overlap (`Db::sync` against `add_page`).
