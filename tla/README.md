# TLA+ models of NovaLSM's disaggregated SSTable path

This directory holds TLA+ models of the parts of NovaLSM under `src/`.
TLC checks each model. Each module translates the C++ it names. `PROJECT.json`
maps every definition to its source lines and lists the runs, the mutants
that show each property can fail, the findings and the hazards.

## The system

NovaLSM splits a key-value store into two roles:

- **LTC** (log/table coordinator) nodes build SSTables in memory.
- **StoC** (storage component) nodes own the persistent segment files.

The two talk over RDMA.

| Part | Source | Role |
|---|---|---|
| Storage worker pool (StoC) | `src/stoc/storage_worker.cpp` | RDMA server threads `AddTask` READ_BLOCKS / PERSIST / COMPACTION tasks to a worker. A worker `sem_wait`s, drains its whole queue under a mutex, runs the tasks, batches completions per RDMA thread and hands them back. |
| StoC segment files | (not under `src/`, spec §4.2) | append / Persist / Handle / ForceSeal, called by the PERSIST branch. |
| Scatter writer and reader (LTC) | `src/ltc/stoc_file_client_impl.cpp` | The writer's `Format` splits the data blocks into groups, one StoC per group. `Finalize` waits for every group's handle, rewrites the index to (StoC, offset) handles and appends the metadata blob. The reader reads blocks lazily, or from a prefetch buffer that `ReadAll` fills. |
| Block client (LTC) | `src/dc/nova_dc_client.cpp` | A 32-bit request id that skips 0, and a map from id to context. `OnRecv` marks contexts done; `IsDone` erases them. FLUSH_SSTABLE takes two round trips. |
| Compaction scheduler | `src/cc/db_compaction_thread.cpp` | `Schedule` pushes and posts. `Start` drains, counts into `num_tasks_`, groups by db and calls `PerformCompaction`. |
| Stats aggregator | `src/cc/nova_cc_stat_thread.cpp` | Every 10 s it prints per-worker deltas of the task and byte counters. |
| Destination migration | `src/ltc/destination_migration.cpp` | Receives a database image, restores it, replays active memtables' logs and marks the fragment ready. |
| Config and routing | `src/common/nova_config.h` | `home_fragment` binary search, log replica placement, database count parsing. |

How the parts interact:

1. An LTC flush goes through the scatter writer. Each group becomes a StoC append whose PERSIST task runs on a storage worker.
2. The handle from the worker's completion is what `Finalize` rewrites the index with.
3. Reads go through the block client. Its request ids correlate the responses.

## Modules

### StorageWorker (+ MCStorageWorker)

The state:

- `queue`, `sem`, `batch` and `tTasks` mirror `queue_`, `sem_`, the local `tasks` vector and `t_tasks`.
- `wpc` is the worker's place in the `Start` loop.
- `rpc` is an RDMA thread that has unlocked but not yet `sem_post`ed.
- The segment files are `appendOff`, `durable`, `sealed` and `blocks`.

The actions:

| Action | Source |
|---|---|
| `AddTaskEnqueue` / `AddTaskPost` | the two halves of `AddTask`, split at the unlock |
| `WorkerWait` | `sem_wait` |
| `WorkerDrain` | lines 58-70, including the empty-drain `continue` |
| `WorkerRun` | one task of lines 73-199, with `PersistTask` for the PERSIST branch |
| `WorkerHandoff` | lines 202-204 |

The file operations come from spec §4.2, since that code is not under `src/`.

### ScatterWriter (+ MCScatterWriter)

One SSTable from the builder's appends to read-back. Every byte is a record naming what it belongs to. Byte x of a data block is `Data(x + 1)`. A meta block (filter, meta-index, index) is its record repeated over its length, and then `Trailer` trailer bytes. The footer is one record holding the meta-index and index handles. A read is correct exactly when it returns the `Data` bytes of its block.

- `mem`, `usedSize` and `alloc` are `backing_mem_`, `used_size_` and `allocated_size_`. `BuilderAppend` is the table builder (spec §4.3), appending the data blocks, filter, meta-index, index and footer. Each block goes either through `AppendData` (`Append(data)`, with its strict bound) or in place: the builder writes at `Buf()` and then calls `AppendSize` (`Append(size)`).
- `WriterRead` is the writable file's own `Read`, which cuts `n` at `Size()`. It changes no state, so it is an operator, and an invariant checks it at every offset up to one past `used_size_`.
- `Fsync` asserts the file size and runs `Format`. `Format` decodes the footer and the index block from `mem`.
- `Finalize` waits for the groups and rewrites the index (`FinalizeWalk`). `MetaBlob` writes the meta-index, index and footer in place after the filter block, through `MetaBlock` (`WriteBlock`) and `WriteAt` (`Write`). `StoreMetaBlob` copies the blob to `localFile` and picks a StoC for it.
- `StoreMetaBlob` also keeps the copy the StoC holds (`metaStore`).
- `ReaderOpen` is the reader's constructor. On the writer's node it opens `localFile`. Elsewhere it fetches the blob from the StoC (`FetchMetadataFile`), as a reader on another LTC or on a StoC running a compaction does. With `prefetch_all` it then runs `ReadAll`.
- The readers decode the index from the file they opened (`BlobIndex`, which stands for `Table::Open`). So a wrong handle in the blob shows up as a wrong read.
- The constants `FilterLen`, `IndexLen` and `NewIndexLen` are the filter, original-index and rewritten-index lengths. `AllocSlack` is the caller's allocation above the file size.
- `GroupSizes`, `FormatWalk` and `FinalizeWalk` are recursive operators translated from the three loops in `Format` and `Finalize`.
- `StoCAppendGroup` is the StoC's side (spec). Groups land in any order.
- `ReadPrefetched` and `ReadLazy` are the reader's `Read`.

### DCClient (+ MCDCClient)

- `reqId`, `context`, the in-flight message sets, and the history variables `landed` and `delivered`.
- `Initiate` is the common pattern of the Initiate* calls that keep a context. `Initiate(FLUSH)`, `InitiateReadSSTable` and `InitiateReadBlocks` are its three uses. `InitiateDeleteFiles` consumes an id without a context.
- `OnRecv` and `IsDone` set `crashed` where the code's `RDMA_ASSERT` fails.
- The storage node's side (`NodeServe`) is from spec §6.

Two constants:

- `Duplicates` lets the transport hand a response over again.
- `IdLapping` drops the environment assumption that no request stays outstanding for a full lap of the counter. A real lap is 2^32 - 1 requests, so the assumption holds in practice, and `IdFree` names it. Both runs set it to FALSE: the assumption is part of the environment, and it is listed as a hazard instead.

### CompactionScheduler (+ MCCompactionScheduler)

- `queue`, `sem`, `numTasks` and `groups` mirror `background_work_queue_`, `signal`, `num_tasks_` and the `db_tasks` map. `pc` is the thread's place in `Start`.
- `StartUp` is `Start`'s entry, which sets `is_running_` (`running`). Callers may `Schedule` before it. `num_tasks_` is never initialised, so `Init` lets `numTasks` start at 0 or 1.
- `Schedule` is split at its unlock: `ScheduleEnqueue` pushes and `SchedulePost` posts.
- `Wait`, `Drain` (copy and clear, count, group with `GroupOf`) and `Perform` are the loop. The map iterates in pointer order, which the model leaves open, so `Perform` takes the groups in any order.
- `scheduled` and `performed` are history variables; the refinement mapping below uses them.

### CompactionQueue

The abstract specification of what the scheduler promises (spec §4.6), with no queue, semaphore or batching. `Submit` appends a task. `Hand(d, k)` gives database `d` its next `k` tasks in schedule order. Weak fairness on `Hand` says every task is eventually handed. CompactionScheduler implements it: `CQ == INSTANCE CompactionQueue WITH submitted <- scheduled, handed <- performed`, and the cs run checks `CQ!Spec` as the property `ImplementsCompactionQueue`. A `Drain` and a `Perform` that hands one group are a stuttering step and a `Hand` step of the abstract spec.

### StatThread (+ MCStatThread)

- One worker's `stat_tasks_` and `stat_read_bytes_`, and the thread's `stats[i]` fields.
- Widths are scaled: a uint32 has `W32` bits and a uint64 has `W64` bits. `U32`, `U64` and `Ctr` are the truncations the code's types perform.
- `StatInit` is the snapshot. `Poll` is one 10-second round: it reads into a uint32, subtracts and prints.
- `sinceTasks` and `sinceBytes` are history counters of what the worker really did.

### Migration (+ MCMigration)

The destination side of LTC migration (`destination_migration.cpp`).

- `dbMetas`, `sem` and `rdbs` mirror `db_metas`, `sem_` and the batch `Start` copies out. `pc` is the thread's place in `Start`.
- A database image is reduced to `image[d]`, the partitions with an active memtable. `replayed[d]` are those handed to LogRecovery, `ready[d]` is the fragment's `is_ready_`, and `freed[d]` counts `FreeItem` calls on its buffer.
- `received` is a history variable.
- `AddReceivedDBId` pushes under the mutex. `Wait`, `Drain` (copy and clear; an empty batch goes back to waiting) and `RecoverDBMeta` (one buffer of the batch) are the loop.
- `sem_` is never initialised and never posted in `src/`. Its initial count is indeterminate, so `Init` lets it be any value in `0..SemInit`.

### FragmentRouting (+ MCFragmentRouting)

- `frags` is a configuration of contiguous half-open ranges (`Layout`). `key` is the key looked up.
- A key equal to the last fragment's `key_end` passes the assert at line 158. `HomeFragmentCorrect` states that such a key gets the last fragment, with no out-of-bounds probe.
- `SearchStep` is one iteration of `home_fragment`'s loop with uint32 `l`, `r` and `m` (`IdxBits` bits). `SearchExit` is the loop's exit.
- `Place` is the whole of `ComputeLogReplicaLocations`, built from the recursive `PlaceAll` and `PickReplicas` and its two asserts.
- `ParseNumberOfDatabases` is the counting part of the config parser: the number of databases is the number of distinct dbids among this server's fragments, and the recursive `DbFragmentWrites` writes `db_fragment[dbid]`, which is out of bounds when the dbids are not `0..n-1`. The invariant `ParseNumberOfDatabasesOK` checks it against the reference `ParseMatches` for every owner table of the current length.
- The reference definitions `Owner`, `Others` and `ParseMatches` are written independently of the mapped operators.

## Runs

| run | what it shows |
|---|---|
| sw | One worker, two RDMA threads, two tasks each, a 2-byte segment. `NoLostWakeup`: a worker waiting with queued tasks always has a count or a pending post. `CompletedAtMostOnce`. `EveryTaskCompleted`: every submitted task is eventually completed to its thread. |
| sw_stats (violation) | `stat_tasks_` exceeds the tasks handed to the worker: double count at lines 43 and 74. |
| scatter | Up to 4 blocks of sizes 1-2 are built into the buffer, by copy or in place, and scattered 2-wide over 3 StoCs whose segments may hold earlier bytes. Until `Finalize`, the writer's own `Read` returns exactly what was appended, cut at `used_size_` (`BufferReadReturnsAppended`). The metadata blob decodes as filter, meta-index, index and footer, with consistent relative handles (`MetaBlobSelfConsistent`). The group handles cover exactly the data region. Every read returns its block's original bytes, on the writer's node or on another. `FetchMetadataFile` returns the blob the StoC holds unchanged, because the fetch is not under src/, so the run does not test a fetched copy that differs from the local one. |
| scatter_groups (violation) | 2 blocks with scatter 3: the code makes one group of 2, while the spec says 2 groups of 1. |
| dc | 2-bit ids (1..3), 4 requests, at most 2 outstanding. The id wraps and skips 0. No assert fails, completions match requests, and every request completes. |
| dc_dup (violation) | A duplicated response after `IsDone` crashes `OnRecv`. |
| cs | Two callers, two databases, 5 tasks, scheduled before and after the thread starts. `ImplementsCompactionQueue`: with 5 tasks, the scheduler refines CompactionQueue. Every task is eventually given to `PerformCompaction` exactly once, in schedule order per database. This holds across drains, posts that lag their pushes, and regrouping. |
| stat | 2-bit uint32 and 4-bit counters. The printed task delta equals the tasks run since the last poll, also across a wrap of the counter. |
| stat_bytes (violation) | The byte delta subtracts a uint64 previous value from a uint32 read. Once the counter passes 2^32, the printed figure is near 2^64 (in the model, 12 instead of the bytes read). |
| routing | Up to 4 fragments of sizes 1-2, 3-bit indices, 3 StoCs, 1-3 replicas. `home_fragment` finds the owning fragment for every key below the last `key_end` and never reads out of bounds. The search terminates. Replica placement equals the round-robin reference, and its asserts fail exactly when there are too few other StoCs. `ParseNumberOfDatabasesOK`: the database count and `db_fragment` match the reference for every owner table, and the write goes out of bounds exactly when the own dbids are not `0..n-1`. |
| mig | Two RDMA threads, 3 databases, one partition, an initial semaphore count up to 2. `BufferHeldOnce`: every received buffer is at all times in exactly one place: `db_metas`, the batch, or freed once. |
| mig_live (violation) | `EveryReceivedDbReady`: a database received while the semaphore count is 0 is never recovered. |

## Findings

| run | kind | what |
|---|---|---|
| sw_stats | code bug | `stat_tasks_` is incremented on `AddTask` and again in the worker (`storage_worker.cpp:74`). |
| scatter_groups | divergence | With fewer blocks than the scatter width, `Format` makes one group (`stoc_file_client_impl.cpp:210`), not one group per block. |
| dc_dup | divergence | A duplicated response after `IsDone` erased the context fails the assert in `OnRecv` (`nova_dc_client.cpp:224`, the READ_SSTABLE branch the trace takes; line 220 is the same assert for READ_BLOCKS). |
| stat_bytes | code bug | The mixed-width subtraction at `nova_cc_stat_thread.cpp:84` prints a huge delta after the 32-bit read wraps. |
| mig_live | divergence | `AddReceivedDBId` never posts `sem_` and the constructor never initialises it (`destination_migration.cpp:33`). Spec §5 says the count equals the number of pending tasks. Unless a caller outside `src/` posts, `Start` may never wake. |

## Bounds and fairness

The bounds are the smallest that make each hazard reachable:

- Two RDMA threads interleave their posts with one worker's drains. A 2-byte segment is enough for a PERSIST to seal it and for a second append to open a new one.
- CompactionScheduler uses 5 tasks so that both databases receive several, with batches of more than one task.
- Migration uses 3 databases from 2 senders so that buffers arrive during a drain and during recovery. `SemInit = 2` gives counts of 0, of fewer than the buffers, and of more.
- A 2-bit id wraps within 3 requests.
- Two databases and two callers are enough to interleave pushes of different databases with drains and lagging posts.
- With `W32 = 2`, a poll interval of 3 tasks can wrap the uint32 read while the 4-bit counter does not wrap.
- With `IdxBits = 3` and up to 4 fragments, the search probes every index. Configurations start at key 0, so the search never goes left of fragment 0: the wrap of `r = m - 1` at `m = 0` and an out-of-bounds probe are not reachable, and the run shows that. Keys range up to and including the last `key_end`, which reaches the fall-through that returns the last fragment. With 3 StoCs, 1-3 replicas and `me` ranging over every index plus "not a StoC", the cursor both wraps and skips.
- The rewritten index (`NewIndexLen = 2`) is larger than the original (`IndexLen = 1`), so the blob grows past the old file end. `AllocSlack = 2` is the smallest slack that lets it fit under the strict bound at line 405.
- Scatter 2 with up to 4 blocks gives uneven groups (remainder 1), groups of a single block, and a table with fewer blocks than the scatter width.

Fairness:

- Weak fairness on the worker's steps and on the post after the unlock: the code's loops run while `is_running_` holds, and the post follows the unlock unconditionally.
- In CompactionScheduler, weak fairness on the thread's steps and on each caller's post, for the same reasons.
- In FragmentRouting, weak fairness on the search steps: the search is a plain loop.
- In Migration, weak fairness on `Start`'s steps: it loops forever (`while (true)`). The RDMA threads get none, since they need not send.
- In DCClient, weak fairness on the node serving, the transport delivering and the caller polling `IsDone`: callers loop on `IsDone`/`Wait`.

## Not modelled

- The merge pass of compaction (CompactionJob) and the StoC file manager's internals: not under `src/`.
- VersionEdit setters, options and the legacy memstore types: no behaviour.
- The log-replication calls of the block client: they delegate to a log writer that is not under `src/`.
- In destination migration: the restore and log-recovery calls themselves (not under `src/`); the epoch assert at line 46, because epoch changes are made outside `src/`; the pairs built for closed log files (lines 119-124), which are never used; and whether `fragments[dbindex]` is the fragment of that database (a hazard).
- The file parsing in `nova_config.h` (splitting lines into strings): only the counting in `ParseNumberOfDatabases` is modelled.
- `SyncAppend` in `stoc_file_client_impl.cpp`: no caller under `src/`. It sends the slab's bytes at `used_size_` without copying its argument there, which is listed as a hazard.
- The destructors of the writer and the reader: they only free slabs.
- Block encodings (varints, CRCs, compression): each block is one record.
- The allocation size: the caller outside `src/` chooses it, and `AllocSlack` stands for it.

## Plan

Done: StorageWorker, ScatterWriter with its build phase, metadata blob, writer-side Read and reader constructor, DCClient, CompactionScheduler with its CompactionQueue refinement, StatThread, FragmentRouting with `ParseNumberOfDatabases`, and Migration.

Still to do:

1. An abstract SSTable-lifecycle spec that ScatterWriter refines through `INSTANCE ... WITH`.
2. A lost group answer in `WaitForPersistingDataBlocks`, and an allocation without slack. Each needs a new violation run.
