# RedisShake-Web: TLA+ models, checks and proofs

RedisShake-Web migrates data between Redis deployments: a Web process, a
resident *runner* that owns the database and the runs, and one *task process*
per run that reads a source by replication and writes to a target. This
directory models the parts that decide whether data arrives, whether the
progress shown to the user is true, and whether runs and processes agree.

## 1. Inventory

### Components, state, operations

| Part (source) | State | Operations | Hard behaviour |
|---|---|---|---|
| Offset tracker (`internal/progress/offsets.go`) | per source node a queue of pending commands, shown offset; a shared window of slots | `Track`, the completion callback, `Snapshot` | completions in any order from any goroutine, backpressure, cancellation |
| Recorder and report (`progress/sqlite.go`, `report.go`) | last saved offset per node, rows of `run_offsets` and `run_progress` | periodic `Flush`, last flush, `Report` | failing transactions, kill between steps, positions of changed replication histories |
| Target writer (`writer/redis_standalone_writer.go`, `client/redis.go`) | two channels, connection buffer, selected database, unanswered bytes | `Write`, `processWrite`, `processReply`, `Close` | two goroutines and a ticker on one connection; replies matched by position only |
| Cluster writer (`writer/redis_cluster_writer.go`) | slot table, one writer per shard | `Write` (route or broadcast), `Close` | a command is complete only when all shards have answered |
| Sync reader (`reader/sync_standalone_reader.go`, `rdb/rdb.go`) | replication offsets, database, channel to the consumer | handshake, RDB transfer, `sendRDB`, `sendProgress`, `sendAOF` | snapshot, then base offset, then stream; blocking sends; cancellation at any point |
| AOF files (`utils/file_rotate/`) | rotated files named by offset | `Write`, `Read` | reader follows the writer across a file switch |
| Task process (`kernel/run.go`, `entry/completion.go`) | consumers, completion counters, reader count | consume, filter, Lua, `SplitCompletion`, PING, shutdown | order of shutdown; stop, second signal, loss of the runner |
| Runner (`cmd/redisshakeweb/runner.go`, `api.go`, `store.go`) | `active`, rows of tasks, connections and runs, child processes | `startRun`, `stopRun`, `watchRun`, `shutdown`, `reconcileOldRuns`, edits, deletions | crash and restart, long critical sections, unlocked handlers |
| Web handlers (`auth.go`, `api.go`, `store.go`) | admin, sessions, failed logins, rows of connections and tasks | bootstrap, login, logout, change password, create, edit, copy, delete, start | check then act around a slow hash or a query, one goroutine per request |
| Credentials (`connection_auth.go`) | modes and secrets of a connection | `prepareConnection`, `normalizeConnectionAuth`, `safe` | secrets that the form never shows |
| Configuration, filter and Lua (`config.go`, `redis.go`, `filter/`) | rules of a task | `validateTask`, `generateConfig`, `Filter`, `RunFunction` | interplay of allow and block rules, of keys, databases and commands |
| Keys and slots (`commands/`, `utils/cluster_nodes.go`) | command table, slot table | `CalcKeys`, `CalcSlots`, `GetRedisClusterNodes`, `loadClusterNodes` | pure, many cases |
| Lag (`progress/report.go`, `client/replication.go`) | sampled positions | `ReadMasterPosition`, `Report` | the master changes between two samples |
| Scan reader (`reader/scan_standalone_reader.go`, `utils/UniqueQueue.go`) | queue of keys, pipelined requests, two channels | `subscribe`, `scan`, `dump`, `restore` | five goroutines; replies paired by position; stop at any point. Not used by the Web application |
| AOF reader (`reader/aof_reader.go`, `parsing_aof.go`, `aof/aof.go`) | manifest, files | `LoadAppendOnlyFile`, `LoadSingleAppendOnlyFile` | which files, in which order, up to where. Not used by the Web application |

### How the parts interact

The reader goroutine of a node puts entries into a channel; the consumer of the
node calls `Track`, filters, transforms and calls `Write` for each resulting
entry, once per shard. Replies come back on the reply goroutine of each shard
and run `OnWritten`, which counts down the copies of a command and finally runs
the tracker's callback. The recorder samples the tracker every five seconds.
The main loop adds a PING per second, waits for all consumers, closes the
writer, stops the recorder. The runner starts the process, signals it, kills it
after 15 s, and records its end; a pipe tells the process that the runner died.

### What makes each part correct

* A shown or saved offset covers only commands that every shard has executed,
  and in the end it covers everything that was read.
* Commands reach an instance in order, in their own database, once; each reply
  is taken for the command it answers; nothing is left behind by `Close`.
* A stopped task ends; what it has tracked is delivered and saved.
* One process per task, one writer per target instance, at most five runs; a
  run that is shown as ended is over and stays so.
* A password change ends all sessions; the login limit holds up to the requests
  in flight; nothing that is in use is deleted.
* Every key of a command is found and its slot goes to the node that owns it;
  an entry is written exactly if the rules of the task choose it, into the
  database it is mapped to.
* A lag is the distance of two positions of one history.
* A scan restores each key with its own value and time to live, and loses no
  update; an AOF is replayed in order, up to the timestamp.

## 2. Modules

| Module | Models | Notes |
|---|---|---|
| `AckedProgress` | abstract: the longest acknowledged prefix is shown | specification of the tracker |
| `OffsetTracker` | `progress.Tracker` | `Reserve`/`Refuse`/`Register` are the parts of `Track`, `Complete` the callback |
| `FifoTarget` | abstract: one shard as the pipeline sees it | specification of the writer |
| `RedisWriter` | `redisStandaloneWriter`, its connection buffer, the instance | one action per step between two synchronisations |
| `SyncPipeline` | task process: readers, consumers, shards, main loop, recorder, kill | uses `OffsetTracker` through `INSTANCE`; its shards are proved to behave like `FifoTarget` |
| `SyncReader` | the replication reader of one node: handshake, RDB transfer, rotated files, acknowledgements, sending | its output is what `SyncPipeline` assumes of a reader |
| `RunHistory` | abstract: life of the rows of `runs` | specification of the runner's table |
| `Runner` | runner, HTTP handlers, SQLite, child processes | crash and restart |
| `WebServer` | HTTP handlers over the store: authentication, connections, tasks | a step per statement or transaction |
| `ScanReader` | the scan reader of one node with its queue, the source and the target | |
| `CommandTable` | the table of commands with their key specifications | pure |
| `CommandKeys` | keys of a command, hash tags, CLUSTER NODES, slot table, routing | pure, extends `CommandTable` |
| `EntryFilter` | validation of a task, generated configuration, filter, generated function | pure, extends `CommandKeys` |
| `AofLoader` | manifest and files of an AOF | pure |
| `LagReport` | search for the master, comparison of positions | pure |
| `ConnectionAuth` | credentials of a connection when saved, tested, used and shown | pure |
| `Conformance` | composes the pure modules: one call of one of them on an enumerated input, and the reference definitions it is compared with | |
| `OffsetTrackerProofs`, `RedisWriterProofs`, `SyncPipelineProofs`, `SyncReaderProofs`, `ScanReaderProofs`, `RunnerProofs`, `WebServerProofs`, `ConformanceProofs` | theorems about the module of that name, see section 4 | TLAPS |
| `MC*` | constants for TLC | |

Operators whose comment begins with *Fault* are variants of the action that
follows them, changed as a plausible slip in that code would change it. They
are used to make sure that each property can fail; no specification uses them.

### State and actions

`OffsetTracker`: `queue`, `offset`, `known`, `slots` are the fields of the code;
`tracked` and `finished` list all pending records ever made and those with the
`done` flag; `caller` is where the consumer's `Track` call is. The select
statement in `Track` chooses at random when a slot is free *and* the context is
done, so `Reserve` and `Refuse` are both enabled then.

`RedisWriter`: `wpc` and `rpc` are the program counters of the two goroutines.
`Announce`, `Account` and `Send` are separate steps because `processReply` runs
between them. `SendBytesBuff` follows `bufio.Writer`: what does not fit fills
the buffer, goes out, and the rest stays. An error reply ends the process.
The `off_reply` option is left out, the generated configuration never sets it.

`SyncPipeline`: a command is what becomes of it: filtered, dropped by Lua, or a
list of entries each going to a list of shards. Snapshot entries have negative
numbers and are not tracked, the progress entry behind them is number 0.
`owed` holds the counters of `SplitCompletion`. `table` survives `Die`.
Capacity of the writer's channel is not repeated here: `RedisWriter` shows
that every accepted entry is answered, so a full channel only delays.

`SyncReader`: `pc` is the goroutine that shakes hands and sends, `wpc` the one
that stores (`receiveAOF`), `SendAck` the third. `files` is the directory: a
file is known by the number in its name, which is 0 for the first one and the
offset of its first byte for the others. `Store`, `Rotate` and `CountReceived`
are the steps of a write that the other goroutines can tell apart; `MeetEof`
and `readNextFile` are separate because the writer runs during the millisecond
between them. The RDB transfer takes bytes in arbitrary pieces; with a length
it must not take a byte too many, without one it must find the marker. The
source is external: it sends heartbeats, `FULLRESYNC`, the payload, and the
stream, which after a transfer without length it holds back until the first
acknowledgement. A stream is a sequence of commands that each carry the number of
their last byte; byte numbers count from the `FULLRESYNC` on, so that a position in
the stream, a byte in a file and a replication offset can be compared. Vendor specific commands (`ARS`, `opinfo`, AWS) are left out.

`Runner`: `req` is the state of a start request, which holds `mu` from its
checks to the `INSERT`; handlers that do not take `a.mu` interleave with it.
`Gone` forgets everything in memory. A connection is abstracted to the instance
it leads to. A second `SIGINT` ends a task process at once (`Interrupted`).
Tasks and connections exist from the beginning; `WebServer` has their creation.

`WebServer`: a request of a worker is `[op, pc, ...]`; the store has a single
database connection (`SetMaxOpenConns(1)`), so a statement or transaction is one
step, and whatever lies between two of them interleaves. `Abort` is any early
return. A password is compared, the slow hash is the time between two steps.

`ScanReader`: `scan`, `sub`, `pump`, `dumpDb` with `wire`, and `restoring` are
the five goroutines; a key is a database and a name, its value a version.
`RepliesTo` and `Serve` are the source, which answers in order and may change
between DUMP, PTTL and TYPE. A send on a closed channel and a second close are
panics (`panicked`). The client that scans returns one key per call: the
batches of SCAN are told apart only by where the context is looked at.

Pure modules: the positions of keys count from 0 as in the code; `CommandTable`
has every command of `table.go`, grouped as there. `strings.ToUpper`, `Atoi` and
CRC16 are tables over the words that occur (`Uppercase`, `Number`, `Crc16`), a
regular expression is the set of keys it matches or a blank one. An AOF file is
a sequence of commands, timestamps and damage. Histories are sequences of bytes
only in the inputs; the code sees replication IDs and offsets.

## 3. Runs

| Run | Instance | Shows |
|---|---|---|
| `tracker` | 2 nodes, 3 offsets each, window 2 | shown offsets are acknowledged, exact window, refinement of `AckedProgress` |
| `writer` | 2 databases, sizes 1, 4 and 10, buffer 3, limit 4, 4 entries of 3 kinds, all replies | order, bound, drain, refinement of `FifoTarget`; every entry is acknowledged and `Close` returns, but for the wait described below |
| `pipeline` | 1 node, 2 shards, 1 snapshot entry, 2 commands of 5 kinds, window 2 | saved offsets are applied, fence, clean exit, use of the tracker |
| `pipeline_progress` | 1 node, 2 shards, window 1, 1 command, a PING | what is read is saved; a stopped task ends |
| `reader` | 2 streams of 3 and 4 bytes, base 0 and 3, rotation above 1 byte, 5 combinations of options | snapshot, base offset and commands in order with exact offsets; nothing unread is lost; the stream flows; a stop closes |
| `runner` | 2 tasks with one connection, 2 requests, 2 runs, limit 1; the connection may be edited, one task deleted; statements may fail | rows and processes agree, limit, refinement of `RunHistory`; a stop ends the process, its end is recorded |
| `runner_crash` | | **violated**: two processes of one task after a crash |
| `scan` | the same name in 2 databases, one key volatile, one too big for RESTORE; notifications with 2 changes, or a plain scan with a change, a key returned twice, a skipped type | own value and time to live, causes of panics, the scan ends complete, the latest value arrives |
| `web` | 2 requests at a time, 7 in all, 2 passwords, 2 connections, 1 task, limit 2 | login limit; sessions of an old password are few |
| `web_delete` | the same without symmetry | **violated**: a connection in use is deleted |
| `conformance` | about 88 000 inputs: command lines of each shape of key specification, the maps of 4 slots on 2 masters with replicas and migrations, filter tasks with entries, AOFs with manifests, pairs of samples of up to 4 bytes, connection rows with forms | keys, routing, filter, AOF, lag, credentials equal their reference definitions |
| `db_map` | maps with the source DB "01" | **violated**: the data goes to DB 0 |

The reference definitions of `conformance` are written from the other end. The
inputs of `KeysAreFound` are built so that the words that are keys are known,
`SlotsReachOwner` starts from the owner of each slot and the Redis rule for hash
tags, `FilterFollowsRules` states the rules of `docs/product-spec.md` for a
command as a whole, `AofReplaysHistory` asks for a prefix of the commands the
files hold, `LagOfOneHistory` compares the bytes of the two histories, and
`CredentialsAreStable` goes through saving what the form was shown.

### Bounds and why they are enough

The channels and windows have one or two places where the code has 1024 or
8192: every full, empty and blocked situation occurs within three to five
entries. Two databases are needed for one `SELECT` in each direction; sizes 1
and 4 against a buffer of 3 give the copied, the split and the direct write, and
10 exceeds the limit of 4. An entry of 1 in the buffer followed by one of 4 makes
`processWrite` wait for its own buffer (`WaitsForItself`), so the exception of
`WrittenIsAcked` and `CloseReturns` occurs in the instance; an entry of 4 that finds
nothing buffered, and one of 10 behind the `SELECT` that flushes, make it wait for
replies that come.
With rotation above one byte a stream of four bytes crosses two file
switches, and every command may be split by one. Two shards are the smallest number that can answer out of order. Two runs are
enough for a predecessor and a successor, and for two competitors. `MaxEntries`,
`MaxCmds`, `MaxPings` bound the environment; the code has no such counters.
Two requests are enough for a race of two handlers, and seven for logins on
both sides of the limit around a password change. Two keys of one name let a
reply be taken for the other database's; two changes put one before and one
after the item is unmarked. In `runner` one task can be deleted and the other cannot
(`Deletable`), so that runs of both kinds meet. Symmetry is used for the workers of
`web`, which checks safety only. Deadlock is not reported: in every instance the environment may
stop, the progress properties say what must not.

### Fairness

Goroutines are scheduled, tickers fire, source and target serve their connections, the
source goes on with a transfer it has begun, an orphaned process leaves after
its 15 s: weak fairness. Strong fairness is assumed for four things: a BGSAVE
of the source's own ends; the end of the context, a branch of a select
statement in `AOFReader.Read` and in the recorder that Go takes at random, is
taken eventually; a transaction that is retried for ever succeeds eventually; a
goroutine that waits for `a.mu` gets it (Go's mutex is fair in starvation
mode). Nobody is obliged to send, stop, or restart anything, and a process that
got only a `SIGINT` may stay for ever.

### What the violated runs show

* `runner_crash`: `cmd.Start` precedes the `INSERT`. The design document asks
  for a start intent written first. `EndedIsDead` and the refinement of
  `RunHistory` are what holds of the processes that have a row.
* `web_delete`: `deleteConnection` reads the tasks and deletes the connection in
  two statements; a task created in between refers to a connection that is gone,
  and starting it fails. The same holds of `deleteTask` and a run that starts in
  between, and `api.go:200` also ignores the error of the query, so that a
  failing one lets a task with an active run be deleted; the run goes on and can
  still be stopped (`StopEndsProcess`, `EndIsRecorded` in `runner` include it).
  `product-spec.md:60` and `:135` forbid both.
* `db_map`: `validateTask` takes the source DB for a number, `generateConfig`
  looks the number up as text. "01" passes validation and preflight, which
  checks the configured target DB, and is then written to DB 0.

### Observations without a run of their own

Sync tasks, as the Web application runs them:

* The wait for unanswered bytes (`redis_standalone_writer.go:128`) counts bytes
  that sit in the client's 32 KiB buffer, and only the waiting goroutine would
  flush them. When they are all there and the next entry does not fit
  `target_redis_client_max_querybuf_len` beside them, it waits for ever, although the
  comment at line 126 says that it waits only while the target has bytes in flight. An
  entry that is itself beyond the limit does this under any setting. `WaitsForItself`
  is this state; `WrittenIsAcked` and `CloseReturns` name it as their exception, and
  `writer` reaches it.
* With `sync_rdb = false` nobody parses the RDB file, so its `repl-stream-db` is not
  known (`sync_standalone_reader.go:173-175, 527`): commands before the first
  `SELECT` of the stream are sent to database 0. `SentInOrder` says so (`FirstDb`),
  and a stream of `reader` has this form.
* `watchRun` drops the error of the one `UPDATE` that records the end
  (`runner.go:278`). If it fails, the row stays RUNNING or STOPPING, and with it the
  task and its target are refused until the runner restarts. `WatchUpdateError` is
  this step, and `EndIsRecorded` names it as its exception. `stopRun` ignores the
  error of its `UPDATE` too; the run is then stopped while its row says RUNNING.
* `ConcurrencyLimit` counts the processes that have a row or are being started. One
  whose runner died between start and `INSERT` (`runner_crash`) is counted by nobody, so
  for the up to 15 s it lives there may be one process more than the limit.
* After a stop in the middle of the snapshot three select statements in a row
  may choose the sending branch; the base offset is then saved for a snapshot
  that was cut off (`sync_standalone_reader.go:176`).
  `SnapshotFencedWhileRunning` says what holds.
* `updateConnection` and `deleteTask` do not take the lock of `startRun` and
  change what `targetBusy` looks at: after an edit of the connection of an
  active run, or the deletion of a task whose start is under way, a second run
  on the same instance is accepted. `ExclusiveTargetOfKept`, which is proved, holds
  without them.
* `sendReplconfAck` takes offset 0 for unset; `StreamFlows` excludes sources
  that start at 0 and transfer without length (`try_diskless`, which the Web
  application does not set).
* SORT and MIGRATE are not in the command table: they have no keys, pass every
  key rule and are sent to all nodes of a cluster. The limit 2 of XREAD and
  XREADGROUP never applies, because `keys.go:66` looks for a negative one.
* A list of allowed expressions that holds only a blank one lets no key pass;
  the form strips blank lines, the API does not.
* `report.go:60` accepts an offset equal to `second_repl_offset`, which is one
  byte behind the end of the shared history. So a position may be
  compared although its last byte belongs to another history; `LagOfOneHistory`
  allows this one byte.

* After an error reply to SELECT the commands pipelined behind it run in the old
  database before the process ends; `ExecutedInOrderInOwnDb` excludes them.
* A shutdown that follows a stop sends a second SIGINT, on which the task exits
  at once, without drain or last flush (`run.go:370`); `Runner` has the step
  (`Interrupted`), and no property promises a graceful end then.
* The PID of an unfinished row may belong to another process after a reboot, and
  the runner then refuses to start (`runner.go:116`); PIDs are never reused in
  `Runner`.
* The offsets of replicas are compared as text (`client/redis.go:176`), so 999 is
  preferred to 1000; this affects the choice of a replica only.

Web handlers:

* A login that has verified the old password may insert its session after the
  change has deleted all others, whereas `runtime-design.md:103` promises that a change
  of the password revokes all old sessions. `StaleSessionsBounded` says how far this
  goes: such sessions are fewer than the requests that run at the same time.
* An update that overlaps the deletion of its connection brings it back; of two
  overlapping updates the later one wins whole.

Command-line readers:

* With notifications, a stop while the scan runs closes the queue twice or sends
  on a closed channel, which is a panic; without traffic a stop is noticed only
  at the next notification. A DEL goes past the queue and may overtake the
  RESTORE of its key; keys that expire or are evicted at the source stay at the
  target. A key that SCAN returns twice, or whose database `dbs` lists twice,
  ends a task that does not overwrite. A
  key deleted between DUMP and TYPE escapes the types to be skipped.
* The AOF reader returns after the first incremental or history file that
  exists (`parsing_aof.go:633,665`) and reports success. `AofReplaysHistory`
  therefore asks for a prefix and not for everything.

`Runner` also shows, without a run of its own, that an orderly shutdown exits
after its two seconds with task processes alive (`Exit` does not look at
`child`), whereas `docs/runtime-design.md:125` has them reaped first. The
processes leave by themselves (`StopEndsProcess`), and their rows become FAILED
only after they are gone (`EndedIsDead`).

## 4. Proofs

Every theorem is about the specification that the runs check, for every value of
its constants. All assumptions are the named `ASSUME`s of the component modules,
which TLC evaluates on every run; they say that sizes, limits and capacities are positive
numbers, that sets have the right members, and nothing of how large they are.

| Module | Theorems | Property of a run |
|---|---|---|
| `OffsetTrackerProofs` | `TypeCorrect`, `OnlyAcknowledgedIsShown`, `WindowExact`, `Refinement` | `TypeOK`, `ShownIsAcknowledged`, `WindowIsExact`, `ImplementsAckedProgress` |
| | `AcknowledgedIsVisible`, `NoRegression` | |
| `RedisWriterProofs` | `EntriesRunInOrder`, `CloseLosesNothing`, `QueryBufferIsBounded`, `WriterImplementsFifoTarget` | `ExecutedInOrderInOwnDb`, `CloseDrains`, `QueryBufferBounded`, `ImplementsFifoTarget` |
| | `Invariance`, `Typing` | |
| `SyncPipelineProofs` | `PipelineUsesTracker`, `SavedOffsetsAreApplied`, `SnapshotIsFenced`, `ExitIsClean` | `UsesTracker`, `SavedIsApplied`, `SnapshotFencedWhileRunning`, `CleanExit` |
| | `PipelineInductive`, `PipelineTypes`, `SavedOffsetsNeverRegress`, `ShardsAreFifoTargets` | |
| `SyncReaderProofs` | `MessagesAreInOrder`, `AckedBytesAreKept`, `UnreadBytesAreKept` | `SentInOrder`, `AckedIsKept`, `UnreadIsKept` |
| | `ReaderInductive` | |
| `ScanReaderProofs` | `RestoresOwnValues`, `PanicsExplained` | `RestoredIsOwnDump`, `PanicsAreExplained` |
| | `ScanStagesInLine` | |
| `RunnerProofs` | `EndedRunsAreDead`, `LimitHolds`, `RunnerImplementsRunHistory`, `TargetsAreExclusive` | `EndedIsDead`, `ConcurrencyLimit`, `ImplementsRunHistory`, none (`ExclusiveTargetOfKept` is only proved) |
| | `Invariance`, `Typing` | |
| `WebServerProofs` | `LoginFailuresAreBounded`, `OldSessionsAreFew` | `FailuresBounded`, `StaleSessionsBounded` |
| | `Invariance` | |
| `ConformanceProofs` | `LagsOfOneHistory`, `CredentialsStayStable` | `LagOfOneHistory`, `CredentialsAreStable` |

### Offset tracker

For every set of nodes, every set of integer offsets and every window size. The
offsets of a node grow (`Grows`), which `PipelineUsesTracker` proves of the
consumers. The refinement mapping to `AckedProgress` is `position = number of
records that left the queue`.

None of the invariants is inductive alone: that the shown offset is the last
one passed says nothing about a later pop unless one knows that the queue is
the suffix of the records made (`QueueIsSuffix`), that everything before it is
finished and its head is not (`PassedIsFinished`, `HeadIsPending`), and that
offsets grow along it (`OffsetsGrow`). `IndInv` joins these with the type
invariant and the exact window. Each action has a lemma stating its effect on
one node in terms of the number of passed records; the window needs one more
about the cardinality of the set of queued records when an interval of it is
removed.

### Target writer

For all databases, sizes, limits, buffer sizes and numbers of entries. That the
n-th reply belongs to the n-th announced entry cannot be seen from any single
queue. The invariant looks at two views: `Waiting`, what `processReply` holds,
what is announced to it and the `SELECT` about to be announced; and `Pipe`, what
is on the wire or in the client's buffer. `Waiting` consists of the replies that
are there, the commands of the pipe, and the entry that is announced and not yet
sent, in this order (`PipeIsAwaited`); its entries are those announced and not yet
read, each once (`WaitingIsOrdered`); and they are executed up to where the
replies reach (`ExecutedIsPrefix`). With this `Execute` runs the next entry, and
with `DatabasesFollow` (every command runs in the database that the one before it
leaves selected) in its own database.

`QueryBufferBounded` needs the sum of the sizes of the unread entries. A recursive
sum is out of the prover's reach, so `BytesOfUnread` says that *some* function
has the increments of the log's sizes, and the proof extends that function by one
place at each `Write`. From it follow that `UnansweredBytes` is never negative
(`Typing`) and, with `NeverOver`, the bound. The refinement maps each step to a
step of `FifoTarget` or to a stuttering step.

### Task process

For all nodes, shards, commands, snapshots, capacities and windows. `Inv` follows
an item on its way. `OrderInv`: reader, channel and consumer have it as the next
one, and the tracker has the records 0, 1, ... up to the item held; this is what
makes a step of the pipeline a step of the tracker, and `OffsetTrackerProofs`, taken
through `INSTANCE`, gives the tracker's own invariant for the tracker inside the
task (`TP!IndInv`). `CopyInv`: what the consumer is through with was sent to every shard
it goes to, and on each shard the snapshot is in front of the commands of the
node. `OwedInv`: a counter of `SplitCompletion` is the number of copies
outstanding plus those still to be sent (`OwedIsOutstanding`), so that it becomes
zero only when all have been answered (`FinishedIsApplied`). `RecorderInv` and
`EndInv`: rows hold shown offsets; the last flush runs behind the last reply.

`SavedIsApplied` is then a chain: a saved offset is at most the shown one, which is
that of the last record passed; so the record of a command below it is
finished, and the command applied; a snapshot entry is in front of the fence on
its shard, whose reply was needed for the first record.

Two theorems are not about single states. `SavedOffsetsNeverRegress`: no step moves
an offset in `run_offsets` back. A row is never ahead of the shown offset, but
a batch is sampled before it is written, so one also has to know that it is
not behind the row (`BatchIsNewer`). `ShardsAreFifoTargets`: seen from one
shard, every step of the task is a step of `FifoTarget` or none; this and
`WriterImplementsFifoTarget` let the proofs about the writer stand in for the shards.

### Replication reader

For all streams, base offsets, sizes of transfers and reads, rotation limits and
combinations of options. `StreamsAssumption` says that the ends of the commands of
a stream grow. `Inv` has one part per resource. `Stages`: what is open in which
state of the goroutines. `InputInv`: the connection holds the rest of one fixed
sequence of bytes, `Flow`: payload, marker, stream, from where it has been
taken (`Taken`); so neither kind of transfer takes a byte too few or too many.
`FilesInv`: each file begins where its name says, ends before the next
begins, the last ends at the writer's offset, and together they cover
everything from the reader's file on. This is what survives a rotation while the reader is
between its end of file and the look at the directory. `CountInv`:
acknowledged is at most counted, counted at most stored. `ReaderInv`: the parser's
buffer are the last bytes read, back to the end of a command. `OutInv`: the messages
sent are those due up to some rank, but for the ones `sendRDB` and `sendProgress`
give up after a cancellation. `SentInOrder`
and `UnreadIsKept` are stated with ranks and places rather than by
concatenating sequences, so that they can be proved without induction.

### Scan reader

For all keys, databases to scan, options and channel sizes. `DbsAssumption`,
`KeysAssumption` and `OptionsAssumption` say what a database, a key and a
combination of options is, and that the keys lie in databases that are scanned.
`restore` knows only how many replies a key has; which they are depends on whether
`dump` selected another database before it. `WireInv` says that there are places
`at[0], at[1], ...` such that the replies not yet taken, followed by the requests
not yet answered, are those of the i-th key of `needRestore` between `at[i-1]`
and `at[i]`, that the source stands in the database of the key it is
answering, and that a reply tells the truth about its key at some moment. Each of `Dump`, `Serve`
and `Restore` moves one end of this line, and has a lemma about it on
sequences alone. `OutInv` is what `restore` has taken and not sent. `Closes`
is the order in which the queue and the two channels are closed, from which follows
who can meet a closed one. `OnceInv` puts a key, in a plain scan, in one stage
only and in a database already visited, so that RESTORE without REPLACE is never refused.

The proof of `OnceInv` failed at first: a database that `dbs` lists twice is scanned
twice, and then the second RESTORE is refused without any notification or repetition by
SCAN. `PanicsAreExplained` names this cause since.

### Runner

For all tasks, connections, instances, runs, requests and limits, through any
number of crashes and restarts. `IndInv` says who holds `a.mu` from the checks to the `INSERT` (`LockIsHeld`), that
nothing in memory survives the runner (`DownIsEmpty`), that a row has a process
(`RowsHaveProcesses`), that an unfinished run is watched or its watcher holds the
verdict on a dead process, which a failed `UPDATE` loses (`UnfinishedIsWatched`), and the limit together with the
place that a start has found free (`LimitIsKept`). A process that is being started has
that place and no row yet, which is why `LimitHolds` counts both; a process whose
runner died at this point is outside the theorem, as `runner_crash` shows it must be. `TargetsAreExclusive` has the
hypothesis `Editable = {}`: with edits of connections the property is false, see the
observations above; the other theorems allow them.

### Web handlers

For any finite number of requests at a time. `FailuresAreReserved` counts a
login that is past the check of the limit and not yet counted as if it had failed
already, which is why the bound is the limit plus the requests in flight.
`AdminBeforeSessions` orders bootstrap and sessions. `StaleAreReserved` counts, with
the sessions of old passwords, the logins that hold a verified old password and have
not inserted yet: a change of the password makes stale only what is in flight, and
its own request is not a login, which leaves one less than the requests.

### Lag report and credentials

`LagsOfOneHistory` holds for all histories, chains of replicas and `MaxHops`. The
assumption on the inputs (`LagsAssumption`) is what Redis guarantees of them: two histories of one
replication ID agree, the history of the second ID agrees up to
`second_repl_offset` and not from there on, and there is one master; what a node
says of its master is otherwise arbitrary, cycles included. `ReadMasterPosition` is
written as a recursive function. That the function exists is shown by induction
on the hops that are left, with the numbers for which it does as a set
(`AllNumbers`), and so is what it returns: an error or the position of the master
(`PositionOfMaster`), and the latter if the chain reaches it in time
(`PositionFound`). The rest compares bytes.

`CredentialsStayStable` holds for all forms and rows. Its core is that normalising is idempotent
(`NormalTwice`, `ConnectionTwice`), and that a password the form does not show is put back
before anything is normalised (`ShownIsSame`).

### Only model-checked

* All progress properties (`WrittenIsAcked`, `CloseReturns`, `ReadIsSaved`, `StopEnds`,
  `StreamFlows`, `StopCloses`, `StopEndsProcess`, `EndIsRecorded`, `ScanEnds`,
  `LatestReachesTarget`): liveness under fairness is outside
  the prover.
* `KeysAreFound`, `SlotsReachOwner`, `FilterFollowsRules` and `AofReplaysHistory`: both the
  models and the reference definitions fold over argument lists, characters, CLUSTER NODES
  lines or files, and what a fold computes for every input takes induction over data,
  with operators as arguments (`SelectSeq`, `FoldLeft`).
* `OneProcessPerTask`, `InUseIsKept` and `MappedAsConfigured`, which are violated.

## 5. Not modelled

The Web proxy and its pages, the queries of connection checks and preflight,
RDB value decoding, the RESP codec, the file writer, logging and status; of the
modelled parts vendor specific replication commands, suffix and whole-key
filter rules, and the text of manifests and configuration files.
`PROJECT.json` lists each with its reason.

## 6. Plan

All invariants and action properties of the runs are proved but for the four of
`Conformance` named above. Worth adding when the code changes: the `off_reply` option of
the writer and the vendor specific replication commands, if the generated
configuration begins to use them; a model of the preflight checks against
connections that are edited meanwhile; and a run for the end of a task after a second
`SIGINT`, should the design document promise one.
