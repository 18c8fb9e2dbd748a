---------------------------- MODULE SyncPipeline ----------------------------
(***************************************************************************)
(* One task process (internal/kernel/run.go): per source node a reader     *)
(* goroutine (sync_standalone_reader.go) and a consumer goroutine joined   *)
(* by a channel, one writer shared by all consumers and by the main loop's *)
(* PING, the offset tracker, and the recorder that saves shown offsets to  *)
(* SQLite (progress/sqlite.go).                                            *)
(*                                                                         *)
(* A source node sends snapshot entries, numbered -RdbCount..-1 here, a    *)
(* progress entry with the snapshot's base offset 0, and commands 1, 2, .. *)
(* Snapshot entries carry no source node and are not tracked.  A command   *)
(* is abstracted to what becomes of it: whether the filter passes it, and  *)
(* for each entry the Lua function returns, the target shards it goes to   *)
(* in the order of RedisClusterWriter.writers.  Every shard is a           *)
(* FifoTarget; the tracker is OffsetTracker.                               *)
(***************************************************************************)
EXTENDS Integers, Sequences, FiniteSets

CONSTANTS Nodes,             \* source nodes
          NumShards,         \* target instances
          Commands,          \* what may happen to a command
          SnapshotCommands,  \* what may happen to a snapshot entry
          RdbCount,          \* number of snapshot entries
          ChanCap,           \* capacity of the channel reader -> consumer
          Limit,             \* size of the tracker's window
          MaxCmds,           \* bound on the commands behind the snapshot
          MaxPings           \* bound on the PINGs of the main loop

Shards == 1..NumShards
Command == [pass : BOOLEAN, parts : Seq(Seq(Shards) \ {<<>>})]

ASSUME BoundsAssumption ==
    /\ NumShards \in Nat \ {0} /\ ChanCap \in Nat \ {0} /\ RdbCount \in Nat
    /\ Limit \in Nat \ {0} /\ MaxCmds \in Nat /\ MaxPings \in Nat
ASSUME CommandsAssumption == Commands \cup SnapshotCommands \subseteq Command

\* A progress entry is a PING, which has no keys: every shard gets a copy.
Broadcast == [s \in Shards |-> s]
\* Fault: the fence goes to one shard only.
FirstShardOnly == [pass |-> TRUE, parts |-> <<<<1>>>>]
Progress == [pass |-> TRUE, parts |-> <<Broadcast>>]

Offsets == 0..MaxCmds
None == -1 - RdbCount
Item == [off : (-RdbCount)..MaxCmds, cmd : Commands \cup SnapshotCommands \cup {Progress}]
NoItem == [off |-> None, cmd |-> Progress]

VARIABLES
    queue, tracked, finished, offset, known, slots, caller, cancelled, \* OffsetTracker
    rpc,        \* where the reader of a node is
    source,     \* the items the reader has taken from the node, in order
    chan,       \* the channel between reader and consumer
    cpc,        \* where the consumer of a node is
    held,       \* the item it holds
    at,         \* the part and the copy of the item it writes next
    owed,       \* owed[n][i][p]: replies missing for part p of the i-th tracked item
    sent,       \* per shard: the copies handed to Write
    ran,        \* per shard: how many of them were executed
    answered,   \* per shard: how many OnWritten callbacks have run
    mpc,        \* where the main goroutine is
    pings,      \* PINGs the main loop has started
    mat,        \* next shard of the current PING
    fpc,        \* where the recorder is
    unread,     \* the nodes whose offset Flush has still to read
    batch,      \* the offsets Flush has read
    saved,      \* Recorder.saved
    table,      \* the rows of run_offsets of this run
    flushOk,    \* the last Flush returned no error
    alive       \* the process has not been killed and has not panicked

trackerVars == <<queue, tracked, finished, offset, known, slots, caller, cancelled>>
readerVars == <<rpc, source>>
consumerVars == <<cpc, held, at>>
targetVars == <<sent, ran, answered>>
mainVars == <<mpc, pings, mat>>
recorderVars == <<fpc, unread, batch, saved, table, flushOk>>
vars == <<trackerVars, readerVars, chan, consumerVars, owed, targetVars, mainVars,
          recorderVars, alive>>

T == INSTANCE OffsetTracker

Init ==
    /\ T!Init
    /\ rpc = [n \in Nodes |-> "rdb"]
    /\ source = [n \in Nodes |-> <<>>]
    /\ chan = [n \in Nodes |-> <<>>]
    /\ cpc = [n \in Nodes |-> "next"]
    /\ held = [n \in Nodes |-> NoItem]
    /\ at = [n \in Nodes |-> <<1, 1>>]
    /\ owed = [n \in Nodes |-> <<>>]
    /\ sent = [s \in Shards |-> <<>>]
    /\ ran = [s \in Shards |-> 0]
    /\ answered = [s \in Shards |-> 0]
    /\ mpc = "loop" /\ pings = 0 /\ mat = 1
    /\ fpc = "idle" /\ unread = {}
    /\ batch = [n \in Nodes |-> None]
    /\ saved = [n \in Nodes |-> None]
    /\ table = [n \in Nodes |-> None]
    /\ flushOk = TRUE
    /\ alive = TRUE

(***************************************************************************)
(* The reader: sendRDB, sendProgress(startOffset), sendAOF, close(ch).     *)
(***************************************************************************)
LastOff(n) == IF source[n] = <<>> THEN None ELSE source[n][Len(source[n])].off

Put(n, item) ==
    /\ Len(chan[n]) < ChanCap
    /\ chan' = [chan EXCEPT ![n] = Append(@, item)]

Taken(n, item) == source' = [source EXCEPT ![n] = Append(@, item)]

\* ParseRDB sends the next entry, waiting for room in the channel.
SendSnapshot(n, cmd) ==
    /\ rpc[n] = "rdb" /\ LastOff(n) < -1
    /\ LET item == [off |-> LastOff(n) + 1, cmd |-> cmd]
       IN  Taken(n, item) /\ Put(n, item)
    /\ UNCHANGED <<trackerVars, rpc, consumerVars, owed, targetVars, mainVars, recorderVars, alive>>

\* ParseRDB returns: at the end of the file, or because the context is done.
EndSnapshot(n) ==
    /\ rpc[n] = "rdb"
    /\ LastOff(n) = -1 \/ cancelled
    /\ rpc' = [rpc EXCEPT ![n] = "fence"]
    /\ UNCHANGED <<trackerVars, source, chan, consumerVars, owed, targetVars, mainVars, recorderVars, alive>>

\* sendProgress puts a progress entry into the channel or, once the context is
\* done, may give up instead.
SendFence(n) ==
    /\ rpc[n] = "fence"
    /\ LET item == [off |-> 0, cmd |-> Progress] IN Taken(n, item) /\ Put(n, item)
    /\ rpc' = [rpc EXCEPT ![n] = "aof"]
    /\ UNCHANGED <<trackerVars, consumerVars, owed, targetVars, mainVars, recorderVars, alive>>

SkipFence(n) ==
    /\ rpc[n] = "fence" /\ cancelled
    /\ rpc' = [rpc EXCEPT ![n] = "aof"]
    /\ UNCHANGED <<trackerVars, source, chan, consumerVars, owed, targetVars, mainVars, recorderVars, alive>>

\* Fault: the offset is not advanced over the command just parsed.
ReadBehind(n, cmd) ==
    /\ rpc[n] = "aof" /\ ~ cancelled
    /\ LastOff(n) < MaxCmds
    /\ Taken(n, [off |-> IF LastOff(n) = 0 THEN 0 ELSE LastOff(n) + 1, cmd |-> cmd])
    /\ rpc' = [rpc EXCEPT ![n] = IF cmd = Progress THEN "meta" ELSE "send"]
    /\ UNCHANGED <<trackerVars, chan, consumerVars, owed, targetVars, mainVars, recorderVars, alive>>

\* One round of sendAOF: the context is checked, a command is parsed, the offset
\* behind it noted.  SELECT, PING, MULTI and the like become progress entries.
ReadCommand(n, cmd) ==
    /\ rpc[n] = "aof" /\ ~ cancelled
    /\ LastOff(n) < MaxCmds
    /\ Taken(n, [off |-> LastOff(n) + 1, cmd |-> cmd])
    /\ rpc' = [rpc EXCEPT ![n] = IF cmd = Progress THEN "meta" ELSE "send"]
    /\ UNCHANGED <<trackerVars, chan, consumerVars, owed, targetVars, mainVars, recorderVars, alive>>

\* The send of a command waits for room without looking at the context.
SendCommand(n) ==
    /\ rpc[n] \in {"send", "meta"}
    /\ Put(n, source[n][Len(source[n])])
    /\ rpc' = [rpc EXCEPT ![n] = "aof"]
    /\ UNCHANGED <<trackerVars, source, consumerVars, owed, targetVars, mainVars, recorderVars, alive>>

SkipProgress(n) ==
    /\ rpc[n] = "meta" /\ cancelled
    /\ rpc' = [rpc EXCEPT ![n] = "aof"]
    /\ UNCHANGED <<trackerVars, source, chan, consumerVars, owed, targetVars, mainVars, recorderVars, alive>>

\* sendAOF returns and the channel is closed.
StopReading(n) ==
    /\ rpc[n] = "aof" /\ cancelled
    /\ rpc' = [rpc EXCEPT ![n] = "closed"]
    /\ UNCHANGED <<trackerVars, source, chan, consumerVars, owed, targetVars, mainVars, recorderVars, alive>>

(***************************************************************************)
(* The consumer of a node.  After a refused Track it discards everything.  *)
(***************************************************************************)
\* Fault: the consumer leaves its loop without telling the main loop.
ReceiveOrQuit(n) ==
    /\ cpc[n] = "next" /\ chan[n] # <<>>
    /\ chan' = [chan EXCEPT ![n] = Tail(@)]
    /\ held' = [held EXCEPT ![n] = Head(chan[n])]
    /\ cpc' = [cpc EXCEPT ![n] = IF caller[n] = "refused" THEN "gone"
                                 ELSE IF Head(chan[n]).off < 0 THEN "route" ELSE "track"]
    /\ UNCHANGED <<trackerVars, readerVars, at, owed, targetVars, mainVars, recorderVars, alive>>

Receive(n) ==
    /\ cpc[n] = "next" /\ chan[n] # <<>>
    /\ chan' = [chan EXCEPT ![n] = Tail(@)]
    /\ held' = [held EXCEPT ![n] = Head(chan[n])]
    /\ cpc' = [cpc EXCEPT ![n] = IF caller[n] = "refused" THEN "next"
                                 ELSE IF Head(chan[n]).off < 0 THEN "route" ELSE "track"]
    /\ UNCHANGED <<trackerVars, readerVars, at, owed, targetVars, mainVars, recorderVars, alive>>

TakeSlot(n) ==
    /\ cpc[n] = "track"
    /\ T!Reserve(n)
    /\ UNCHANGED <<readerVars, chan, consumerVars, owed, targetVars, mainVars, recorderVars, alive>>

Track(n) ==
    /\ cpc[n] = "track"
    /\ T!Register(n, held[n].off)
    /\ owed' = [owed EXCEPT ![n] = Append(@, <<>>)]
    /\ cpc' = [cpc EXCEPT ![n] = "route"]
    /\ UNCHANGED <<readerVars, chan, held, at, targetVars, mainVars, recorderVars, alive>>

TrackRefused(n) ==
    /\ cpc[n] = "track"
    /\ T!Refuse(n)
    /\ cpc' = [cpc EXCEPT ![n] = "next"]
    /\ UNCHANGED <<readerVars, chan, held, at, owed, targetVars, mainVars, recorderVars, alive>>

\* Calling consumed, which is nil for snapshot entries.
Consumed(n) ==
    IF held[n].off < 0 THEN UNCHANGED trackerVars ELSE T!Complete(n, Len(tracked[n]))

FilterOut(n) ==
    /\ cpc[n] = "route" /\ ~ held[n].cmd.pass
    /\ Consumed(n)
    /\ cpc' = [cpc EXCEPT ![n] = "next"]
    /\ UNCHANGED <<readerVars, chan, held, at, owed, targetVars, mainVars, recorderVars, alive>>

\* Fault: SplitCompletion does not call done for an empty list.
RouteForgetsEmpty(n) ==
    /\ cpc[n] = "route" /\ held[n].cmd.pass
    /\ LET parts == held[n].cmd.parts IN
         /\ owed' = IF held[n].off < 0 THEN owed
                    ELSE [owed EXCEPT ![n][Len(tracked[n])] = [p \in 1..Len(parts) |-> Len(parts[p])]]
         /\ cpc' = [cpc EXCEPT ![n] = IF parts = <<>> THEN "next" ELSE "write"]
         /\ UNCHANGED trackerVars
    /\ at' = [at EXCEPT ![n] = <<1, 1>>]
    /\ UNCHANGED <<readerVars, chan, held, targetVars, mainVars, recorderVars, alive>>

\* Fault: the entries share the callback of the first part.
RouteFirstPart(n) ==
    /\ cpc[n] = "route" /\ held[n].cmd.pass
    /\ LET parts == held[n].cmd.parts IN
         /\ owed' = IF held[n].off < 0 THEN owed
                    ELSE [owed EXCEPT ![n][Len(tracked[n])] =
                             [p \in 1..Len(parts) |-> IF p = 1 THEN Len(parts[p]) ELSE 0]]
         /\ cpc' = [cpc EXCEPT ![n] = IF parts = <<>> THEN "next" ELSE "write"]
         /\ IF parts = <<>> THEN Consumed(n) ELSE UNCHANGED trackerVars
    /\ at' = [at EXCEPT ![n] = <<1, 1>>]
    /\ UNCHANGED <<readerVars, chan, held, targetVars, mainVars, recorderVars, alive>>

\* RunFunction and SplitCompletion, for the entries and for the shards of each.
Route(n) ==
    /\ cpc[n] = "route" /\ held[n].cmd.pass
    /\ LET parts == held[n].cmd.parts IN
         /\ owed' = IF held[n].off < 0 THEN owed
                    ELSE [owed EXCEPT ![n][Len(tracked[n])] = [p \in 1..Len(parts) |-> Len(parts[p])]]
         /\ cpc' = [cpc EXCEPT ![n] = IF parts = <<>> THEN "next" ELSE "write"]
         /\ IF parts = <<>> THEN Consumed(n) ELSE UNCHANGED trackerVars
    /\ at' = [at EXCEPT ![n] = <<1, 1>>]
    /\ UNCHANGED <<readerVars, chan, held, targetVars, mainVars, recorderVars, alive>>

\* One Write to one shard.
WriteCopy(n) ==
    /\ cpc[n] = "write"
    /\ LET parts == held[n].cmd.parts
           p == at[n][1]
           j == at[n][2]
           copy == [node |-> n, off |-> held[n].off, part |-> p,
                    record |-> IF held[n].off < 0 THEN 0 ELSE Len(tracked[n])]
       IN  /\ sent' = [sent EXCEPT ![parts[p][j]] = Append(@, copy)]
           /\ at' = [at EXCEPT ![n] = IF j < Len(parts[p]) THEN <<p, j + 1>> ELSE <<p + 1, 1>>]
           /\ cpc' = [cpc EXCEPT ![n] = IF j = Len(parts[p]) /\ p = Len(parts) THEN "next" ELSE "write"]
    /\ UNCHANGED <<trackerVars, readerVars, chan, held, owed, ran, answered, mainVars, recorderVars, alive>>

(***************************************************************************)
(* The main goroutine: PING, readerDone, Close, stopFlush.                 *)
(***************************************************************************)
StartPing ==
    /\ mpc = "loop" /\ pings < MaxPings
    /\ pings' = pings + 1
    /\ mpc' = "ping" /\ mat' = 1
    /\ UNCHANGED <<trackerVars, readerVars, chan, consumerVars, owed, targetVars, recorderVars, alive>>

WritePing ==
    /\ mpc = "ping"
    /\ sent' = [sent EXCEPT ![mat] = Append(@, [node |-> "main", off |-> None, part |-> 1, record |-> 0])]
    /\ mat' = mat + 1
    /\ mpc' = IF mat = NumShards THEN "loop" ELSE "ping"
    /\ UNCHANGED <<trackerVars, readerVars, chan, consumerVars, owed, ran, answered, pings, recorderVars, alive>>

ReaderDone(n) ==
    /\ cpc[n] = "next" /\ chan[n] = <<>> /\ rpc[n] = "closed"
    /\ mpc = "loop"
    /\ cpc' = [cpc EXCEPT ![n] = "done"]
    /\ mpc' = IF \A m \in Nodes \ {n} : cpc[m] = "done" THEN "close" ELSE "loop"
    /\ UNCHANGED <<trackerVars, readerVars, chan, held, at, owed, targetVars, pings, mat, recorderVars, alive>>

\* theWriter.Close returns when every reply was delivered (RedisWriter!CloseDrains).
CloseWriter ==
    /\ mpc = "close"
    /\ \A s \in Shards : answered[s] = Len(sent[s])
    /\ mpc' = "stopflush"
    /\ UNCHANGED <<trackerVars, readerVars, chan, consumerVars, owed, targetVars, pings, mat, recorderVars, alive>>

(***************************************************************************)
(* A shard executes and answers; the callback of the copy runs then.       *)
(***************************************************************************)
Execute(s) ==
    /\ ran[s] < Len(sent[s])
    /\ ran' = [ran EXCEPT ![s] = @ + 1]
    /\ UNCHANGED <<trackerVars, readerVars, chan, consumerVars, owed, sent, answered, mainVars,
                   recorderVars, alive>>

\* The counters of SplitCompletion: Complete is called when the last one is zero.
Callback(copy) ==
    IF copy.record = 0 THEN UNCHANGED <<owed, trackerVars>>
    ELSE /\ owed' = [owed EXCEPT ![copy.node][copy.record][copy.part] = @ - 1]
         /\ IF \A p \in DOMAIN owed[copy.node][copy.record] : owed'[copy.node][copy.record][p] = 0
            THEN T!Complete(copy.node, copy.record)
            ELSE UNCHANGED trackerVars

Answer(s) ==
    /\ answered[s] < ran[s]
    /\ answered' = [answered EXCEPT ![s] = @ + 1]
    /\ Callback(sent[s][answered[s] + 1])
    /\ UNCHANGED <<readerVars, chan, consumerVars, sent, ran, mainVars, recorderVars, alive>>

(***************************************************************************)
(* The recorder.  Report samples the nodes in separate goroutines.         *)
(***************************************************************************)
StartFlush ==
    /\ fpc = "idle"
    /\ fpc' = "flush" /\ unread' = Nodes
    /\ UNCHANGED <<trackerVars, readerVars, chan, consumerVars, owed, targetVars, mainVars, batch,
                   saved, table, flushOk, alive>>

\* The flush that follows the end of the flush context; Run returns after it.
StartLastFlush ==
    /\ fpc = "idle" /\ mpc = "stopflush"
    /\ fpc' = "last" /\ unread' = Nodes
    /\ UNCHANGED <<trackerVars, readerVars, chan, consumerVars, owed, targetVars, mainVars, batch,
                   saved, table, flushOk, alive>>

Sample(n) ==
    /\ n \in unread
    /\ unread' = unread \ {n}
    /\ batch' = [batch EXCEPT ![n] = IF known[n] THEN offset[n] ELSE None]
    /\ UNCHANGED <<trackerVars, readerVars, chan, consumerVars, owed, targetVars, mainVars, fpc,
                   saved, table, flushOk, alive>>

EndFlush ==
    /\ fpc \in {"flush", "last"} /\ unread = {}
    /\ batch' = [n \in Nodes |-> None]
    /\ fpc' = IF fpc = "last" THEN "returned" ELSE "idle"
    /\ mpc' = IF fpc = "last" THEN "exited" ELSE mpc
    /\ UNCHANGED <<trackerVars, readerVars, chan, consumerVars, owed, targetVars, pings, mat,
                   unread, alive>>

Updated(row) == [n \in Nodes |-> IF batch[n] # None /\ saved[n] # batch[n] THEN batch[n] ELSE row[n]]

Commit ==
    /\ EndFlush
    /\ table' = Updated(table) /\ saved' = Updated(saved)
    /\ flushOk' = TRUE

\* Fault: saved is updated although the transaction failed.
CommitErrorSaved ==
    /\ EndFlush
    /\ saved' = Updated(saved)
    /\ flushOk' = FALSE
    /\ UNCHANGED table

CommitError ==
    /\ EndFlush
    /\ flushOk' = FALSE
    /\ UNCHANGED <<saved, table>>

(***************************************************************************)
(* Stop signal; the end of the process.                                    *)
(***************************************************************************)
Cancel ==
    /\ T!Cancel
    /\ UNCHANGED <<readerVars, chan, consumerVars, owed, targetVars, mainVars, recorderVars, alive>>

\* SIGKILL, a panic on a fatal reply, the 15 s after the runner went away.
Die ==
    /\ alive' = FALSE
    /\ UNCHANGED <<trackerVars, readerVars, chan, consumerVars, owed, targetVars, mainVars, recorderVars>>

Reader(n) ==
    \/ \E cmd \in SnapshotCommands : SendSnapshot(n, cmd)
    \/ EndSnapshot(n) \/ SendFence(n) \/ SkipFence(n)
    \/ \E cmd \in Commands \cup {Progress} : ReadCommand(n, cmd)
    \/ SendCommand(n) \/ SkipProgress(n) \/ StopReading(n)
Consumer(n) ==
    \/ Receive(n) \/ TakeSlot(n) \/ Track(n) \/ TrackRefused(n) \/ FilterOut(n)
    \/ Route(n) \/ WriteCopy(n)
Main == StartPing \/ WritePing \/ CloseWriter \/ \E n \in Nodes : ReaderDone(n)
Recorder == StartFlush \/ StartLastFlush \/ (\E n \in Nodes : Sample(n)) \/ Commit \/ CommitError

Next ==
    \/ alive /\ mpc # "exited" /\ \E n \in Nodes : Reader(n) \/ Consumer(n)
    \/ alive /\ mpc # "exited" /\ (Main \/ Recorder \/ Cancel \/ Die)
    \/ alive /\ mpc # "exited" /\ \E s \in Shards : Answer(s)
    \/ \E s \in Shards : Execute(s)

Spec == Init /\ [][Next]_vars

(***************************************************************************)
(* Goroutines are scheduled, targets answer.  The source need not send a   *)
(* command, nobody has to cancel.  When the flush context has ended, the   *)
(* random choice of select takes that branch eventually; a transaction     *)
(* that is retried for ever succeeds eventually.                           *)
(***************************************************************************)
Running == alive /\ mpc # "exited"
Fairness ==
    /\ \A n \in Nodes :
          /\ WF_vars(Running /\ (\/ \E cmd \in SnapshotCommands : SendSnapshot(n, cmd)
                                 \/ EndSnapshot(n) \/ SendFence(n) \/ SendCommand(n)
                                 \/ StopReading(n)))
          /\ WF_vars(Running /\ Consumer(n))
          /\ WF_vars(Running /\ ReaderDone(n))
          /\ WF_vars(Running /\ Sample(n))
    /\ \A s \in Shards : WF_vars(Execute(s)) /\ WF_vars(Running /\ Answer(s))
    /\ WF_vars(Running /\ (WritePing \/ CloseWriter))
    /\ WF_vars(Running /\ StartFlush) /\ SF_vars(Running /\ StartLastFlush)
    /\ WF_vars(Running /\ (Commit \/ CommitError)) /\ SF_vars(Running /\ Commit)

FairSpec == Spec /\ Fairness
-----------------------------------------------------------------------------
Copy == [node : Nodes \cup {"main"}, off : None..MaxCmds, part : Nat, record : Nat]
Row == [Nodes -> {None} \cup Offsets]

TypeOK ==
    /\ T!TypeOK
    /\ rpc \in [Nodes -> {"rdb", "fence", "aof", "send", "meta", "closed"}]
    /\ source \in [Nodes -> Seq(Item)] /\ chan \in [Nodes -> Seq(Item)]
    /\ cpc \in [Nodes -> {"next", "track", "route", "write", "done"}]
    /\ held \in [Nodes -> Item \cup {NoItem}] /\ at \in [Nodes -> Nat \X Nat]
    /\ owed \in [Nodes -> Seq(Seq(Nat))]
    /\ sent \in [Shards -> Seq(Copy)] /\ ran \in [Shards -> Nat] /\ answered \in [Shards -> Nat]
    /\ mpc \in {"loop", "ping", "close", "stopflush", "exited"} /\ pings \in 0..MaxPings /\ mat \in Nat
    /\ fpc \in {"idle", "flush", "last", "returned"} /\ unread \subseteq Nodes
    /\ batch \in Row /\ saved \in Row /\ table \in Row
    /\ flushOk \in BOOLEAN /\ alive \in BOOLEAN

\* Every shard that gets a copy of the item has executed it.
Applied(n, item) ==
    item.cmd.pass =>
        \A p \in 1..Len(item.cmd.parts) : \A j \in 1..Len(item.cmd.parts[p]) :
            LET s == item.cmd.parts[p][j]
            IN  \E k \in 1..ran[s] : /\ sent[s][k].node = n
                                     /\ sent[s][k].off = item.off
                                     /\ sent[s][k].part = p

\* An offset in the database covers only commands the target has executed, on every
\* shard and for every entry the Lua function made of them; nothing the reader took
\* from the node before it was skipped, whatever was cancelled or killed since.
SavedIsApplied ==
    \A n \in Nodes : \A i \in 1..Len(source[n]) :
        source[n][i].off <= table[n] => Applied(n, source[n][i])

SnapshotApplied(n) ==
    \A k \in 1..RdbCount :
        \E i \in 1..Len(source[n]) : source[n][i].off = -k /\ Applied(n, source[n][i])

\* Until the task is told to stop, a saved base offset means that the whole snapshot
\* was executed by the target, on every shard: the PING that sendProgress puts behind
\* the snapshot fences it.
SnapshotFencedWhileRunning ==
    ~ cancelled => \A n \in Nodes : table[n] # None => SnapshotApplied(n)

\* The consumers use the tracker as OffsetTracker assumes: one Track call at a time
\* per node, offsets that grow, each callback run once; so what is proved of
\* OffsetTracker holds inside the pipeline.
UsesTracker == T!Spec

\* A task that ends by itself has delivered everything it tracked, and unless its
\* last flush failed the database holds the final offsets.
CleanExit ==
    mpc = "exited" =>
        /\ \A n \in Nodes : finished[n] = 1..Len(tracked[n])
        /\ flushOk => \A n \in Nodes : table[n] = IF known[n] THEN offset[n] ELSE None

\* Whatever the reader takes from a source is saved as consumed in the end, filtered
\* and dropped commands too, unless the task is stopped or killed.
ReadIsSaved ==
    \A n \in Nodes : \A off \in Offsets :
        (\E i \in 1..Len(source[n]) : source[n][i].off = off)
            ~> (table[n] >= off \/ cancelled \/ ~ alive)

\* A task that is told to stop ends, although its reader may be waiting for room in
\* the channel and its consumer for a slot of the window.
StopEnds == cancelled ~> (mpc = "exited" \/ ~ alive)
=============================================================================
