----------------------------- MODULE SyncReader -----------------------------
(***************************************************************************)
(* The replication reader of one source node                               *)
(* (internal/reader/sync_standalone_reader.go) and the rotated files that  *)
(* decouple receiving from sending (internal/utils/file_rotate).           *)
(*                                                                         *)
(* One goroutine asks for a full resynchronisation, stores the RDB file,   *)
(* sends its entries, then the base offset, then follows the files; a      *)
(* second one stores what the source sends and rotates the files; a third  *)
(* one acknowledges.  Bytes are numbered: those of the RDB payload, those  *)
(* of the marker that ends a payload of unknown length, those of the       *)
(* stream of commands.  The channel to the consumer is the history out;    *)
(* SyncPipeline has its capacity.                                          *)
(***************************************************************************)
EXTENDS Integers, Sequences, Functions

CONSTANTS
    Streams,      \* streams of commands [kind, db, end] the source may send; a command
                  \* ends at the byte number end of the stream
    Bases,        \* offsets of FULLRESYNC
    Options,      \* records [psync, eof, syncRdb, syncAof]
    PayloadLen,   \* bytes of the RDB file, an entry each
    RdbDb,        \* database the stream starts in, as told by the RDB file
    MarkerLen,    \* RDB_EOF_MARKER_LEN
    MaxFileSize,  \* rotation limit
    ReadSize,     \* size of the buffers
    MaxBeats      \* heartbeats of the source

ASSUME SizesAssumption == {PayloadLen, MarkerLen, MaxFileSize, ReadSize} \subseteq Nat \ {0}
ASSUME BeatsAssumption == MaxBeats \in Nat
ASSUME BasesAssumption == Bases \subseteq Nat
ASSUME OptionsAssumption == Options \subseteq [psync : BOOLEAN, eof : BOOLEAN, syncRdb : BOOLEAN, syncAof : BOOLEAN]
ASSUME StreamsAssumption ==
    \A s \in Streams :
        /\ s # <<>> /\ s \in Seq([kind : {"data", "select", "ping"}, db : Nat, end : Nat \ {0}])
        /\ \A i, j \in 1..Len(s) : i < j => s[i].end < s[j].end
ASSUME RdbDbAssumption == RdbDb \in Nat

VARIABLES
    opts,       \* version of the source, its kind of transfer, options of the task
    stream,     \* the commands the source will send
    source,     \* the source: [step, beats, fed]
    input,      \* bytes on the connection
    cancelled,  \* ctx.Done()
    dead,       \* a panic ended the process
    pc,         \* main goroutine
    stat,       \* AofReceivedOffset and AofSentOffset
    start,      \* startOffset
    rdb,        \* what receiveRDB has written to dump.rdb (or discarded)
    tail,       \* lastBytes of receiveRDBWithDiskless
    db,         \* DbId
    out,        \* everything put into ch
    wpc,        \* receiveAOF
    writer,     \* AOFWriter: [name, offset, size, n]
    files,      \* the files of the directory, by the number in their name
    reader,     \* AOFReader: [name, pos, offset], buf of the bufio.Reader
    acked       \* last offset of REPLCONF ACK

config == <<opts, stream>>
main == <<pc, start, rdb, tail, db, out>>
storing == <<wpc, writer>>
vars == <<config, source, input, cancelled, dead, main, stat, storing, files, reader, acked>>

Tokens(kind, n) == [i \in 1..n |-> <<kind, i>>]
Line(kind) == <<<<kind, 0>>>>
Ends == [i \in 0..Len(stream) |-> IF i = 0 THEN 0 ELSE stream[i].end]
StreamLen == Ends[Len(stream)]
Size(i) == Ends[i] - Ends[i - 1]
CommandAt(k) == CHOOSE i \in 1..Len(stream) : Ends[i - 1] < k /\ k <= Ends[i]
Least(a, b) == IF a < b THEN a ELSE b

Init ==
    /\ opts \in Options /\ stream \in Streams
    /\ source = [step |-> "idle", beats |-> 0, fed |-> 0]
    /\ input = <<>> /\ cancelled = FALSE /\ dead = FALSE
    /\ pc = "bgsave" /\ stat = [received |-> 0, sent |-> 0] /\ start = 0
    /\ rdb = <<>> /\ tail = <<>> /\ db = 0 /\ out = <<>>
    /\ wpc = "none" /\ writer = [name |-> 0, offset |-> 0, size |-> 0, n |-> 0]
    /\ files = <<>>
    /\ reader = [name |-> 0, pos |-> 0, offset |-> 0, buf |-> <<>>]
    /\ acked = 0

(***************************************************************************)
(* The source.  It answers PSYNC with FULLRESYNC (SYNC with nothing), then *)
(* sends the payload, before each a few heartbeats; a payload of unknown   *)
(* length is followed by the stream only after the replica acknowledged.   *)
(***************************************************************************)
SourceKeeps == <<config, cancelled, dead, main, stat, storing, files, reader, acked>>

Heartbeat ==
    /\ source.step \in {"asked", "saving"} /\ source.beats < MaxBeats /\ ~ dead
    /\ source' = [source EXCEPT !.beats = @ + 1]
    /\ input' = input \o Line("beat")
    /\ UNCHANGED SourceKeeps

FullResync(b) ==
    /\ source.step = "asked" /\ opts.psync /\ ~ dead
    /\ source' = [source EXCEPT !.step = "saving"]
    /\ input' = Append(input, <<"full", b>>)
    /\ UNCHANGED SourceKeeps

SourcePayload ==
    /\ source.step = IF opts.psync THEN "saving" ELSE "asked"
    /\ ~ dead
    /\ source' = [source EXCEPT !.step = "streaming", !.beats = 0]
    /\ input' = IF opts.eof
                THEN input \o Line("eof") \o Tokens("rdb", PayloadLen) \o Tokens("mark", MarkerLen)
                ELSE input \o Line("size") \o Tokens("rdb", PayloadLen)
    /\ UNCHANGED SourceKeeps

SourceCommand ==
    /\ source.step = "streaming" /\ source.fed < Len(stream) /\ ~ dead
    /\ opts.eof => acked # 0
    /\ source' = [source EXCEPT !.fed = @ + 1]
    /\ input' = input \o [i \in 1..Size(source.fed + 1) |-> <<"aof", Ends[source.fed] + i>>]
    /\ UNCHANGED SourceKeeps

(***************************************************************************)
(* Handshake.                                                              *)
(***************************************************************************)
HandshakeKeeps == <<config, cancelled, dead, start, db, storing, files, reader, acked>>

\* checkBgsaveInProgress and the loops of sendPSync and sendSync look at the context
\* before they wait for the source.
CheckContext ==
    /\ pc \in {"bgsave", "psync"} /\ ~ dead
    /\ pc' = IF cancelled THEN "closed" ELSE IF pc = "bgsave" THEN "info" ELSE "peek"
    /\ UNCHANGED <<HandshakeKeeps, source, input, stat, rdb, tail, out>>

\* The source is saving for itself.
BgsaveInProgress ==
    /\ pc = "info" /\ ~ dead
    /\ pc' = "bgsave"
    /\ UNCHANGED <<HandshakeKeeps, source, input, stat, rdb, tail, out>>

\* It is not: PSYNC or SYNC is sent.
SendPSync ==
    /\ pc = "info" /\ ~ dead
    /\ pc' = "psync"
    /\ source' = [source EXCEPT !.step = "asked"]
    /\ UNCHANGED <<HandshakeKeeps, input, stat, rdb, tail, out>>

\* A heartbeat before FULLRESYNC or before the payload.
SkipBeat ==
    /\ pc \in {"peek", "waitrdb"} /\ ~ dead
    /\ input # <<>> /\ Head(input)[1] = "beat"
    /\ pc' = IF pc = "peek" THEN "psync" ELSE pc
    /\ input' = Tail(input)
    /\ UNCHANGED <<HandshakeKeeps, source, stat, rdb, tail, out>>

\* sendPSync parses the reply.
ReadFullResync ==
    /\ pc = "peek" /\ opts.psync /\ ~ dead
    /\ input # <<>> /\ Head(input)[1] = "full"
    /\ pc' = "waitrdb"
    /\ stat' = [stat EXCEPT !.received = Head(input)[2]]
    /\ input' = Tail(input)
    /\ UNCHANGED <<HandshakeKeeps, source, rdb, tail, out>>

\* sendSync stops in front of the payload.
MeetPayload ==
    /\ pc = "peek" /\ ~ opts.psync /\ ~ dead
    /\ input # <<>> /\ Head(input)[1] # "beat"
    /\ pc' = "waitrdb"
    /\ UNCHANGED <<HandshakeKeeps, source, input, stat, rdb, tail, out>>

\* receiveRDB reads the length or the marker.
ReadHeader ==
    /\ pc = "waitrdb" /\ ~ dead
    /\ input # <<>> /\ Head(input)[1] \in {"size", "eof"}
    /\ pc' = Head(input)[1]
    /\ input' = Tail(input)
    /\ UNCHANGED <<HandshakeKeeps, source, stat, rdb, tail, out>>

\* receiveRDBWithoutDiskless: a read returns what is there, at most what is missing.
ReceiveSized(n) ==
    /\ pc = "size" /\ ~ dead
    /\ n <= Least(PayloadLen - Len(rdb), Len(input))
    /\ rdb' = rdb \o SubSeq(input, 1, n)
    /\ input' = SubSeq(input, n + 1, Len(input))
    /\ pc' = IF Len(rdb') = PayloadLen THEN "start" ELSE pc
    /\ UNCHANGED <<HandshakeKeeps, source, stat, tail, out>>

Cut(buf, n) == SubSeq(buf, 1, Len(buf) - n)
Last40(buf) == SubSeq(buf, Len(buf) - MarkerLen + 1, Len(buf))

\* receiveRDBWithDiskless: the last bytes wait until they are known not to be the marker.
ReceiveUntilMarker(n) ==
    LET buf == tail \o SubSeq(input, 1, n)
        long == Len(buf) >= MarkerLen
        found == long /\ Last40(buf) = Tokens("mark", MarkerLen)
    IN  /\ pc = "eof" /\ ~ dead
        /\ n <= Len(input)
        /\ input' = SubSeq(input, n + 1, Len(input))
        /\ rdb' = IF long THEN rdb \o Cut(buf, MarkerLen) ELSE rdb
        /\ tail' = IF found THEN <<>> ELSE IF long THEN Last40(buf) ELSE buf
        /\ pc' = IF found THEN "start" ELSE pc
        /\ UNCHANGED <<HandshakeKeeps, source, stat, out>>

(***************************************************************************)
(* Sending.                                                                *)
(***************************************************************************)
SendKeeps == <<config, source, input, cancelled, dead, tail, files, acked>>

Entry(phase, nr, offset, d) == [phase |-> phase, nr |-> nr, offset |-> offset, db |-> d]
Tracked(offset) == IF opts.psync THEN offset ELSE 0

\* StartReadWithPSync, StartReadWithSync after receiveRDB.
StartSending ==
    /\ pc = "start" /\ ~ dead
    /\ start' = stat.received
    /\ wpc' = IF opts.syncAof THEN "open" ELSE "closed"
    /\ pc' = IF opts.syncRdb THEN "rdb" ELSE "base"
    /\ UNCHANGED <<SendKeeps, stat, rdb, db, out, writer, reader>>

\* sendRDB: parseRDBEntry sends an entry and looks at the context.
SendRdbEntry ==
    /\ pc = "rdb" /\ rdb # <<>> /\ ~ dead
    /\ out' = Append(out, Entry("rdb", Head(rdb), 0, 0))
    /\ rdb' = Tail(rdb)
    /\ UNCHANGED <<SendKeeps, pc, stat, start, db, storing, reader>>

\* The end of the file, or the context is done.
EndRdb ==
    /\ pc = "rdb" /\ ~ dead
    /\ rdb = <<>> \/ cancelled
    /\ rdb' = <<>> /\ db' = RdbDb
    /\ pc' = "base"
    /\ UNCHANGED <<SendKeeps, stat, start, out, storing, reader>>

\* sendProgress: nothing without tracking; a select statement with the context.
sendProgress(e) ==
    \/ opts.psync /\ out' = Append(out, e)
    \/ (~ opts.psync \/ cancelled) /\ UNCHANGED out

SendBase ==
    /\ pc = "base" /\ ~ dead
    /\ sendProgress(Entry("base", <<"base", 0>>, start, 0))
    /\ pc' = IF opts.syncAof THEN "open" ELSE "closed"
    /\ UNCHANGED <<SendKeeps, stat, start, rdb, db, storing, reader>>

\* NewAOFReader; it gives up after 3 s without a file.
OpenReader ==
    /\ pc = "open" /\ 0 \in DOMAIN files /\ ~ dead
    /\ reader' = [reader EXCEPT !.offset = start]
    /\ pc' = "aof"
    /\ UNCHANGED <<SendKeeps, stat, start, rdb, db, out, storing>>

OpenTimeout ==
    /\ pc = "open" /\ 0 \notin DOMAIN files /\ ~ dead
    /\ dead' = TRUE
    /\ UNCHANGED <<config, source, input, cancelled, main, stat, storing, files, reader, acked>>

\* The head of the loop of sendAOF.
NextCommand ==
    /\ pc = "aof" /\ ~ dead
    /\ pc' = IF cancelled THEN "closed" ELSE "reply"
    /\ UNCHANGED <<SendKeeps, stat, start, rdb, db, out, storing, reader>>

(***************************************************************************)
(* AOFReader.Read fills the buffer of the RESP parser when it holds no     *)
(* complete command.                                                       *)
(***************************************************************************)
Complete ==
    /\ reader.buf # <<>>
    /\ Len(reader.buf) >= Size(CommandAt(Head(reader.buf)))

Unread == Len(files[reader.name]) - reader.pos
FileKeeps == <<config, source, input, cancelled, dead, stat, start, rdb, tail, db, out, storing, acked>>

ReadFile ==
    LET n == Least(Unread, ReadSize)
    IN  /\ pc = "reply" /\ ~ Complete /\ Unread > 0 /\ ~ dead
        /\ reader' = [reader EXCEPT !.buf = @ \o SubSeq(files[reader.name], reader.pos + 1, reader.pos + n),
                                    !.pos = @ + n, !.offset = @ + n]
        /\ UNCHANGED <<FileKeeps, pc, files>>

\* io.EOF: sleep for a millisecond.
MeetEof ==
    /\ pc = "reply" /\ ~ Complete /\ Unread = 0 /\ ~ dead
    /\ pc' = "eof of file"
    /\ UNCHANGED <<FileKeeps, files, reader>>

\* Fault: the context is looked at only after a successful read.
ReadCancelledBusy ==
    /\ pc = "eof of file" /\ cancelled /\ Unread > 0 /\ ~ dead
    /\ pc' = "closed"
    /\ UNCHANGED <<FileKeeps, files, reader>>

\* The select statement of Read: the error reaches sendAOF, which returns.
ReadCancelled ==
    /\ pc = "eof of file" /\ cancelled /\ ~ dead
    /\ pc' = "closed"
    /\ UNCHANGED <<FileKeeps, files, reader>>

\* readNextFile: the next file is the one named by the offset of the reader.
HasNext == reader.offset # reader.name /\ reader.offset \in DOMAIN files
SwitchTo(name) ==
    /\ reader' = [reader EXCEPT !.name = name, !.pos = 0]
    /\ files' = [f \in DOMAIN files \ {reader.name} |-> files[f]]

\* Fault: a file with a higher number is taken for the next one.
ReadHigherFile ==
    /\ pc = "eof of file" /\ ~ dead
    /\ pc' = "reply"
    /\ LET higher == {f \in DOMAIN files : f > reader.name}
       IN  IF higher # {} THEN SwitchTo(CHOOSE f \in higher : \A g \in higher : f >= g)
                          ELSE UNCHANGED <<reader, files>>
    /\ UNCHANGED FileKeeps

readNextFile ==
    /\ pc = "eof of file" /\ ~ dead
    /\ pc' = "reply"
    /\ IF HasNext THEN SwitchTo(reader.offset) ELSE UNCHANGED <<reader, files>>
    /\ UNCHANGED FileKeeps

\* Fault: what the parser has read ahead counts as sent.
OffsetReadAhead(size) == reader.offset

\* aofReader.Offset() - protoReader.Buffered(), after a command of this size.
SentOffset(size) == reader.offset - (Len(reader.buf) - size)

\* SELECT, PING, MULTI and the like only make progress; SELECT changes the database.
SendCommand ==
    LET i == CommandAt(Head(reader.buf))
        c == stream[i]
        offset == SentOffset(Size(i))
    IN  /\ pc = "reply" /\ Complete /\ ~ dead
        /\ reader' = [reader EXCEPT !.buf = SubSeq(@, Size(i) + 1, Len(@))]
        /\ stat' = [stat EXCEPT !.sent = offset]
        /\ db' = IF c.kind = "select" THEN c.db ELSE db
        /\ IF c.kind = "data" THEN out' = Append(out, Entry("aof", <<"aof", i>>, Tracked(offset), db))
                              ELSE sendProgress(Entry("progress", <<"aof", i>>, offset, 0))
        /\ pc' = "aof"
        /\ UNCHANGED <<SendKeeps, start, rdb, storing>>

(***************************************************************************)
(* receiveAOF and AOFWriter.                                               *)
(***************************************************************************)
StoreKeeps == <<config, source, cancelled, dead, main, reader, acked>>

Created(name) == [f \in DOMAIN files \cup {name} |-> IF f \in DOMAIN files THEN files[f] ELSE <<>>]

\* NewAOFWriter: the first file is 0.aof whatever the offset is.
OpenWriter ==
    /\ wpc = "open" /\ ~ dead
    /\ files' = Created(0)
    /\ writer' = [writer EXCEPT !.offset = stat.received]
    /\ wpc' = "top"
    /\ UNCHANGED <<StoreKeeps, input, stat>>

\* The select statement with default.
StoreOrStop ==
    /\ wpc = "top" /\ ~ dead
    /\ wpc' = IF cancelled THEN "closed" ELSE "read"
    /\ UNCHANGED <<StoreKeeps, input, stat, writer, files>>

\* Read from the source, write to the file.
Store(n) ==
    /\ wpc = "read" /\ ~ dead
    /\ n <= Least(Len(input), ReadSize)
    /\ input' = SubSeq(input, n + 1, Len(input))
    /\ files' = [files EXCEPT ![writer.name] = @ \o [i \in 1..n |-> input[i][2]]]
    /\ writer' = [writer EXCEPT !.offset = @ + n, !.size = @ + n, !.n = n]
    /\ wpc' = "stored"
    /\ UNCHANGED <<StoreKeeps, stat>>

Rotate ==
    /\ wpc = "stored" /\ ~ dead
    /\ IF writer.size > MaxFileSize
       THEN /\ files' = Created(writer.offset)
            /\ writer' = [writer EXCEPT !.name = writer.offset, !.size = 0]
       ELSE UNCHANGED <<files, writer>>
    /\ wpc' = "counting"
    /\ UNCHANGED <<StoreKeeps, input, stat>>

\* Fault: the size of the buffer is added, not the number of bytes read.
CountBuffer ==
    /\ wpc = "counting" /\ ~ dead
    /\ stat' = [stat EXCEPT !.received = @ + ReadSize]
    /\ wpc' = "top"
    /\ UNCHANGED <<StoreKeeps, input, writer, files>>

CountReceived ==
    /\ wpc = "counting" /\ ~ dead
    /\ stat' = [stat EXCEPT !.received = @ + writer.n]
    /\ wpc' = "top"
    /\ UNCHANGED <<StoreKeeps, input, writer, files>>

AckKeeps == <<config, source, input, cancelled, dead, main, stat, storing, files, reader>>

\* Fault: only news is acknowledged.
AckNews ==
    /\ opts.psync /\ wpc # "none" /\ opts.syncAof /\ ~ cancelled /\ ~ dead
    /\ stat.received # start
    /\ acked' = stat.received
    /\ UNCHANGED AckKeeps

\* sendReplconfAck, every 100 ms.
SendAck ==
    /\ opts.psync /\ wpc # "none" /\ opts.syncAof /\ ~ cancelled /\ ~ dead
    /\ stat.received # 0
    /\ acked' = stat.received
    /\ UNCHANGED AckKeeps

Cancel ==
    /\ ~ cancelled
    /\ cancelled' = TRUE
    /\ UNCHANGED <<config, source, input, dead, main, stat, storing, files, reader, acked>>

\* The connection breaks, a reply is invalid, a file cannot be written: log.Panicf.
Panic ==
    /\ ~ dead
    /\ dead' = TRUE
    /\ UNCHANGED <<config, source, input, cancelled, main, stat, storing, files, reader, acked>>

Source == Heartbeat \/ (\E b \in Bases : FullResync(b)) \/ SourcePayload \/ SourceCommand
Receive == \E n \in 1..ReadSize : ReceiveSized(n) \/ ReceiveUntilMarker(n)
Handshake ==
    \/ CheckContext \/ BgsaveInProgress \/ SendPSync
    \/ SkipBeat \/ ReadFullResync \/ MeetPayload \/ ReadHeader \/ Receive
Send == StartSending \/ SendRdbEntry \/ EndRdb \/ SendBase \/ OpenReader \/ NextCommand \/ SendCommand
Follow == ReadFile \/ MeetEof \/ ReadCancelled \/ readNextFile
Keep == OpenWriter \/ StoreOrStop \/ (\E n \in 1..ReadSize : Store(n)) \/ Rotate \/ CountReceived

Next == Source \/ Handshake \/ Send \/ Follow \/ Keep \/ OpenTimeout \/ SendAck \/ Cancel \/ Panic

Spec == Init /\ [][Next]_vars

(***************************************************************************)
(* The source goes on, and a BGSAVE of its own ends; goroutines and        *)
(* tickers run.  The select statement in Read chooses the context some     *)
(* time when it is done.                                                   *)
(***************************************************************************)
Fairness ==
    /\ WF_vars((\E b \in Bases : FullResync(b)) \/ SourcePayload) /\ WF_vars(SourceCommand)
    /\ WF_vars(Handshake) /\ WF_vars(Send) /\ WF_vars(Follow) /\ WF_vars(Keep) /\ WF_vars(SendAck)
    /\ SF_vars(SendPSync) /\ SF_vars(ReadCancelled)

FairSpec == Spec /\ Fairness
-----------------------------------------------------------------------------
TypeOK ==
    /\ opts \in Options /\ stream \in Streams
    /\ source.step \in {"idle", "asked", "saving", "streaming"} /\ source.fed \in 0..Len(stream)
    /\ cancelled \in BOOLEAN /\ dead \in BOOLEAN
    /\ pc \in {"bgsave", "info", "psync", "peek", "waitrdb", "size", "eof", "start", "rdb", "base", "open",
               "aof", "reply", "eof of file", "closed"}
    /\ wpc \in {"none", "open", "top", "read", "stored", "counting", "closed"}
    /\ Len(rdb) <= PayloadLen /\ Len(tail) <= MarkerLen
    /\ \A f \in DOMAIN files : Range(files[f]) \subseteq 1..StreamLen
    /\ stat.received \in Nat /\ stat.sent \in Nat /\ acked \in Nat
    /\ Len(reader.buf) <= StreamLen

\* The database that the last SELECT up to command i has chosen.  Before the first SELECT
\* it is the one the RDB file names, if sendRDB has parsed that file; without sync_rdb
\* nobody reads it, and DbId still has its zero value.
Selects(i) == {j \in 1..i : stream[j].kind = "select"}
FirstDb == IF opts.syncRdb THEN RdbDb ELSE 0
DbOf(i) == IF Selects(i) = {} THEN FirstDb
           ELSE stream[CHOOSE j \in Selects(i) : \A k \in Selects(i) : j >= k].db

\* What the consumer should get, by rank: the entries of the snapshot, the base offset,
\* the commands with their own end as offset.
Base == PayloadLen + 1
Ranks == 1..(Base + Len(stream))
Wanted(r) ==
    IF r < Base THEN opts.syncRdb
    ELSE opts.psync \/ (r > Base /\ stream[r - Base].kind = "data")
Due(r) ==
    IF r < Base THEN Entry("rdb", <<"rdb", r>>, 0, 0)
    ELSE IF r = Base THEN Entry("base", <<"base", 0>>, start, 0)
    ELSE LET i == r - Base
         IN  IF stream[i].kind = "data"
             THEN Entry("aof", <<"aof", i>>, Tracked(start + Ends[i]), DbOf(i))
             ELSE Entry("progress", <<"aof", i>>, start + Ends[i], 0)
Rank(e) == IF e.phase = "rdb" THEN e.nr[2] ELSE Base + e.nr[2]

\* The consumer gets the whole snapshot, the base offset, and every command of the
\* stream once, in order, each with its exact offset, although the parser reads ahead,
\* files rotate and payloads come in arbitrary pieces.  After a stop the snapshot may be
\* cut short, but the stream still has no gap.  A command goes to the database that the
\* SELECT before it chose, or the RDB file if there was none.  The exception is a run with
\* sync_rdb = false whose stream does not start with SELECT: the code never learns the
\* database of the file, RdbDb, and the commands before the first SELECT go to database 0.
SentInOrder ==
    \A j \in 1..Len(out) :
        LET rank == Rank(out[j])
        IN  /\ rank \in Ranks /\ Wanted(rank) /\ out[j] = Due(rank)
            /\ \A i \in 1..(j - 1) : Rank(out[i]) < rank
            /\ \A r \in 1..(rank - 1) : Wanted(r) /\ (r > Base \/ ~ cancelled) =>
                   \E i \in 1..(j - 1) : out[i] = Due(r)

Following == pc \in {"aof", "reply", "eof of file"}
Read == IF Following THEN reader.offset - start ELSE 0

\* A byte whose receipt was acknowledged, and which the source may drop from its
\* backlog, is on disk unless it was already read.
AckedIsKept ==
    \A k \in 1..(acked - start) :
        pc # "closed" => k <= Read \/ \E f \in DOMAIN files : k \in Range(files[f])

\* The places of the bytes that the reader will come to, and their order.
Places == UNION {{<<f, i>> : i \in 1..Len(files[f])} : f \in DOMAIN files}
Ahead == {p \in Places : p[1] > reader.name \/ (p[1] = reader.name /\ p[2] > reader.pos)}
Byte(p) == files[p[1]][p[2]]
Precedes(p, q) == p[1] < q[1] \/ (p[1] = q[1] /\ p[2] < q[2])

\* The file of the reader exists, and from its position on this file and those with
\* higher numbers hold exactly the bytes that were stored and come next, in order:
\* whatever the two goroutines do at a rotation, no byte is skipped, read twice or
\* removed unread.
UnreadIsKept ==
    Following => /\ reader.name \in DOMAIN files
                 /\ {Byte(p) : p \in Ahead} = (Read + 1)..(writer.offset - start)
                 /\ \A p, q \in Ahead : Precedes(p, q) => Byte(p) < Byte(q)

\* Once the snapshot is sent the whole stream reaches the consumer, across rotations,
\* and the source is made to send it.  The exception: a source that transfers without
\* length and starts at offset 0 is never acknowledged, because sendReplconfAck takes 0
\* for unset.
StreamFlows ==
    (pc = "base" /\ opts.syncAof /\ (opts.eof => start # 0))
        ~> (stat.sent = start + StreamLen \/ cancelled \/ dead)

\* A stop closes the channel: consumers and main loop end.
StopCloses == cancelled ~> (pc = "closed" \/ dead)
=============================================================================
