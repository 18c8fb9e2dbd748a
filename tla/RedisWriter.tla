---------------------------- MODULE RedisWriter ----------------------------
(***************************************************************************)
(* redisStandaloneWriter of internal/writer/redis_standalone_writer.go:    *)
(* one connection to one target instance, shared by two goroutines.        *)
(*                                                                         *)
(* processWrite takes entries from the channel ch, selects the database    *)
(* when it changes, waits while too many bytes are unanswered, announces   *)
(* the entry in chWaitReply and puts its bytes into the connection's       *)
(* buffer; a 10 ms ticker flushes the buffer.  processReply takes the next *)
(* announced entry, reads one reply for it and runs OnWritten.  Nothing    *)
(* but their order ties replies to entries.  Close stops both in turn.     *)
(*                                                                         *)
(* Entries are numbered in the order of the Write calls.  The off_reply    *)
(* option, which the generated configuration never sets, is left out.      *)
(***************************************************************************)
EXTENDS Integers, Sequences, FiniteSets

CONSTANTS DBs,        \* database numbers; the connection starts in 0
          Sizes,      \* serialized sizes of entries
          Kinds,      \* the entries handed to Write: databases and sizes
          CountLimit, \* pipeline_count_limit
          MaxQuery,   \* target_redis_client_max_querybuf_len
          BufSize,    \* size of the connection's bufio.Writer
          Behavior,   \* rdb_restore_command_behavior
          Outcomes,   \* replies the target may give
          MaxEntries  \* bound on the number of Write calls

ASSUME DBsAssumption == 0 \in DBs
ASSUME SizesAssumption == Sizes \subseteq Nat \ {0}
ASSUME LimitsAssumption == CountLimit \in Nat \ {0} /\ MaxQuery \in Nat \ {0} /\ BufSize \in Nat \ {0}
ASSUME MaxEntriesAssumption == MaxEntries \in Nat
ASSUME BehaviorAssumption == Behavior \in {"panic", "rewrite", "skip"}
ASSUME OutcomesAssumption == Outcomes \subseteq {"ok", "nil", "busykey", "error"}

Entry == [db : DBs, size : Sizes]
ASSUME KindsAssumption == Kinds \subseteq Entry

VARIABLES
    log,          \* the entries handed to Write
    ch,           \* numbers of the entries waiting in w.ch
    wpc,          \* where processWrite is
    cur,          \* the entry processWrite holds
    dbId,         \* w.DbId
    buffer,       \* commands in the bufio.Writer, the last one perhaps in part
    buffered,     \* bytes in the bufio.Writer
    wire,         \* commands the target has received and not executed
    targetDb,     \* database the target has selected for this connection
    executed,     \* <<entry, database>> pairs the target has executed
    replies,      \* replies on their way back
    chWaitReply,  \* announced entries; 0 stands for a select
    rpc,          \* where processReply is
    held,         \* the announced entry processReply holds
    unanswered,   \* w.stat.UnansweredBytes
    acked,        \* entries whose OnWritten has run
    closing,      \* how far Close has come
    dead          \* log.Panicf has ended the process

wvars == <<wpc, cur, dbId, buffer, buffered>>
tvars == <<wire, targetDb, executed, replies>>
rvars == <<rpc, held, acked>>
vars == <<log, ch, wvars, tvars, chWaitReply, rvars, unanswered, closing, dead>>

Command == [id : Nat, db : DBs]   \* id 0 is "select db"

Init ==
    /\ log = <<>> /\ ch = <<>> /\ acked = <<>>
    /\ wpc = "loop" /\ cur = 0 /\ dbId = 0
    /\ buffer = <<>> /\ buffered = 0 /\ wire = <<>>
    /\ targetDb = 0 /\ executed = <<>> /\ replies = <<>>
    /\ chWaitReply = <<>> /\ rpc = "range" /\ held = 0 /\ unanswered = 0
    /\ closing = "open" /\ dead = FALSE

\* Write blocks while the channel is full.
Write(e) ==
    /\ ~ dead /\ closing = "open"
    /\ Len(ch) < CountLimit
    /\ log' = Append(log, e)
    /\ ch' = Append(ch, Len(log) + 1)
    /\ UNCHANGED <<wvars, tvars, chWaitReply, rvars, unanswered, closing, dead>>

(***************************************************************************)
(* processWrite                                                            *)
(***************************************************************************)
Flushed ==
    /\ wire' = wire \o buffer
    /\ buffer' = <<>>
    /\ buffered' = 0

Tick ==
    /\ ~ dead /\ wpc = "loop"
    /\ Flushed
    /\ UNCHANGED <<log, ch, wpc, cur, dbId, targetDb, executed, replies, chWaitReply,
                   rvars, unanswered, closing, dead>>

Take ==
    /\ ~ dead /\ wpc = "loop" /\ ch # <<>>
    /\ cur' = Head(ch)
    /\ ch' = Tail(ch)
    /\ wpc' = IF dbId # log[Head(ch)].db THEN "select" ELSE "wait"
    /\ UNCHANGED <<log, dbId, buffer, buffered, tvars, chWaitReply, rvars, unanswered,
                   closing, dead>>

\* Fault: the select overtakes the buffered commands.
SelectOvertakes ==
    /\ ~ dead /\ wpc = "select"
    /\ wire' = Append(wire, [id |-> 0, db |-> log[cur].db])
    /\ dbId' = log[cur].db
    /\ wpc' = "announceSelect"
    /\ UNCHANGED <<log, ch, cur, buffer, buffered, targetDb, executed, replies, chWaitReply,
                   rvars, unanswered, closing, dead>>

\* switchDbTo: client.Send writes the command behind the buffered ones and flushes.
SendSelect ==
    /\ ~ dead /\ wpc = "select"
    /\ wire' = (wire \o buffer) \o <<[id |-> 0, db |-> log[cur].db]>>
    /\ buffer' = <<>> /\ buffered' = 0
    /\ dbId' = log[cur].db
    /\ wpc' = "announceSelect"
    /\ UNCHANGED <<log, ch, cur, targetDb, executed, replies, chWaitReply, rvars,
                   unanswered, closing, dead>>

\* Fault: the select is not announced, so its reply is taken for the entry's.
SkipSelect ==
    /\ ~ dead /\ wpc = "announceSelect"
    /\ wpc' = "wait"
    /\ UNCHANGED <<log, ch, cur, dbId, buffer, buffered, tvars, chWaitReply, rvars,
                   unanswered, closing, dead>>

AnnounceSelect ==
    /\ ~ dead /\ wpc = "announceSelect"
    /\ Len(chWaitReply) < 2 * CountLimit
    /\ chWaitReply' = Append(chWaitReply, 0)
    /\ wpc' = "wait"
    /\ UNCHANGED <<log, ch, cur, dbId, buffer, buffered, tvars, rvars, unanswered,
                   closing, dead>>

MustWait == unanswered > 0 /\ log[cur].size + unanswered > MaxQuery

\* Fault: the entry's own size is left out of the comparison.
PassFull ==
    /\ ~ dead /\ wpc = "wait"
    /\ unanswered <= MaxQuery
    /\ wpc' = "announce"
    /\ UNCHANGED <<log, ch, cur, dbId, buffer, buffered, tvars, chWaitReply, rvars,
                   unanswered, closing, dead>>

PassWait ==
    /\ ~ dead /\ wpc = "wait"
    /\ ~ MustWait
    /\ wpc' = "announce"
    /\ UNCHANGED <<log, ch, cur, dbId, buffer, buffered, tvars, chWaitReply, rvars,
                   unanswered, closing, dead>>

Announced ==
    /\ Len(chWaitReply) < 2 * CountLimit
    /\ chWaitReply' = Append(chWaitReply, cur)
    /\ wpc' = "account"

Announce ==
    /\ ~ dead /\ wpc = "announce"
    /\ Announced
    /\ UNCHANGED <<log, ch, cur, dbId, buffer, buffered, tvars, rvars, unanswered,
                   closing, dead>>

\* Fault: processWrite blocks on the full channel without flushing first.
AnnounceFullNoFlush ==
    /\ ~ dead /\ wpc = "announce"
    /\ Len(chWaitReply) = 2 * CountLimit
    /\ wpc' = "blocked"
    /\ UNCHANGED <<log, ch, cur, dbId, buffer, buffered, tvars, chWaitReply, rvars,
                   unanswered, closing, dead>>

\* The default branch of the select statement, and the blocking send behind it.
AnnounceFull ==
    /\ ~ dead /\ wpc = "announce"
    /\ Len(chWaitReply) = 2 * CountLimit
    /\ Flushed
    /\ wpc' = "blocked"
    /\ UNCHANGED <<log, ch, cur, dbId, targetDb, executed, replies, chWaitReply, rvars,
                   unanswered, closing, dead>>

AnnounceBlocked ==
    /\ ~ dead /\ wpc = "blocked"
    /\ Announced
    /\ UNCHANGED <<log, ch, cur, dbId, buffer, buffered, tvars, rvars, unanswered,
                   closing, dead>>

Account ==
    /\ ~ dead /\ wpc = "account"
    /\ unanswered' = unanswered + log[cur].size
    /\ wpc' = "send"
    /\ UNCHANGED <<log, ch, cur, dbId, buffer, buffered, tvars, chWaitReply, rvars,
                   closing, dead>>

(***************************************************************************)
(* bufio.Writer.Write: what fits is copied; otherwise the buffer is filled *)
(* up and flushed, and the rest is copied, or written directly when it is  *)
(* larger than an empty buffer.                                            *)
(***************************************************************************)
SendBytesBuff ==
    LET size == log[cur].size
        rest == size - (BufSize - buffered)
        left == IF buffered = 0 \/ rest > BufSize THEN 0 ELSE rest
        command == [id |-> cur, db |-> log[cur].db]
    IN  IF buffered + size <= BufSize
        THEN /\ buffer' = Append(buffer, command)
             /\ buffered' = buffered + size
             /\ UNCHANGED wire
        ELSE /\ buffered' = left
             /\ buffer' = IF left = 0 THEN <<>> ELSE <<command>>
             /\ wire' = wire \o (IF left = 0 THEN Append(buffer, command) ELSE buffer)

Send ==
    /\ ~ dead /\ wpc = "send"
    /\ SendBytesBuff
    /\ wpc' = "loop"
    /\ UNCHANGED <<log, ch, cur, dbId, targetDb, executed, replies, chWaitReply, rvars,
                   unanswered, closing, dead>>

\* Fault: the last commands stay in the buffer.
ExitNoFlush ==
    /\ ~ dead /\ wpc = "loop" /\ ch = <<>> /\ closing # "open"
    /\ wpc' = "done"
    /\ UNCHANGED <<log, ch, cur, dbId, buffer, buffered, tvars, chWaitReply, rvars,
                   unanswered, closing, dead>>

\* The channel is closed and empty.
ExitWrite ==
    /\ ~ dead /\ wpc = "loop" /\ ch = <<>> /\ closing # "open"
    /\ Flushed
    /\ wpc' = "done"
    /\ UNCHANGED <<log, ch, cur, dbId, targetDb, executed, replies, chWaitReply, rvars,
                   unanswered, closing, dead>>

(***************************************************************************)
(* The target instance.                                                    *)
(***************************************************************************)
Execute(outcome) ==
    /\ wire # <<>>
    /\ LET command == Head(wire) IN
         /\ replies' = Append(replies, outcome)
         /\ IF command.id = 0
            THEN /\ outcome \in {"ok", "error"}
                 /\ targetDb' = IF outcome = "ok" THEN command.db ELSE targetDb
                 /\ UNCHANGED executed
            ELSE /\ executed' = Append(executed, <<command.id, targetDb>>)
                 /\ UNCHANGED targetDb
    /\ wire' = Tail(wire)
    /\ UNCHANGED <<log, ch, wvars, chWaitReply, rvars, unanswered, closing, dead>>

(***************************************************************************)
(* processReply                                                            *)
(***************************************************************************)
Await ==
    /\ ~ dead /\ rpc = "range" /\ chWaitReply # <<>>
    /\ held' = Head(chWaitReply)
    /\ chWaitReply' = Tail(chWaitReply)
    /\ rpc' = "receive"
    /\ UNCHANGED <<log, ch, wvars, tvars, acked, unanswered, closing, dead>>

Fatal(reply) == reply = "error" \/ (reply = "busykey" /\ Behavior = "panic")

Receive ==
    /\ ~ dead /\ rpc = "receive" /\ replies # <<>>
    /\ replies' = Tail(replies)
    /\ IF Fatal(Head(replies))
       THEN dead' = TRUE /\ UNCHANGED <<rpc, unanswered>>
       ELSE /\ IF held = 0
               THEN rpc' = "range" /\ UNCHANGED unanswered
               ELSE rpc' = "notify" /\ unanswered' = unanswered - log[held].size
            /\ UNCHANGED dead
    /\ UNCHANGED <<log, ch, wvars, wire, targetDb, executed, chWaitReply, held, acked, closing>>

Notify ==
    /\ ~ dead /\ rpc = "notify"
    /\ acked' = Append(acked, held)
    /\ rpc' = "range"
    /\ UNCHANGED <<log, ch, wvars, tvars, chWaitReply, held, unanswered, closing, dead>>

ExitReply ==
    /\ ~ dead /\ rpc = "range" /\ chWaitReply = <<>> /\ closing = "replies"
    /\ rpc' = "done"
    /\ UNCHANGED <<log, ch, wvars, tvars, chWaitReply, held, acked, unanswered, closing, dead>>

(***************************************************************************)
(* Close: close(ch), wait for processWrite, close(chWaitReply), wait for   *)
(* processReply.                                                           *)
(***************************************************************************)
CloseCh ==
    /\ ~ dead /\ closing = "open"
    /\ closing' = "entries"
    /\ UNCHANGED <<log, ch, wvars, tvars, chWaitReply, rvars, unanswered, dead>>

\* Fault: chWaitReply is closed as soon as the entry channel is empty.
CloseWaitReplyEarly ==
    /\ ~ dead /\ closing = "entries" /\ ch = <<>>
    /\ closing' = "replies"
    /\ UNCHANGED <<log, ch, wvars, tvars, chWaitReply, rvars, unanswered, dead>>

CloseWaitReply ==
    /\ ~ dead /\ closing = "entries" /\ wpc = "done"
    /\ closing' = "replies"
    /\ UNCHANGED <<log, ch, wvars, tvars, chWaitReply, rvars, unanswered, dead>>

CloseReturn ==
    /\ ~ dead /\ closing = "replies" /\ rpc = "done"
    /\ closing' = "closed"
    /\ UNCHANGED <<log, ch, wvars, tvars, chWaitReply, rvars, unanswered, dead>>

Writer ==
    \/ Take \/ SendSelect \/ AnnounceSelect \/ PassWait \/ Announce \/ AnnounceFull
    \/ AnnounceBlocked \/ Account \/ Send \/ ExitWrite
Replier == Await \/ Receive \/ Notify \/ ExitReply
Closer == CloseWaitReply \/ CloseReturn

Next ==
    \/ \E e \in Kinds : Len(log) < MaxEntries /\ Write(e)
    \/ Tick
    \/ Writer
    \/ \E outcome \in Outcomes : Execute(outcome)
    \/ Replier
    \/ CloseCh
    \/ Closer

Spec == Init /\ [][Next]_vars

(***************************************************************************)
(* Every goroutine is scheduled, the ticker fires, the target serves its   *)
(* connection.  Nobody has to call Write or Close.                         *)
(***************************************************************************)
Fairness ==
    /\ WF_vars(Tick) /\ WF_vars(Writer) /\ WF_vars(Replier) /\ WF_vars(Closer)
    /\ WF_vars(\E outcome \in Outcomes : Execute(outcome))

FairSpec == Spec /\ Fairness
-----------------------------------------------------------------------------
Upto(s) == {s[i] : i \in 1..Len(s)}

TypeOK ==
    /\ log \in Seq(Entry) /\ ch \in Seq(Nat \ {0})
    /\ wpc \in {"loop", "select", "announceSelect", "wait", "announce", "blocked",
                "account", "send", "done"}
    /\ cur \in Nat /\ dbId \in DBs
    /\ buffer \in Seq(Command) /\ buffered \in 0..BufSize /\ wire \in Seq(Command)
    /\ targetDb \in DBs /\ executed \in Seq((Nat \ {0}) \X DBs) /\ replies \in Seq(Outcomes)
    /\ chWaitReply \in Seq(Nat) /\ rpc \in {"range", "receive", "notify", "done"}
    /\ held \in Nat /\ unanswered \in Nat /\ acked \in Seq(Nat \ {0})
    /\ closing \in {"open", "entries", "replies", "closed"} /\ dead \in BOOLEAN

\* The target executes the entries in the order of the Write calls, none of them
\* twice, and each one in its own database, although selects and flushes are
\* separate steps.
ExecutedInOrderInOwnDb ==
    \A k \in 1..Len(executed) :
        \/ executed[k] = <<k, log[k].db>>
        \/ "error" \in Upto(replies) \/ dead

\* The entries UnansweredBytes counts.
Unreplied ==
    (Upto(chWaitReply) \cup (IF rpc = "receive" THEN {held} ELSE {}))
        \ ({0} \cup (IF wpc = "account" THEN {cur} ELSE {}))

\* The limit on the target's query buffer: more than MaxQuery bytes are unanswered
\* only while a single entry is, one that is larger than the limit itself.
QueryBufferBounded ==
    unanswered > MaxQuery => Cardinality(Unreplied) = 1

\* When Close returns, every entry handed to Write was acknowledged: nothing is left
\* in a channel, in the buffer or on the wire.
CloseDrains == closing = "closed" => Len(acked) = Len(log)

\* The wait at redis_standalone_writer.go:128, when every byte it waits for is still in
\* the buffer of this very goroutine: nobody else flushes it, so the wait never ends.
\* The comment in front of it says "Wait only while target has in-flight bytes"; the
\* counter also has the bytes that were not sent yet.
WaitsForItself ==
    /\ wpc = "wait" /\ MustWait
    /\ Unreplied \subseteq {command.id : command \in Upto(buffer)}

\* Every entry handed to Write is acknowledged: none stays in the buffer or in a channel
\* for ever.  There are two exceptions: an error reply ends the process, or an entry
\* that exceeds the limit together with the buffered ones makes processWrite wait for
\* itself.
WrittenIsAcked ==
    \A k \in 1..MaxEntries : (k <= Len(log)) ~> (dead \/ k <= Len(acked) \/ WaitsForItself)

\* Close returns, whatever is in the channels when it is called, with the same two
\* exceptions.
CloseReturns == (closing = "entries") ~> (closing = "closed" \/ dead \/ WaitsForItself)

\* The writer implements the abstract FIFO target.
Abstract == INSTANCE FifoTarget
    WITH Entries <- Entry, sent <- log, ran <- Len(executed), answered <- Len(acked),
         failed <- dead
ImplementsFifoTarget == Abstract!FSpec
=============================================================================
