----------------------------- MODULE ScanReader -----------------------------
(***************************************************************************)
(* The reader that copies a source by SCAN and, when asked to (ksn), by    *)
(* the source's keyspace notifications                                     *)
(* (internal/reader/scan_standalone_reader.go), with the queue that keeps  *)
(* a key once (internal/utils/UniqueQueue.go).                             *)
(*                                                                         *)
(* scan and subscribe put keys into the queue, the goroutine of the queue  *)
(* hands them to dump, dump pipelines its requests on one connection, and  *)
(* restore pairs the replies with the keys by position alone.  A key is a  *)
(* pair <<database, name>>; its value is a version, 0 when it is absent.   *)
(* The source, SCAN, the notifications and the target are external.        *)
(***************************************************************************)
EXTENDS Integers, Sequences, SequencesExt, FiniteSets

CONSTANTS
    Keys,        \* pairs <<database, name>>
    Volatile,    \* keys that have a time to live
    Big,         \* keys whose dump exceeds target_redis_proto_max_bulk_len
    Dbs,         \* the databases, in the order scan visits them
    Options,     \* [ksn, rewrite, skip]: skip has the keys of the types to skip; and the bounds
                 \* [changes, repeats]: changes of the source, and keys SCAN returns again
    ChanSize     \* capacity of needRestoreChan and of ch (1024)

ASSUME KeysAssumption ==
    /\ \A k \in Keys : k = <<k[1], k[2]>> /\ k[1] \in Range(Dbs)
    /\ Volatile \cup Big \subseteq Keys
ASSUME DbsAssumption == Dbs \in Seq(Int)
ASSUME OptionsAssumption ==
    Options \subseteq [ksn : BOOLEAN, rewrite : BOOLEAN, skip : SUBSET Keys, changes : Nat, repeats : Nat]
ASSUME SizeAssumption == ChanSize \in Nat \ {0}

None == <<>>

VARIABLES
    opts,         \* options of the task
    source,       \* the source's keys
    changes,      \* changes so far
    subscribed,   \* the source has the subscription
    events,       \* notifications on the way
    cancelled,    \* ctx.Done()
    panicked,     \* "no", or what ended the process
    scan,         \* goroutine: [pc, db, due, key, repeats]
    sub,          \* goroutine: [pc, key]
    queue,        \* UniqueQueue: [set, inner, closed]
    pump,         \* its goroutine: the item it is about to send to Ch; ended
    dumpDb,       \* nowDbId of dump
    wire,         \* dumpClient: [requests, db of the connection, replies]
    needRestore,  \* needRestoreChan: [items, closed]
    restoring,    \* restore: [db, out]: nowDbId and the entries it is about to send to ch
    ch,           \* [entries, closed]
    target        \* the target's keys

config == <<opts>>
origin == <<source, changes, events>>
vars == <<config, origin, subscribed, cancelled, panicked, scan, sub, queue, pump,
          dumpDb, wire, needRestore, restoring, ch, target>>

KeysOf(db) == {k \in Keys : k[1] = db}
Present == {k \in Keys : source[k] # 0}

Init ==
    /\ opts \in Options
    /\ source = [k \in Keys |-> 1] /\ changes = 0 /\ events = <<>>
    /\ subscribed = FALSE /\ cancelled = FALSE /\ panicked = "no"
    /\ scan = [pc |-> "new", db |-> 0, due |-> {}, key |-> None, repeats |-> 0]
    /\ sub = [pc |-> IF opts.ksn THEN "psubscribe" ELSE "off", key |-> None]
    /\ queue = [set |-> {}, inner |-> <<>>, closed |-> FALSE]
    /\ pump = [item |-> None, ended |-> FALSE]
    /\ dumpDb = 0
    /\ wire = [requests |-> <<>>, db |-> 0, replies |-> <<>>]
    /\ needRestore = [items |-> <<>>, closed |-> FALSE]
    /\ restoring = [db |-> 0, out |-> <<>>]
    /\ ch = [entries |-> <<>>, closed |-> FALSE]
    /\ target = [k \in Keys |-> 0]

Running == panicked = "no"

(***************************************************************************)
(* The source: a key is written, deleted, or expires; a subscriber is told *)
(* of each.                                                                *)
(***************************************************************************)
SourceKeeps == <<config, subscribed, cancelled, panicked, scan, sub, queue, pump,
                 dumpDb, wire, needRestore, restoring, ch, target>>

Change(k, v, event) ==
    /\ Running /\ changes < opts.changes
    /\ source' = [source EXCEPT ![k] = v]
    /\ changes' = changes + 1
    /\ events' = IF subscribed THEN Append(events, [key |-> k, event |-> event]) ELSE events

SourceSet(k) == Change(k, changes + 2, "set") /\ UNCHANGED SourceKeeps

\* SCAN owes no key that was away.
SourceLose(k, event) ==
    /\ k \in Present /\ Change(k, 0, event)
    /\ scan' = [scan EXCEPT !.due = @ \ {k}]
    /\ UNCHANGED <<config, subscribed, cancelled, panicked, sub, queue, pump,
                   dumpDb, wire, needRestore, restoring, ch, target>>

SourceDel(k) == SourceLose(k, "del")
SourceExpire(k) == k \in Volatile /\ SourceLose(k, "expired")

Cancel ==
    /\ Running /\ ~ cancelled /\ cancelled' = TRUE
    /\ UNCHANGED <<config, origin, subscribed, panicked, scan, sub, queue, pump,
                   dumpDb, wire, needRestore, restoring, ch, target>>

(***************************************************************************)
(* The queue.  Put marks the item under the lock and sends it afterwards;  *)
(* the goroutine of the queue unmarks an item before it hands it over.     *)
(***************************************************************************)
Marked(k) == k \in queue.set
Mark(k) == queue' = [queue EXCEPT !.set = @ \cup {k}]

\* A send on a closed channel, and a second close, are panics.
SendInner(k) ==
    IF queue.closed
    THEN panicked' = "queue" /\ UNCHANGED queue
    ELSE queue' = [queue EXCEPT !.inner = Append(@, k)] /\ UNCHANGED panicked

CloseQueue ==
    IF queue.closed
    THEN panicked' = "queue" /\ UNCHANGED queue
    ELSE queue' = [queue EXCEPT !.closed = TRUE] /\ UNCHANGED panicked

PumpKeeps == <<config, origin, subscribed, cancelled, panicked, scan, sub,
               dumpDb, wire, needRestore, restoring, ch, target>>

Pump ==
    /\ Running /\ pump.item = None /\ queue.inner # <<>>
    /\ LET k == Head(queue.inner)
       IN /\ queue' = [queue EXCEPT !.inner = Tail(@), !.set = @ \ {k}]
          /\ pump' = [pump EXCEPT !.item = k]
    /\ UNCHANGED PumpKeeps

PumpEnd ==
    /\ Running /\ ~ pump.ended /\ pump.item = None /\ queue.inner = <<>> /\ queue.closed
    /\ pump' = [pump EXCEPT !.ended = TRUE]
    /\ UNCHANGED <<PumpKeeps, queue>>

(***************************************************************************)
(* subscribe.  StartRead waits for the subscription before it starts the   *)
(* others.  The context is looked at between two notifications only.       *)
(***************************************************************************)
SubKeeps == <<config, source, changes, cancelled, scan, pump,
              dumpDb, wire, needRestore, restoring, target>>

Subscribe ==
    /\ Running /\ sub.pc = "psubscribe"
    /\ subscribed' = TRUE /\ sub' = [sub EXCEPT !.pc = "loop"]
    /\ UNCHANGED <<SubKeeps, events, panicked, queue, ch>>

SubStop ==
    /\ Running /\ sub.pc = "loop" /\ cancelled
    /\ sub' = [sub EXCEPT !.pc = "stopped"]
    /\ CloseQueue
    /\ UNCHANGED <<SubKeeps, events, subscribed, ch>>

\* The context was still good: Receive waits for the next notification.
SubWait ==
    /\ Running /\ sub.pc = "loop" /\ ~ cancelled
    /\ sub' = [sub EXCEPT !.pc = "receive"]
    /\ UNCHANGED <<SubKeeps, events, subscribed, panicked, queue, ch>>

\* restore closes ch when it ends, so the DEL may meet a closed channel.
SubDel ==
    /\ Running /\ sub.pc = "receive" /\ events # <<>> /\ Head(events).event = "del"
    /\ events' = Tail(events) /\ sub' = [sub EXCEPT !.pc = "loop"]
    /\ IF ch.closed
       THEN panicked' = "channel" /\ UNCHANGED ch
       ELSE /\ Len(ch.entries) < ChanSize
            /\ ch' = [ch EXCEPT !.entries = Append(@, [op |-> "DEL", key |-> Head(events).key])]
            /\ UNCHANGED panicked
    /\ UNCHANGED <<SubKeeps, subscribed, queue>>

SubPut ==
    /\ Running /\ sub.pc = "receive" /\ events # <<>> /\ Head(events).event # "del"
    /\ LET k == Head(events).key
       IN IF Marked(k)
          THEN sub' = [sub EXCEPT !.pc = "loop"] /\ UNCHANGED queue
          ELSE sub' = [pc |-> "send", key |-> k] /\ Mark(k)
    /\ events' = Tail(events)
    /\ UNCHANGED <<SubKeeps, subscribed, panicked, ch>>

SubSend ==
    /\ Running /\ sub.pc = "send"
    /\ SendInner(sub.key)
    /\ sub' = [pc |-> "loop", key |-> None]
    /\ UNCHANGED <<SubKeeps, events, subscribed, ch>>

(***************************************************************************)
(* scan.  SCAN may return any key that is there, a key again, and ends     *)
(* once it has returned every key that was there all the time.             *)
(***************************************************************************)
ScanKeeps == <<config, origin, subscribed, cancelled, sub, pump,
               dumpDb, wire, needRestore, restoring, ch, target>>

SelectDb(i) == scan' = [scan EXCEPT !.pc = "call", !.db = i, !.due = KeysOf(Dbs[i]) \cap Present]

\* Fault: the queue is closed although subscribe still fills it.
ScanNextDbCloses ==
    \/ /\ scan.db < Len(Dbs) /\ SelectDb(scan.db + 1) /\ UNCHANGED <<panicked, queue>>
    \/ /\ scan.db = Len(Dbs) /\ scan' = [scan EXCEPT !.pc = "finished"] /\ CloseQueue

\* Fault: cursor 0 ends the scan, not the database.
ScanNextDbReturns ==
    \/ /\ scan.pc = "new" /\ SelectDb(1) /\ UNCHANGED <<panicked, queue>>
    \/ /\ scan.pc # "new" /\ scan' = [scan EXCEPT !.pc = "finished"]
       /\ IF opts.ksn THEN UNCHANGED <<panicked, queue>> ELSE CloseQueue

\* The database is done: SELECT the next one, or end and close the queue if nobody else fills it.
ScanNextDb ==
    \/ /\ scan.db < Len(Dbs) /\ SelectDb(scan.db + 1) /\ UNCHANGED <<panicked, queue>>
    \/ /\ scan.db = Len(Dbs) /\ scan' = [scan EXCEPT !.pc = "finished"]
       /\ IF opts.ksn THEN UNCHANGED <<panicked, queue>> ELSE CloseQueue

\* Fault: StartRead does not wait for the subscription.
ScanStartAtOnce ==
    /\ Running /\ scan.pc = "new"
    /\ ScanNextDb
    /\ UNCHANGED ScanKeeps

ScanStart ==
    /\ Running /\ scan.pc = "new" /\ sub.pc # "psubscribe"
    /\ ScanNextDb
    /\ UNCHANGED ScanKeeps

ScanStop ==
    /\ Running /\ scan.pc = "call" /\ cancelled
    /\ scan' = [scan EXCEPT !.pc = "stopped"]
    /\ CloseQueue
    /\ UNCHANGED ScanKeeps

\* A call that returns nothing and cursor 0.
ScanEmpty ==
    /\ Running /\ scan.pc = "call" /\ ~ cancelled /\ scan.due = {}
    /\ ScanNextDb
    /\ UNCHANGED ScanKeeps

ScanCall(k) ==
    /\ Running /\ scan.pc = "call" /\ ~ cancelled /\ k \in KeysOf(Dbs[scan.db]) \cap Present
    /\ k \in scan.due \/ scan.repeats < opts.repeats
    /\ scan' = [scan EXCEPT !.pc = "put", !.key = k, !.due = @ \ {k},
                            !.repeats = IF k \in scan.due THEN @ ELSE @ + 1]
    /\ UNCHANGED <<ScanKeeps, panicked, queue>>

ScanPut ==
    /\ Running /\ scan.pc = "put"
    /\ IF Marked(scan.key)
       THEN scan' = [scan EXCEPT !.pc = "cursor"] /\ UNCHANGED queue
       ELSE scan' = [scan EXCEPT !.pc = "send"] /\ Mark(scan.key)
    /\ UNCHANGED <<ScanKeeps, panicked>>

ScanSend ==
    /\ Running /\ scan.pc = "send"
    /\ SendInner(scan.key)
    /\ scan' = [scan EXCEPT !.pc = "cursor"]
    /\ UNCHANGED ScanKeeps

\* Cursor 0 ends the database; otherwise the loop looks at the context again.
ScanCursor ==
    /\ Running /\ scan.pc = "cursor"
    /\ \/ scan.due = {} /\ ScanNextDb
       \/ scan.due # {} /\ scan' = [scan EXCEPT !.pc = "call"] /\ UNCHANGED <<panicked, queue>>
    /\ UNCHANGED ScanKeeps

(***************************************************************************)
(* dump: SELECT when the database changes, DUMP, PTTL, and TYPE when types *)
(* are skipped; the source answers in order, at its own time.              *)
(***************************************************************************)
DumpRequests(k) ==
    (IF k[1] # dumpDb THEN <<[op |-> "SELECT", arg |-> k[1]]>> ELSE <<>>)
        \o <<[op |-> "DUMP", arg |-> k[2]], [op |-> "PTTL", arg |-> k[2]]>>
        \o (IF opts.skip # {} THEN <<[op |-> "TYPE", arg |-> k[2]]>> ELSE <<>>)

\* dump sends the requests and then waits for room in needRestoreChan: the item it holds
\* meanwhile is the last of the items, one more than the channel takes.
DumpWaits == Len(needRestore.items) > ChanSize

Dump ==
    /\ Running /\ pump.item # None /\ ~ DumpWaits
    /\ wire' = [wire EXCEPT !.requests = @ \o DumpRequests(pump.item)]
    /\ dumpDb' = pump.item[1]
    /\ needRestore' = [needRestore EXCEPT !.items = Append(@, pump.item)]
    /\ pump' = [pump EXCEPT !.item = None]
    /\ UNCHANGED <<config, origin, subscribed, cancelled, panicked, scan, sub, queue, restoring, ch, target>>

DumpEnd ==
    /\ Running /\ pump.ended /\ ~ needRestore.closed /\ ~ DumpWaits
    /\ needRestore' = [needRestore EXCEPT !.closed = TRUE]
    /\ UNCHANGED <<config, origin, subscribed, cancelled, panicked, scan, sub, queue, pump,
                   dumpDb, wire, restoring, ch, target>>

\* The milliseconds left: -2 the key is absent, -1 it has no time to live.
PttlOf(k) == IF source[k] = 0 THEN {-2} ELSE IF k \in Volatile THEN {0, 7} ELSE {-1}

RepliesTo(r) ==
    LET k == <<wire.db, r.arg>>
    IN CASE r.op = "SELECT" -> {[reply |-> "OK"]}
         [] r.op = "DUMP" -> IF source[k] = 0 THEN {[reply |-> "Nil"]}
                             ELSE {[reply |-> "dump", key |-> k, version |-> source[k]]}
         [] r.op = "PTTL" -> {[reply |-> "pttl", ms |-> n] : n \in PttlOf(k)}
         [] r.op = "TYPE" -> {[reply |-> "type", skipped |-> k \in opts.skip /\ source[k] # 0]}

Serve ==
    /\ Running /\ wire.requests # <<>>
    /\ LET r == Head(wire.requests)
       IN \E a \in RepliesTo(r) :
             wire' = [requests |-> Tail(wire.requests),
                      db |-> IF r.op = "SELECT" THEN r.arg ELSE wire.db,
                      replies |-> Append(wire.replies, a)]
    /\ UNCHANGED <<config, origin, subscribed, cancelled, panicked, scan, sub, queue, pump,
                   dumpDb, needRestore, restoring, ch, target>>

(***************************************************************************)
(* restore.  It takes one reply for each request it knows dump has sent.   *)
(***************************************************************************)
Selects(k) == IF k[1] # restoring.db THEN 1 ELSE 0
Expected(k) == Selects(k) + 2 + (IF opts.skip # {} THEN 1 ELSE 0)
Kinds(k) == (IF Selects(k) = 1 THEN <<{"OK"}>> ELSE <<>>) \o <<{"dump", "Nil"}, {"pttl"}>>
                \o (IF opts.skip # {} THEN <<{"type"}>> ELSE <<>>)

\* Fault: 0 ms are sent as they are.
TtlOfZero(ms) == IF ms = -1 THEN 0 ELSE ms

\* A time to live of 0 would make the key of a RESTORE permanent.
Ttl(ms) == IF ms = 0 THEN 1 ELSE IF ms = -1 THEN 0 ELSE ms

Restored(k, dump, ms) ==
    IF k \in Big
    THEN <<[op |-> "WRITE", key |-> k, of |-> dump.key, version |-> dump.version]>>
             \o (IF Ttl(ms) # 0 THEN <<[op |-> "PEXPIRE", key |-> k]>> ELSE <<>>)
    ELSE <<[op |-> "RESTORE", key |-> k, of |-> dump.key, version |-> dump.version, ttl |-> Ttl(ms),
            replace |-> opts.rewrite]>>

RestoreKeeps == <<config, origin, subscribed, cancelled, scan, sub, queue, pump, dumpDb, target>>

Restore ==
    /\ Running /\ restoring.out = <<>> /\ needRestore.items # <<>>
    /\ LET k == Head(needRestore.items)
           n == Expected(k)
           got == SubSeq(wire.replies, 1, n)
           dump == got[Selects(k) + 1]
           ms == got[Selects(k) + 2].ms
       IN /\ Len(wire.replies) >= n
          /\ wire' = [wire EXCEPT !.replies = SubSeq(@, n + 1, Len(@))]
          /\ needRestore' = [needRestore EXCEPT !.items = Tail(@)]
          /\ IF \E i \in 1..n : got[i].reply \notin Kinds(k)[i]
             THEN panicked' = "reply" /\ UNCHANGED restoring
             ELSE /\ restoring' = [db |-> k[1],
                                   out |-> IF (opts.skip # {} /\ got[n].skipped) \/ dump.reply = "Nil" \/ ms = -2
                                           THEN <<>> ELSE Restored(k, dump, ms)]
                  /\ UNCHANGED panicked
    /\ UNCHANGED <<RestoreKeeps, ch>>

RestoreSend ==
    /\ Running /\ restoring.out # <<>> /\ Len(ch.entries) < ChanSize
    /\ ch' = [ch EXCEPT !.entries = Append(@, Head(restoring.out))]
    /\ restoring' = [restoring EXCEPT !.out = Tail(@)]
    /\ UNCHANGED <<RestoreKeeps, panicked, wire, needRestore>>

RestoreEnd ==
    /\ Running /\ restoring.out = <<>> /\ needRestore.items = <<>> /\ needRestore.closed /\ ~ ch.closed
    /\ ch' = [ch EXCEPT !.closed = TRUE]
    /\ UNCHANGED <<RestoreKeeps, panicked, wire, needRestore, restoring>>

\* The writer and the target.  A RESTORE of a key that is there needs replace;
\* the writer's behaviour "panic" ends the process on BUSYKEY.
Apply ==
    /\ Running /\ ch.entries # <<>>
    /\ LET e == Head(ch.entries)
           busy == e.op = "RESTORE" /\ target[e.key] # 0 /\ ~ e.replace
       IN /\ ch' = [ch EXCEPT !.entries = Tail(@)]
          /\ panicked' = IF busy THEN "busy" ELSE "no"
          /\ target' = CASE busy \/ e.op = "PEXPIRE" -> target
                         [] e.op = "DEL" -> [target EXCEPT ![e.key] = 0]
                         [] OTHER -> [target EXCEPT ![e.key] = e.version]
    /\ UNCHANGED <<config, origin, subscribed, cancelled, scan, sub, queue, pump,
                   dumpDb, wire, needRestore, restoring>>

\* The process has ended, nothing is left to do, or subscribe waits for a notification.
Done ==
    /\ \/ ~ Running
       \/ ch.closed /\ ch.entries = <<>>
       \/ sub.pc = "receive" /\ events = <<>>
    /\ UNCHANGED vars

System == Subscribe \/ SubStop \/ SubWait \/ SubDel \/ SubPut \/ SubSend \/ Pump \/ PumpEnd
          \/ ScanStart \/ ScanStop \/ ScanEmpty \/ (\E k \in Keys : ScanCall(k))
          \/ ScanPut \/ ScanSend \/ ScanCursor
          \/ Dump \/ DumpEnd \/ Serve \/ Restore \/ RestoreSend \/ RestoreEnd \/ Apply

Next ==
    \/ System
    \/ \E k \in Keys : SourceSet(k) \/ SourceDel(k) \/ SourceExpire(k)
    \/ Cancel
    \/ Done

\* Every goroutine, the source's server and the writer go on; nobody has to change a key or cancel.
Fairness ==
    /\ WF_vars(Subscribe \/ SubStop \/ SubWait \/ SubDel \/ SubPut \/ SubSend)
    /\ WF_vars(ScanStart \/ ScanStop \/ ScanEmpty \/ (\E k \in Keys : ScanCall(k))
               \/ ScanPut \/ ScanSend \/ ScanCursor)
    /\ WF_vars(Pump \/ PumpEnd) /\ WF_vars(Dump \/ DumpEnd) /\ WF_vars(Serve)
    /\ WF_vars(Restore \/ RestoreSend \/ RestoreEnd) /\ WF_vars(Apply)

Spec == Init /\ [][Next]_vars /\ Fairness

-----------------------------------------------------------------------------
\* restore finds the replies of its own key by counting (scan_standalone_reader.go:247-257): whatever the order of
\* databases, what it sends carries the value of its own key, and a time to live exactly if
\* the key has one, even when 0 ms are left.  A type to be skipped is sent only if the key
\* went away between DUMP and TYPE.
RestoredIsOwnDump ==
    restoring.out # <<>> /\ Head(restoring.out).op # "PEXPIRE" =>
        LET e == Head(restoring.out)
        IN /\ e.of = e.key /\ (e.key \in opts.skip => source[e.key] # e.version)
           /\ e.key \in Volatile <=> IF e.op = "WRITE" THEN Len(restoring.out) = 2 ELSE e.ttl # 0

ListedTwice == \E i, j \in DOMAIN Dbs : i # j /\ Dbs[i] = Dbs[j]

\* The process panics for no other reason than these: the context ends while scan runs
\* beside subscribe, which both close the queue (lines 126 and 180), and restore may
\* have closed ch under subscribe; or SCAN returned a key twice, or a database is listed twice
\* in dbs, and the target was not to be overwritten.  Replies are never taken for one another.
PanicsAreExplained ==
    /\ panicked # "reply"
    /\ panicked \in {"queue", "channel"} => opts.ksn /\ cancelled /\ scan.pc # "finished"
    /\ panicked = "busy" => ~ opts.rewrite /\ (opts.ksn \/ scan.repeats > 0 \/ ListedTwice)

\* Without notifications the reader ends by itself, even when it is stopped, and unless it was
\* stopped or failed, every key that was never touched is at the target then.
ScanEnds ==
    ~ opts.ksn => <>(/\ Running => ch.closed /\ ch.entries = <<>>
                     /\ Running /\ ~ cancelled => \A k \in Keys \ opts.skip : source[k] = 1 => target[k] = 1)

\* With notifications, the target ends up with the current value of every key the source holds:
\* no update is lost in the queue that keeps a key once, nor between scan and subscribe.
LatestReachesTarget ==
    opts.ksn => \A k \in Keys :
        <>[](~ Running \/ cancelled \/ source[k] = 0 \/ k \in opts.skip \/ target[k] = source[k])
=============================================================================
