----------------------------- MODULE AofLoader -----------------------------
(***************************************************************************)
(* The AOF reader: aof_reader.go, parsing_aof.go (internal/reader) and     *)
(* internal/aof/aof.go.  A file is a record [rdb, items]; an item is       *)
(* [cmd |-> c], a timestamp annotation [ts |-> t], a command that is cut   *)
(* short [torn |-> TRUE] or a line that is no command [bad |-> TRUE].  A   *)
(* manifest is a sequence of lines [name, seq, type].  Everything read     *)
(* from the channel is in sent; budget counts the items that are read      *)
(* before the task is stopped.                                             *)
(***************************************************************************)
EXTENDS Integers, Sequences, SequencesExt, FiniteSets

Is(item, field) == field \in DOMAIN item

Sent(items) == LET cmds == SelectSeq(items, LAMBDA i : Is(i, "cmd")) IN [i \in DOMAIN cmds |-> cmds[i].cmd]
Take(items, n) == SubSeq(items, 1, IF n < Len(items) THEN n ELSE Len(items))

(***************************************************************************)
(* LoadSingleAppendOnlyFile: reads until an item ends it.                  *)
(***************************************************************************)
Ends(item, timestamp) ==
    \/ Is(item, "torn") \/ Is(item, "bad")
    \/ Is(item, "ts") /\ timestamp # 0 /\ item.ts > timestamp

LoadSingleAppendOnlyFile(file, timestamp, budget) ==
    LET read == Take(file.items, budget)
        stops == {i \in DOMAIN read : Ends(read[i], timestamp)}
        last == CHOOSE i \in stops : \A j \in stops : i <= j
    IN IF stops = {} THEN [sent |-> Sent(read), ret |-> "ok", left |-> budget - Len(read)]
       ELSE [sent |-> Sent(Take(read, last)), left |-> budget - last,
             ret |-> CASE Is(read[last], "torn") -> "failed"
                       [] Is(read[last], "bad") -> "panic"
                       [] OTHER -> "truncated"]

\* An RDB base is read to its end, and what comes after it in the file is not.
ParsingSingleAppendOnlyFile(files, name, timestamp, budget) ==
    IF name \notin DOMAIN files THEN [sent |-> <<>>, ret |-> "not exist", left |-> budget]
    ELSE IF files[name].rdb
    THEN LET read == Take(files[name].items, budget)
         IN [sent |-> Sent(read), ret |-> "ok", left |-> budget - Len(read)]
    ELSE LoadSingleAppendOnlyFile(files[name], timestamp, budget)

(***************************************************************************)
(* AOFLoadManifestFromFile panics on a manifest that contradicts itself.   *)
(***************************************************************************)
OfType(lines, type) == SelectSeq(lines, LAMBDA l : l.type = type)

Contradictory(lines) ==
    LET incr == OfType(lines, "i")
    IN \/ Len(OfType(lines, "b")) > 1
       \/ \E i \in DOMAIN incr : incr[i].seq <= (IF i = 1 THEN 0 ELSE incr[i - 1].seq)
       \/ \E i \in DOMAIN lines : lines[i].seq = 0 \/ lines[i].type \notin {"b", "h", "i"}

\* History files of an RDB base are left out.
AOFManifest(lines) ==
    [base |-> OfType(lines, "b"), incr |-> OfType(lines, "i"),
     history |-> SelectSeq(lines, LAMBDA l : l.type = "h" /\ ~ l.rdb)]

(***************************************************************************)
(* LoadAppendOnlyFile.                                                     *)
(***************************************************************************)
Then(first, second) == [second EXCEPT !.sent = first.sent \o second.sent]

\* History and incremental files, up to the first that is there: the loop returns
\* after a file that was loaded.
LoadUntilFirst(files, lines, timestamp, budget) ==
    FoldLeft(LAMBDA done, l :
                IF done.ret # "not exist" THEN done
                ELSE ParsingSingleAppendOnlyFile(files, l.name, timestamp, done.left),
             [sent |-> <<>>, ret |-> "not exist", left |-> budget], lines)

\* Fault: the base file is loaded up to the timestamp as well.
LoadBaseUpTo(files, am, timestamp, budget) ==
    ParsingSingleAppendOnlyFile(files, am.base[1].name, timestamp, budget)

LoadBase(files, am, timestamp, budget) ==
    ParsingSingleAppendOnlyFile(files, am.base[1].name, 0, budget)

\* GetBaseAndIncrAppendOnlyFilesSize stops the task when a file is missing.
Missing(files, am) == \E l \in Range(am.base) \cup Range(am.incr) : l.name \notin DOMAIN files
Empty(files, am) == \A l \in Range(am.base) \cup Range(am.incr) : files[l.name].items = <<>>

LoadAppendOnlyFile(files, am, timestamp, budget) ==
    LET nothing == [sent |-> <<>>, ret |-> "ok", left |-> budget]
        base == LoadBase(files, am, timestamp, budget)
    IN IF am.base \o am.incr = <<>> \/ Missing(files, am) THEN [nothing EXCEPT !.ret = "panic"]
       ELSE IF Empty(files, am) THEN [nothing EXCEPT !.ret = "empty"]
       ELSE IF am.base = <<>> THEN LoadUntilFirst(files, am.history \o am.incr, timestamp, budget)
       ELSE IF base.ret \in {"failed", "panic"} THEN [base EXCEPT !.ret = "panic"]
       ELSE IF am.incr = <<>> THEN base
       ELSE Then(base, LoadUntilFirst(files, am.incr, timestamp, base.left))

\* The reader's goroutine.  A path that holds no manifest is loaded as a single file.
StartRead(files, lines, timestamp, budget) ==
    IF lines = <<>> THEN LoadSingleAppendOnlyFile(files["single"], timestamp, budget)
    ELSE IF Contradictory(lines) THEN [sent |-> <<>>, ret |-> "panic", left |-> budget]
    ELSE LoadAppendOnlyFile(files, AOFManifest(lines), timestamp, budget)

\* "The AOF File was successfully loaded"
Loaded(result) == result.ret \in {"ok", "truncated"}
=============================================================================
