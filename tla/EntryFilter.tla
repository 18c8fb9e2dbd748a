---------------------------- MODULE EntryFilter ----------------------------
(***************************************************************************)
(* From the rules of a task to what is written: validateTask               *)
(* (cmd/redisshakeweb/redis.go), generateConfig (config.go), and in the    *)
(* task process Parse, Filter and RunFunction (internal/entry/entry.go,    *)
(* internal/filter/).  Lists of rules are sets; a regular expression is a  *)
(* record [form, keys]: "invalid", "blank", or "plain" with the keys it    *)
(* matches.                                                                *)
(***************************************************************************)
EXTENDS CommandKeys

(***************************************************************************)
(* validateTask.  dbMap maps the text of a source DB to a target DB.       *)
(***************************************************************************)
MapIsValid(task, source, target) ==
    /\ task.dbMap # << >>
    /\ \A raw \in DOMAIN task.dbMap :
          /\ raw \in DOMAIN Number
          /\ Number[raw] >= 0 /\ task.dbMap[raw] >= 0
          /\ source.kind = "cluster" => Number[raw] = 0
          /\ target.kind = "cluster" => task.dbMap[raw] = 0 /\ Cardinality(DOMAIN task.dbMap) = 1
          /\ \A other \in DOMAIN task.dbMap \ {raw} : task.dbMap[other] # task.dbMap[raw]

\* ^[A-Za-z][A-Za-z0-9_-]*$
Letters == "ABCDEFGHIJKLMNOPQRSTUVWXYZabcdefghijklmnopqrstuvwxyz"
CharsOf(word) == {Char(word, i) : i \in 1..Len(word)}
IsCommandName(c) == c # "" /\ Char(c, 1) \in CharsOf(Letters) /\ CharsOf(c) \subseteq CharsOf(Letters \o "0123456789_-")

validateTask(task, source, target) ==
    /\ task.name # "" /\ task.sourceID # "" /\ task.targetID # ""
    /\ task.sourceID # task.targetID
    /\ ~ (source.kind = target.kind /\ source.address # "" /\ source.address = target.address)
    /\ task.policy \in {"require_empty", "overwrite"}
    /\ MapIsValid(task, source, target)
    /\ \A regex \in task.allowRegex \cup task.blockRegex : regex.form # "invalid"
    /\ \A c \in task.allowCommands \cup task.blockCommands : IsCommandName(c)

(***************************************************************************)
(* generateConfig: the [filter] section.  The script is the if-chain       *)
(* "if DB == from then shake.call(to, ARGV) elseif ... end"; a text that   *)
(* is not in the map reads as DB 0.                                        *)
(***************************************************************************)
Upper(commands) == {ToUpper(c) : c \in commands}
Mapped(task, raw) == IF raw \in DOMAIN task.dbMap THEN task.dbMap[raw] ELSE 0

Function(task) ==
    LET sourceDBs == SetToSortSeq({Number[raw] : raw \in DOMAIN task.dbMap}, <)
    IN [i \in DOMAIN sourceDBs |-> [from |-> sourceDBs[i], to |-> Mapped(task, ToString(sourceDBs[i]))]]

generateConfig(task) ==
    [AllowKeyPrefix |-> task.allowPrefixes, BlockKeyPrefix |-> task.blockPrefixes,
     AllowKeyRegex |-> task.allowRegex, BlockKeyRegex |-> task.blockRegex,
     AllowDB |-> {Number[raw] : raw \in DOMAIN task.dbMap},
     AllowCommand |-> Upper(task.allowCommands), BlockCommand |-> Upper(task.blockCommands),
     Function |-> Function(task)]

(***************************************************************************)
(* The filter.  The Web server never sets the other lists of [filter].     *)
(***************************************************************************)
Parse(e) ==
    LET keys == [i \in DOMAIN CalcKeys(e.argv) |-> e.argv[CalcKeys(e.argv)[i] + 1]]
    IN [db |-> e.db, argv |-> e.argv, incremental |-> e.incremental, cmdName |-> CmdName(e.argv), keys |-> keys]

HasPrefix(key, prefix) == Len(prefix) <= Len(key) /\ SubSeq(key, 1, Len(prefix)) = prefix

\* NewKeysPattern leaves blank expressions out.
MatchKey(regexes, key) == \E regex \in regexes : regex.form = "plain" /\ key \in regex.keys

blockKeyFilter(opt, key) ==
    MatchKey(opt.BlockKeyRegex, key) \/ \E p \in opt.BlockKeyPrefix : HasPrefix(key, p)

\* A list that holds only a blank expression is not empty: no key passes.
allowKeyFilter(opt, key) ==
    \/ opt.AllowKeyRegex = {} /\ opt.AllowKeyPrefix = {}
    \/ MatchKey(opt.AllowKeyRegex, key) \/ \E p \in opt.AllowKeyPrefix : HasPrefix(key, p)

KeyPasses(opt, key) == ~ blockKeyFilter(opt, key) /\ allowKeyFilter(opt, key)
CommandPasses(opt, c) == (opt.AllowCommand = {} \/ c \in opt.AllowCommand) /\ c \notin opt.BlockCommand

\* Fault: a command passes when one of its keys does.
FilterAnyKey(opt, e) ==
    IF e.keys # <<>> /\ \A i \in DOMAIN e.keys : ~ KeyPasses(opt, e.keys[i]) THEN "drop"
    ELSE IF e.incremental /\ e.cmdName = "FLUSHALL" /\ CommandPasses(opt, "FLUSHALL") THEN "panic"
    ELSE IF opt.AllowDB # {} /\ e.db \notin opt.AllowDB THEN "drop"
    ELSE IF e.incremental /\ ~ CommandPasses(opt, e.cmdName) THEN "drop"
    ELSE IF e.incremental /\ e.cmdName = "FLUSHDB" THEN "panic"
    ELSE "pass"

Filter(opt, e) ==
    IF \E i \in DOMAIN e.keys : ~ KeyPasses(opt, e.keys[i]) THEN "drop"
    ELSE IF e.incremental /\ e.cmdName = "FLUSHALL" /\ CommandPasses(opt, "FLUSHALL") THEN "panic"
    ELSE IF opt.AllowDB # {} /\ e.db \notin opt.AllowDB THEN "drop"
    ELSE IF e.incremental /\ ~ CommandPasses(opt, e.cmdName) THEN "drop"
    ELSE IF e.incremental /\ e.cmdName = "FLUSHDB" THEN "panic"
    ELSE "pass"

\* shake.call makes an entry of a database and a command; the rest of the entry is lost.
RunFunction(script, e) ==
    LET branches == SelectSeq(script, LAMBDA b : b.from = e.db)
    IN IF branches = <<>> THEN <<>> ELSE <<[db |-> branches[1].to, argv |-> e.argv]>>

\* The goroutine of kernel.Run for an entry.
Transform(task, e) ==
    LET opt == generateConfig(task)
        verdict == IF CalcKeys(e.argv) = Panic THEN "panic" ELSE Filter(opt, Parse(e))
    IN [verdict |-> verdict, entries |-> IF verdict = "pass" THEN RunFunction(opt.Function, e) ELSE <<>>]
=============================================================================
