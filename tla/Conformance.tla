---------------------------- MODULE Conformance ----------------------------
(***************************************************************************)
(* The functions of the system that keep no state, each called once with   *)
(* an input from a bounded set; the invariants compare what it returns     *)
(* with a definition of what it should be.                                 *)
(***************************************************************************)
EXTENDS EntryFilter, AofLoader, LagReport, ConnectionAuth

CONSTANTS
    KeyWords,   \* the words of a command that name keys
    Argvs,      \* commands
    Clusters,   \* [owner, lines, keys]
    Tasks,      \* [task, source, target]
    Entries,    \* [db, argv, incremental]
    Aofs,       \* [files, lines, timestamp, budget]
    Lags,       \* [infos, address, consumed, master, mine, theirs]
    Forms       \* [form, old]

\* An answer of INFO names the master of its node, or None; "m" is the only master there is.
\* The task has consumed the bytes mine of the history replID, and "m" holds the bytes theirs;
\* if found, the chain of replicas leads from the address to "m" within MaxHops nodes.
LedTo(l) ==
    \E n \in 0..(MaxHops - 1) : \E path \in [0..n -> DOMAIN l.infos] :
        /\ path[0] = l.address /\ path[n] = "m"
        /\ \A i \in 0..(n - 1) : l.infos[path[i]].role \in {"slave", "replica"} /\ l.infos[path[i]].master = path[i + 1]
Answered(l) ==
    /\ {l.address, "m"} \subseteq DOMAIN l.infos /\ None \notin DOMAIN l.infos
    /\ \A node \in DOMAIN l.infos : /\ l.infos[node].role = "master" <=> node = "m"
                                   /\ l.infos[node].master \in DOMAIN l.infos \cup {None}
    /\ l.infos["m"].offset \in {Len(l.theirs), None} /\ l.consumed.offset = Len(l.mine)
    /\ l.found => LedTo(l) /\ l.infos["m"].offset # None /\ l.infos["m"].replid # ""

\* Two histories of one replication ID are the same, and the history of "m" is the one of its
\* second ID up to the byte before second_repl_offset, and another one from there on.
OfOneSource(l) ==
    LET m == l.infos["m"]
    IN /\ l.mine \in Seq(Range(l.mine)) /\ l.theirs \in Seq(Range(l.theirs))
       /\ l.consumed.replID = m.replid /\ m.replid # "" =>
              \A i \in DOMAIN l.mine \cap DOMAIN l.theirs : l.mine[i] = l.theirs[i]
       /\ l.consumed.replID = m.replid2 /\ m.replid2 # "" =>
              /\ m.second \in Nat \ {0}
              /\ \A i \in DOMAIN l.mine : i < m.second => i \in DOMAIN l.theirs /\ l.mine[i] = l.theirs[i]
              /\ \A i \in DOMAIN l.mine \cap DOMAIN l.theirs : i >= m.second => l.mine[i] # l.theirs[i]

ASSUME LagsAssumption == \A l \in Lags : Answered(l) /\ OfOneSource(l)

\* A form and a row have two pairs of credentials.
ASSUME FormsAssumption ==
    \A f \in Forms : \A p \in {f.form.redis, f.form.sentinel, f.old.redis, f.old.sentinel} :
        p = [mode |-> p.mode, username |-> p.username, password |-> p.password]

VARIABLES input, output

vars == <<input, output>>

Pending == [of |-> "nothing"]

Init ==
    /\ output = Pending
    /\ \/ \E argv \in Argvs : input = [call |-> "keys", argv |-> argv]
       \/ \E c \in Clusters : input = [call |-> "cluster", c |-> c]
       \/ \E t \in Tasks, e \in Entries :
             /\ validateTask(t.task, t.source, t.target)
             /\ input = [call |-> "filter", task |-> t.task, e |-> e]
       \/ \E a \in Aofs : input = [call |-> "aof", a |-> a]
       \/ \E l \in Lags : input = [call |-> "lag", l |-> l]
       \/ \E f \in Forms : input = [call |-> "auth", f |-> f]

Call(name) == input.call = name /\ output = Pending /\ UNCHANGED input

FindKeys ==
    /\ Call("keys")
    /\ output' = [of |-> "keys", found |-> CalcKeys(input.argv)]

RouteKeys ==
    /\ Call("cluster")
    /\ output' = [of |-> "cluster", nodes |-> Written(input.c.lines, CalcSlots(input.c.keys))]

FilterEntry ==
    /\ Call("filter")
    /\ output' = [of |-> "filter", result |-> Transform(input.task, input.e)]

LoadAof ==
    /\ Call("aof")
    /\ output' = [of |-> "aof", result |-> StartRead(input.a.files, input.a.lines, input.a.timestamp, input.a.budget)]

ReportLag ==
    /\ Call("lag")
    /\ output' = [of |-> "lag", result |-> Report(input.l.consumed, ReadMasterPosition(input.l.infos, input.l.address))]

SaveConnection ==
    /\ Call("auth")
    /\ output' = [of |-> "auth", saved |-> Saved(input.f.form, input.f.old),
                  tested |-> Tested(input.f.form, input.f.old),
                  resaved |-> Tested(safe(input.f.old), input.f.old)]

Next == FindKeys \/ RouteKeys \/ FilterEntry \/ LoadAof \/ ReportLag \/ SaveConnection

Spec == Init /\ [][Next]_vars
-----------------------------------------------------------------------------
Returned(name) == output.of = name

\* The keys of a command, in their order.
KeysIn(argv) == SelectSeq(argv, LAMBDA w : w \in KeyWords)

\* CalcKeys finds the keys of a command and nothing else, wherever the command has them:
\* a filter on keys and the choice of the node rest on it.
KeysAreFound ==
    Returned("keys") => [i \in DOMAIN output.found |-> input.argv[output.found[i] + 1]] = KeysIn(input.argv)

\* What Redis Cluster hashes: what is between the first '{' and the first '}' after it,
\* unless it is nothing.
Hashed(key) ==
    LET open == {i \in 1..Len(key) : Char(key, i) = "{"}
        first == CHOOSE i \in open : \A j \in open : i <= j
        close == {i \in 1..Len(key) : Char(key, i) = "}" /\ i > first}
        last == CHOOSE i \in close : \A j \in close : i <= j
    IN IF open = {} THEN key
       ELSE IF close = {} THEN key
       ELSE IF last = first + 1 THEN key ELSE SubSeq(key, first + 1, last - 1)

\* A command goes to the node that owns the slot of its keys, as Redis Cluster hashes
\* them, whatever else CLUSTER NODES lists; one without keys goes to every owner, and
\* one with keys of two slots ends the task.
SlotsReachOwner ==
    Returned("cluster") =>
        LET c == input.c
            slots == {Crc16[Hashed(c.keys[i])] : i \in DOMAIN c.keys}
            masters == {l.address : l \in {x \in Range(c.lines) : IsMaster(x)}}
        IN CASE slots = {} -> Range(c.owner) \subseteq output.nodes /\ output.nodes \subseteq masters
             [] Cardinality(slots) = 1 -> output.nodes = {c.owner[s] : s \in slots}
             [] OTHER -> output.nodes = {"panic"}

(***************************************************************************)
(* The rules of a task as the product specification states them: exclusion *)
(* first, allowed prefixes or allowed expressions, nothing allowed means   *)
(* everything, and DB, key and command rules all have to pass.             *)
(***************************************************************************)
Matches(prefixes, regexes, key) ==
    \/ \E p \in prefixes : HasPrefix(key, p)
    \/ \E r \in regexes : r.form = "plain" /\ key \in r.keys
KeyChosen(task, key) ==
    /\ ~ Matches(task.blockPrefixes, task.blockRegex, key)
    /\ \/ task.allowPrefixes = {} /\ task.allowRegex = {}
       \/ Matches(task.allowPrefixes, task.allowRegex, key)
CommandChosen(task, c) ==
    /\ \A b \in task.blockCommands : ToUpper(b) # c
    /\ task.allowCommands = {} \/ \E a \in task.allowCommands : ToUpper(a) = c

Chosen(task, e) ==
    /\ ToString(e.db) \in DOMAIN task.dbMap
    /\ \A i \in DOMAIN KeysIn(e.argv) : KeyChosen(task, KeysIn(e.argv)[i])
    /\ e.incremental => CommandChosen(task, CmdName(e.argv))

\* A command that empties databases the task copies.
Empties(task, e) ==
    /\ e.incremental /\ CommandChosen(task, CmdName(e.argv))
    /\ \/ CmdName(e.argv) = "FLUSHALL"
       \/ CmdName(e.argv) = "FLUSHDB" /\ ToString(e.db) \in DOMAIN task.dbMap

\* From the rules of a valid task to what is written: validateTask, generateConfig, the
\* filter and the generated script let through exactly the chosen commands, each once,
\* unchanged and into the database it is mapped to; a command that empties databases
\* is never skipped silently and never written.
FilterFollowsRules ==
    Returned("filter") =>
        LET e == input.e
            target == input.task.dbMap[ToString(e.db)]
        IN output.result =
            IF Empties(input.task, e) THEN [verdict |-> "panic", entries |-> <<>>]
            ELSE IF ~ Chosen(input.task, e) THEN [verdict |-> "drop", entries |-> <<>>]
            ELSE [verdict |-> "pass", entries |-> <<[db |-> target, argv |-> e.argv]>>]

\* The product specification: every source DB is mapped to the target DB of its own
\* (product-spec.md:74,78), the one preflight checks.
MappedAsConfigured ==
    Returned("filter") =>
        \A raw \in DOMAIN input.task.dbMap :
            Number[raw] = input.e.db /\ output.result.verdict = "pass"
                => \A i \in DOMAIN output.result.entries : output.result.entries[i].db = input.task.dbMap[raw]

(***************************************************************************)
(* What an AOF holds: its base, or else its history files, and then the    *)
(* incremental ones, up to the first damage or, after the base, to the     *)
(* first timestamp that is too late.                                       *)
(***************************************************************************)
Items(files, lines) ==
    FlattenSeq([i \in DOMAIN lines |-> IF lines[i].name \in DOMAIN files THEN files[lines[i].name].items ELSE <<>>])
UpToEnd(items, timestamp) ==
    LET stops == {i \in DOMAIN items : Ends(items[i], timestamp)}
    IN IF stops = {} THEN items ELSE Take(items, CHOOSE i \in stops : \A j \in stops : i <= j)
Behind(am) == IF am.base = <<>> THEN am.history \o am.incr ELSE am.incr
History(a) ==
    LET am == AOFManifest(a.lines)
        base == UpToEnd(Items(a.files, am.base), 0)
    IN IF a.lines = <<>> THEN Sent(UpToEnd(a.files["single"].items, a.timestamp))
       ELSE Sent(base \o UpToEnd(Items(a.files, Behind(am)), a.timestamp))

\* The AOF reader sends a prefix of what was recorded, in order and never beyond the
\* recovery timestamp; if it says it loaded the file, there is one file behind the base
\* at most and nobody stopped it, it sent everything.
AofReplaysHistory ==
    Returned("aof") =>
        LET a == input.a
            r == output.result
        IN /\ IsPrefix(r.sent, History(a))
           /\ Loaded(r) /\ r.left > 0 /\ Len(Behind(AOFManifest(a.lines))) <= 1 => r.sent = History(a)

\* A reported lag is the distance between two positions of one history: at most the last
\* byte consumed is not the master's (second_repl_offset is the first offset of the new
\* history, and Report lets it pass).  And a position the master continues has a lag.
LagOfOneHistory ==
    Returned("lag") =>
        LET l == input.l
            lag == output.result.lag
        IN /\ lag # None =>
                 /\ lag = Len(l.theirs) - Len(l.mine) /\ lag >= 0
                 /\ IsPrefix(Front(l.mine), l.theirs)
           /\ l.found /\ l.consumed.known /\ IsPrefix(l.mine, l.theirs)
                 /\ l.consumed.replID \in {l.infos["m"].replid, l.infos["m"].replid2} \ {""} => lag # None

\* A connection that passed its test is saved and used with the credentials that were
\* tested; saving the form as the API shows it is accepted and changes no credentials; a
\* mode without password removes the saved one.
CredentialsAreStable ==
    Returned("auth") =>
        LET f == input.f
            free(form) == form.mode \in {"none", "username"}
        IN /\ ~ IsRefused(output.tested) => Used(output.saved) = output.tested
           /\ ~ IsRefused(Used(f.old)) => output.resaved = Used(f.old)
           /\ ~ IsRefused(output.tested) /\ free(f.form.redis) => output.saved.redis.password = ""
           /\ ~ IsRefused(output.tested) /\ free(f.form.sentinel) => output.saved.sentinel.password = ""
=============================================================================
