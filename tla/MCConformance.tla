--------------------------- MODULE MCConformance ---------------------------
(***************************************************************************)
(* Inputs of Conformance for TLC.                                          *)
(***************************************************************************)
EXTENDS Conformance

MCNumber == [n \in {"0", "1", "2", "3", "01"} |-> CASE n = "0" -> 0 [] n \in {"1", "01"} -> 1 [] n = "2" -> 2 [] n = "3" -> 3]
MCUppercase ==
    ("del" :> "DEL") @@ ("Del" :> "DEL") @@ ("set" :> "SET") @@ ("flushall" :> "FLUSHALL") @@ ("flushdb" :> "FLUSHDB")
    @@ ("mset" :> "MSET") @@ ("xgroup" :> "XGROUP") @@ ("create" :> "CREATE") @@ ("store" :> "STORE")
    @@ ("storedist" :> "STOREDIST") @@ ("eval" :> "EVAL") @@ ("zunionstore" :> "ZUNIONSTORE")
    @@ ("georadius" :> "GEORADIUS")

(***************************************************************************)
(* Commands with one to three keys.                                        *)
(***************************************************************************)
MCKeyWords == {"k1", "k2", "k3", "k12"}
Ks == {"k1", "k2"}
Several == {<<k>> : k \in Ks} \cup {<<k, l>> : k, l \in Ks} \cup {<<"k1", "k2", "k3">>}
Pairs(keys) == FlattenSeq([i \in DOMAIN keys |-> <<keys[i], "v">>])
Geo == <<"x", "y", "r", "m">>

MCArgvs ==
    {<<c, k, "v">> : c \in {"SET", "set", "APPEND", "RPUSH", "SADD", "PFADD", "HDEL", "RESTORE", "XADD"}, k \in Ks}
    \cup {<<c>> \o keys : c \in {"DEL", "del", "UNLINK", "SINTERSTORE", "PFMERGE", "RENAME", "LMOVE"},
                         keys \in {<<k, l>> : k, l \in Ks}}
    \cup {<<c>> \o keys : c \in {"DEL", "SUNION", "MGET", "WATCH", "PFCOUNT"}, keys \in Several}
    \cup {<<c>> \o keys \o <<"0">> : c \in {"BLPOP", "BRPOP", "BZPOPMIN"}, keys \in Several}
    \cup {<<c>> \o Pairs(keys) : c \in {"MSET", "mset", "MSETNX"}, keys \in Several}
    \cup {<<"MSETEX", ToString(Len(keys))>> \o Pairs(keys) \o <<"EX", "9">> : keys \in Several}
    \cup {<<c, "script", ToString(Len(keys))>> \o keys \o <<"v", "v">> : c \in {"EVAL", "eval", "EVALSHA", "FCALL"}, keys \in Several}
    \cup {<<"EVAL", "script", "0", "v">>, <<"FLUSHALL">>, <<"PING">>, <<"SELECT", "1">>, <<"MULTI">>, <<"EXEC">>}
    \cup {<<c, k, ToString(Len(keys))>> \o keys \o <<"WEIGHTS", "1", "1">> :
              c \in {"ZUNIONSTORE", "zunionstore", "ZINTERSTORE"}, k \in Ks, keys \in Several}
    \cup {<<"BITOP", "AND", k>> \o keys : k \in Ks, keys \in Several}
    \cup {<<c, k>> \o Geo \o tail : c \in {"GEORADIUS", "georadius"}, k \in Ks,
              tail \in {<<>>, <<"WITHDIST">>} \cup
                       {<<"COUNT", "2", s, l>> : s \in {"STORE", "store", "STOREDIST"}, l \in Ks} \cup
                       {<<s, l>> : s \in {"STORE", "storedist"}, l \in Ks}}
    \cup {<<"GEORADIUSBYMEMBER", k, "v", "r", "m">> \o tail : k \in Ks, tail \in {<<>>, <<"STORE", "k3">>, <<"STOREDIST", "k3">>}}
    \cup {<<"LCS", k, l, "LEN">> : k, l \in Ks}
    \cup {<<"OBJECT", "ENCODING", k>> : k \in Ks} \cup {<<x, y, k, "v", "0">> : x \in {"XGROUP", "xgroup"}, y \in {"CREATE", "create"}, k \in Ks}

(***************************************************************************)
(* Clusters of four slots and two masters.                                 *)
(***************************************************************************)
MCCrc16 == ("a" :> 0) @@ ("b" :> 1) @@ ("{}a" :> 2) @@ ("{a" :> 3) @@ ("a}b" :> 2) @@ ("{b" :> 3) @@ ("}{" :> 2) @@ ("{}{b}" :> 2)
ClusterKeys == {<<>>} \cup {<<k>> : k \in {"a", "b", "{a}b", "{a}{b}", "{}a", "{a", "a}b", "b{a}", "{{b}", "}{", "{}{b}"}}
               \cup {<<"a", "{a}b">>, <<"a", "b">>, <<"b", "a{b}">>}

\* The slots of a set as the ranges CLUSTER NODES shows.
Ranges(slots) ==
    SetToSortSeq({r \in (0..3) \X (0..3) : /\ r[1]..r[2] # {} /\ r[1]..r[2] \subseteq slots
                                           /\ r[1] - 1 \notin slots /\ r[2] + 1 \notin slots},
                 LAMBDA r, s : r[1] < s[1])
Owned(owner, a) == Ranges({s \in DOMAIN owner : owner[s] = a})
Line(id, flags, master, address, slots) ==
    [id |-> id, flags |-> flags, master |-> master, address |-> address, slots |-> slots]
Others == {<<>>, <<Line("r", {"slave"}, "n1", "p3", <<>>)>>, <<Line("r", {"slave", "fail?"}, "n1", "p3", <<>>)>>,
           <<Line("i", {"master"}, "-", "p4", <<>>)>>, <<Line("i", {"master"}, "-", "p4", <<<<"migrating">>>>)>>}
MCClusters ==
    {[owner |-> owner, keys |-> keys,
      lines |-> <<Line("n1", {"myself", "master"}, "-", "p1", Owned(owner, "p1") \o mark),
                  Line("n2", {"master"}, "-", "p2", Owned(owner, "p2"))>> \o others] :
        owner \in [0..3 -> {"p1", "p2"}], keys \in ClusterKeys, mark \in {<<>>, <<<<"migrating">>>>}, others \in Others}

(***************************************************************************)
(* Tasks and entries.                                                      *)
(***************************************************************************)
Plain(keys) == [form |-> "plain", keys |-> keys]
Blank == [form |-> "blank", keys |-> {}]
TasksWith(maps) ==
    {[source |-> [kind |-> "standalone", address |-> "s"], target |-> [kind |-> kind, address |-> "t"],
      task |-> [name |-> "n", sourceID |-> "1", targetID |-> "2", policy |-> "overwrite", dbMap |-> dbMap,
                allowPrefixes |-> ap, blockPrefixes |-> bp, allowRegex |-> ar, blockRegex |-> br,
                allowCommands |-> ac, blockCommands |-> bc]] :
        kind \in {"standalone", "cluster"}, dbMap \in maps, ap \in {{}, {"k1"}}, bp \in {{}, {"k12"}},
        ar \in {{}, {Plain({"k2"}), Blank}}, br \in {{}, {Plain({"k1"}), Blank}},
        ac \in {{}, {"del"}, {"DEL", "flushall", "flushdb"}}, bc \in {{}, {"Del"}, {"FLUSHDB", "flushall"}}}
MCTasks == TasksWith({"0" :> 0, "1" :> 0, ("0" :> 1) @@ ("1" :> 0), ("0" :> 0) @@ ("2" :> 3), ("0" :> 1) @@ ("1" :> 1)})

\* Maps with leading zeros, which the form and validateTask accept.
ZeroTasks == TasksWith({"01" :> 3, ("01" :> 3) @@ ("0" :> 0)})
MCEntries ==
    [db : {0, 1, 2}, incremental : BOOLEAN,
     argv : {<<"del", "k1", "k2">>, <<"DEL", "k12">>, <<"SET", "k2", "v">>, <<"set", "k1", "v">>,
             <<"FLUSHALL">>, <<"flushdb">>, <<"PING">>}]
OneEntry == {[db |-> 1, incremental |-> TRUE, argv |-> <<"SET", "k2", "v">>]}
NoInputs == {}

(***************************************************************************)
(* AOFs of a base, a history file and two incremental files.               *)
(***************************************************************************)
Cmd(c) == [cmd |-> c]
Ts(t) == [ts |-> t]
Torn == [torn |-> TRUE]
Bad == [bad |-> TRUE]
File(items) == [rdb |-> FALSE, items |-> items]
Snapshot(items) == [rdb |-> TRUE, items |-> items]
Bases == {File(<<>>), File(<<Cmd("b1"), Ts(5), Cmd("b2")>>), File(<<Cmd("b1"), Torn>>), Snapshot(<<Cmd("b1"), Cmd("b2")>>)}
Incrs(a, b) == {File(<<>>), File(<<Ts(3), Cmd(a), Ts(5), Cmd(b)>>), File(<<Cmd(a), Torn>>), File(<<Cmd(a), Bad, Cmd(b)>>)}
Manifest(name, type, seq) == <<[name |-> name, type |-> type, seq |-> seq, rdb |-> FALSE]>>
Files(base, i1, i2) == ("base" :> base) @@ ("h" :> File(<<Cmd("h1"), Ts(5), Cmd("h2")>>)) @@ ("i1" :> i1) @@ ("i2" :> i2)
Manifests ==
    {b \o h \o i \o j : b \in {<<>>, Manifest("base", "b", 1)},
                        h \in {<<>>, Manifest("h", "h", 1), Manifest("gone", "h", 1)},
                        i \in {<<>>, Manifest("i1", "i", 1), Manifest("gone", "i", 1)},
                        j \in {<<>>, Manifest("i2", "i", 2), Manifest("i2", "i", 1), Manifest("base", "b", 2)}} \ {<<>>}
MCAofs ==
    [files : {Files(base, i1, i2) : base \in Bases, i1 \in Incrs("c1", "c2"), i2 \in Incrs("d1", "d2")},
     lines : Manifests, timestamp : {0, 3, 4}, budget : {2, 4, 99}]
    \cup [files : {"single" :> f : f \in Incrs("c1", "c2")}, lines : {<<>>}, timestamp : {0, 3, 4}, budget : {2, 99}]

(***************************************************************************)
(* Replication histories: B forks from A after f bytes, C from B after g.  *)
(***************************************************************************)
Bytes(l, n) == [i \in 1..n |-> l]
ContentA(n) == Bytes("A", n)
ContentB(f, n) == Take(ContentA(f) \o Bytes("B", 4), n)
ContentC(f, g, n) == Take(ContentB(f, g) \o Bytes("C", 4), n)
Info(role, replid, replid2, second, offset, master) ==
    [role |-> role, replid |-> replid, replid2 |-> replid2, second |-> second, offset |-> offset, master |-> master]
MasterInfo(id, f, g, n) ==
    CASE id = "A" -> Info("master", "A", "", None, n, None)
      [] id = "B" -> Info("master", "B", "A", f + 1, n, None)
      [] id = "C" -> Info("master", "C", "B", g + 1, n, None)
Content(id, f, g, n) == CASE id = "A" -> ContentA(n) [] id = "B" -> ContentB(f, n) [] id = "C" -> ContentC(f, g, n)
Replica(master) == Info("slave", "A", "", None, 1, master)
\* r1 is the node the task reads from.
Chains(m) ==
    {[found |-> TRUE, address |-> "m", infos |-> "m" :> m],
     [found |-> TRUE, address |-> "r1", infos |-> ("m" :> m) @@ ("r1" :> Replica("m"))],
     [found |-> TRUE, address |-> "r1", infos |-> ("m" :> m) @@ ("r1" :> Replica("r2")) @@ ("r2" :> Replica("m"))],
     [found |-> FALSE, address |-> "r1", infos |-> ("m" :> m) @@ ("r1" :> Replica("r2")) @@ ("r2" :> Replica("r1"))],
     [found |-> FALSE, address |-> "r1", infos |-> ("m" :> m) @@ ("r1" :> Replica(None))],
     [found |-> FALSE, address |-> "r1", infos |-> ("m" :> m) @@ ("r1" :> Info("sentinel", "", "", None, None, None))],
     [found |-> FALSE, address |-> "r1", infos |-> ("m" :> m) @@ ("r1" :> Replica("r2")) @@ ("r2" :> Info("down", "", "", None, None, None))],
     [found |-> FALSE, address |-> "m", infos |-> "m" :> [m EXCEPT !.replid = ""]]}
MCLags ==
    {[infos |-> c.infos, address |-> c.address, found |-> c.found,
      consumed |-> [known |-> known, offset |-> p, replID |-> id],
      mine |-> Content(IF id = "" THEN "A" ELSE id, w.f, w.g, p), theirs |-> Content(w.id, w.f, w.g, w.n)] :
        <<w, c>> \in UNION {{<<w, c>> : c \in Chains(MasterInfo(w.id, w.f, w.g, w.n))} :
                            w \in {x \in [id : {"A", "B", "C"}, f : 0..2, g : 0..3, n : 0..3] :
                                     x.g >= x.f /\ x.n >= (CASE x.id = "A" -> 0 [] x.id = "B" -> x.f [] x.id = "C" -> x.g)}},
        known \in BOOLEAN, p \in 0..3, id \in {"", "A", "B"}}

(***************************************************************************)
(* Connections: rows as they are saved, and older ones without mode.       *)
(***************************************************************************)
Pair(mode, username, password) == [mode |-> mode, username |-> username, password |-> password]
Rows == {Pair("none", "", ""), Pair("password", "", "p"), Pair("username", "u", ""), Pair("username_password", "u", "p"),
         Pair("", "", ""), Pair("", "", "p"), Pair("", "u", ""), Pair("", "u", "p")}
Typed == {Pair(m, u, p) : m \in {"", "none", "password", "username", "username_password", "token"}, u \in {"", "u", " "}, p \in {"", "q"}}
Kinds == {"standalone", "sentinel"}
MCForms ==
    {[form |-> [kind |-> k, redis |-> r, sentinel |-> s], old |-> [kind |-> l, redis |-> o, sentinel |-> p]] :
        k, l \in Kinds, r \in Typed, s \in {Pair("", "", ""), Pair("none", "", ""), Pair("password", "", ""), Pair("username", "u", "q")},
        o \in Rows, p \in {Pair("none", "", ""), Pair("", "u", "p"), Pair("password", "", "p")}}
=============================================================================
