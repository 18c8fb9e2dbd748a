---------------------------- MODULE CommandKeys ----------------------------
(***************************************************************************)
(* Which arguments of a command are keys (internal/commands/keys.go), what *)
(* of a key is hashed, and which node of a cluster gets the command        *)
(* (internal/utils/cluster_nodes.go,                                       *)
(* internal/writer/redis_cluster_writer.go).  A position is an index of    *)
(* argv, from 0 as in the code; "panic" stands for log.Panicf and for an   *)
(* index out of range.                                                     *)
(***************************************************************************)
EXTENDS Integers, Sequences, SequencesExt, FiniteSets, CommandTable

CONSTANTS
    Uppercase,  \* strings.ToUpper of the words it changes
    Number,     \* strconv.Atoi of the words that are numbers
    Crc16,      \* the slot of what is hashed (utils.Crc16 & 0x3FFF)
    NumSlots    \* KeySlots (16384)

ASSUME SlotsAssumption == NumSlots \in Nat \ {0}

ToUpper(word) == IF word \in DOMAIN Uppercase THEN Uppercase[word] ELSE word

CmdName(argv) ==
    LET name == ToUpper(argv[1])
    IN IF name \in containers /\ Len(argv) > 1 THEN name \o "-" \o ToUpper(argv[2]) ELSE name

Panic == <<-1>>  \* no position of an argument

(***************************************************************************)
(* Where the search of a specification begins; -1 when its keyword is not  *)
(* there.                                                                  *)
(***************************************************************************)
KeywordsFrom(spec, argv) ==
    {i \in 0..(Len(argv) - 1) : /\ ToUpper(argv[i + 1]) = spec.keyword
                                /\ IF spec.from > 0 THEN i >= spec.from ELSE i <= - spec.from}

Begin(spec, argv) ==
    IF spec.search = "index" THEN spec.begin
    ELSE LET found == KeywordsFrom(spec, argv)
         IN IF found = {} THEN -1
            ELSE 1 + CHOOSE i \in found : \A j \in found : IF spec.from > 0 THEN i <= j ELSE i >= j

\* The positions first, first + step, ... (n of them).
Steps(first, step, n) == [i \in 1..n |-> first + (i - 1) * step]

InArgv(positions, argv) == IF \A i \in DOMAIN positions : positions[i] \in 0..(Len(argv) - 1)
                           THEN positions ELSE Panic

RangeKeys(spec, argv, begin) ==
    LET last == IF spec.last >= 0 THEN begin + spec.last ELSE Len(argv) + spec.last
        fit == IF last < begin THEN 0 ELSE 1 + (last - begin) \div spec.step
        limit == IF spec.limit <= -2 THEN (Len(argv) - begin) \div (- spec.limit) ELSE fit
    IN InArgv(Steps(begin, spec.step, IF limit < fit THEN limit ELSE fit), argv)

CountedKeys(spec, argv, begin) ==
    LET at == begin + spec.keynum
    IN IF at >= Len(argv) \/ argv[at + 1] \notin DOMAIN Number THEN Panic
       ELSE InArgv(Steps(begin + spec.first, spec.step, Number[argv[at + 1]]), argv)

\* Fault: an optional keyword that is not there leaves begin at 0.
SpecKeysFromStart(spec, argv) ==
    LET b == Begin(spec, argv)
        begin == IF b = -1 THEN 0 ELSE b
    IN IF spec.find = "range" THEN RangeKeys(spec, argv, begin) ELSE CountedKeys(spec, argv, begin)

SpecKeys(spec, argv) ==
    LET begin == Begin(spec, argv)
    IN IF begin = -1 THEN <<>>
       ELSE IF spec.find = "range" THEN RangeKeys(spec, argv, begin) ELSE CountedKeys(spec, argv, begin)

\* An unknown command has no keys.
CalcKeys(argv) ==
    IF CmdName(argv) \notin DOMAIN redisCommands THEN <<>>
    ELSE FoldLeft(LAMBDA found, spec : IF Panic \in {found, SpecKeys(spec, argv)} THEN Panic
                                       ELSE found \o SpecKeys(spec, argv),
                  <<>>, redisCommands[CmdName(argv)].keySpec)

(***************************************************************************)
(* keyHash: the part of the key that is hashed.                            *)
(***************************************************************************)
Char(key, i) == SubSeq(key, i, i)

\* The pairs of a '{' and the first '}' behind it.
Braces(key) == {p \in (1..Len(key)) \X (1..Len(key)) :
                   /\ Char(key, p[1]) = "{" /\ Char(key, p[2]) = "}" /\ p[1] < p[2]
                   /\ \A k \in (p[1] + 1)..(p[2] - 1) : Char(key, k) # "}"}

\* Fault: the last '{' counts.
HashTagOfLast(key) ==
    LET p == CHOOSE p \in Braces(key) : \A q \in Braces(key) : p[1] >= q[1]
    IN IF Braces(key) = {} THEN "" ELSE SubSeq(key, p[1] + 1, p[2] - 1)

HashTag(key) ==
    LET p == CHOOSE p \in Braces(key) : \A q \in Braces(key) : p[1] <= q[1]
    IN IF Braces(key) = {} THEN "" ELSE SubSeq(key, p[1] + 1, p[2] - 1)

HashedPart(key) == IF HashTag(key) # "" THEN HashTag(key) ELSE key

CalcSlots(keys) == [i \in DOMAIN keys |-> Crc16[HashedPart(keys[i])]]

(***************************************************************************)
(* GetRedisClusterNodes.  A line of CLUSTER NODES is a record [id, flags,  *)
(* master, address, slots]; an element of slots is a range <<from, to>> or *)
(* <<"migrating">>, which ends the list.                                   *)
(***************************************************************************)
IsMaster(line) == "master" \in line.flags

SlotsOf(line) ==
    LET ranges == {i \in DOMAIN line.slots : \A j \in 1..i : Len(line.slots[j]) = 2}
    IN UNION {line.slots[i][1]..line.slots[i][2] : i \in ranges}

Serving(lines) == SelectSeq(lines, LAMBDA l : IsMaster(l) /\ l.slots # <<>>)
Replicas(lines, id) ==
    SelectSeq(lines, LAMBDA l : ~ IsMaster(l) /\ l.flags \cap {"fail", "fail?", "noaddr"} = {} /\ l.master = id)

SlotsCount(masters) == FoldLeft(LAMBDA n, l : n + Cardinality(SlotsOf(l)), 0, masters)

\* <<>> when it panics.
GetRedisClusterNodes(lines, preferReplica) ==
    IF SlotsCount(Serving(lines)) # NumSlots THEN <<>>
    ELSE [i \in DOMAIN Serving(lines) |->
            LET m == Serving(lines)[i]
                replicas == Replicas(lines, m.id)
            IN [address |-> IF preferReplica /\ replicas # <<>> THEN replicas[1].address ELSE m.address,
                slots |-> SlotsOf(m)]]

\* loadClusterNodes refuses a slot without a writer, or with two.
Covered(nodes) == \A s \in 0..(NumSlots - 1) : Cardinality({i \in DOMAIN nodes : s \in nodes[i].slots}) = 1
Router(nodes) ==
    [s \in 0..(NumSlots - 1) |-> nodes[CHOOSE i \in DOMAIN nodes : s \in nodes[i].slots].address]

\* Where a command goes: without keys to every node; keys of two slots end the task.
Written(lines, slots) ==
    LET nodes == GetRedisClusterNodes(lines, FALSE)
    IN IF ~ Covered(nodes) \/ \E i \in DOMAIN slots : slots[i] # slots[1] THEN {"panic"}
       ELSE IF slots = <<>> THEN {nodes[i].address : i \in DOMAIN nodes}
       ELSE {Router(nodes)[slots[1]]}
=============================================================================
