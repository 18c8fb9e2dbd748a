------------------------- MODULE SyncPipelineProofs -------------------------
(***************************************************************************)
(* Proofs about SyncPipeline, for any source nodes, shards, commands,      *)
(* snapshots, channel capacity, window and number of commands and PINGs.   *)
(***************************************************************************)
EXTENDS SyncPipeline, SequenceTheorems, FiniteSetTheorems, TLAPS

\* What is proved of the tracker, for the tracker inside the pipeline.
TP == INSTANCE OffsetTrackerProofs

\* The types, but for the counters: that they are never negative takes their account.
Types ==
    /\ rpc \in [Nodes -> {"rdb", "fence", "aof", "send", "meta", "closed"}]
    /\ source \in [Nodes -> Seq(Item)] /\ chan \in [Nodes -> Seq(Item)]
    /\ cpc \in [Nodes -> {"next", "track", "route", "write", "done"}]
    /\ held \in [Nodes -> Item \cup {NoItem}] /\ at \in [Nodes -> Nat \X Nat]
    /\ owed \in [Nodes -> Seq(Seq(Int))]
    /\ sent \in [Shards -> Seq(Copy)] /\ ran \in [Shards -> Nat] /\ answered \in [Shards -> Nat]
    /\ mpc \in {"loop", "ping", "close", "stopflush", "exited"} /\ pings \in 0..MaxPings /\ mat \in Nat
    /\ fpc \in {"idle", "flush", "last", "returned"} /\ unread \subseteq Nodes
    /\ batch \in Row /\ saved \in Row /\ table \in Row
    /\ flushOk \in BOOLEAN /\ alive \in BOOLEAN

Positions(n) == 1..Len(source[n])
Parts(n) == held[n].cmd.parts

(***************************************************************************)
(* The inductive invariant.  First the way of an item: the reader takes it *)
(* from the node, the channel carries it, the consumer holds it; it is the *)
(* next one at each place.                                                 *)
(***************************************************************************)
SourceGrows ==
    \A n \in Nodes : \A i, j \in Positions(n) : i < j => source[n][i].off < source[n][j].off

\* Behind the snapshot there is a progress entry, and then no gap.
SourceIsDense ==
    \A n \in Nodes : \A i \in Positions(n) :
        /\ source[n][i].off = 0 => source[n][i].cmd = Progress
        /\ source[n][i].off >= 0 => \E j \in Positions(n) : source[n][j].off = 0
        /\ source[n][i].off > 0 => \E j \in Positions(n) : source[n][j].off = source[n][i].off - 1
        /\ ~ cancelled => source[n][i].off = None + i

LastPut(n) == IF chan[n] = <<>> THEN held[n].off ELSE chan[n][Len(chan[n])].off

ReaderAt(n) ==
    /\ rpc[n] \in {"rdb", "fence"} => LastPut(n) = LastOff(n) /\ LastOff(n) < 0
    /\ rpc[n] = "fence" => LastOff(n) = -1 \/ cancelled
    /\ rpc[n] \in {"send", "meta"} => LastPut(n) = LastOff(n) - 1 /\ LastOff(n) > 0
    /\ rpc[n] \in {"aof", "closed"} =>
          \/ cancelled /\ LastPut(n) <= LastOff(n)
          \/ LastPut(n) = LastOff(n) /\ LastOff(n) >= 0
ReaderIsNext == \A n \in Nodes : ReaderAt(n)

\* b comes behind a, and no item of the node is between them.
Follows(n, a, b) ==
    a < b /\ \A i \in Positions(n) : source[n][i].off <= a \/ b <= source[n][i].off
Before(n, i) == IF i = 1 THEN held[n].off ELSE chan[n][i - 1].off

ChannelAt(n) ==
    \A i \in 1..Len(chan[n]) :
        /\ Follows(n, Before(n, i), chan[n][i].off)
        /\ \E j \in Positions(n) : chan[n][i] = source[n][j]
ChannelIsNext == \A n \in Nodes : ChannelAt(n)

HeldAt(n) ==
    /\ held[n] = NoItem \/ \E j \in Positions(n) : held[n] = source[n][j]
    /\ cpc[n] \in {"track", "route", "write"} => held[n] # NoItem
    /\ cpc[n] = "track" => held[n].off >= 0
    /\ caller[n] = "refused" => cpc[n] \in {"next", "done"}
HeldIsRead == \A n \in Nodes : HeldAt(n)

\* The tracker has the items 0, 1, ... up to the one the consumer holds.
TrackedAt(n) ==
    /\ \A r \in 1..Len(tracked[n]) : tracked[n][r] = r - 1
    /\ caller[n] = "refused" => Len(tracked[n]) <= held[n].off
    /\ caller[n] # "refused" => Len(tracked[n]) = IF held[n].off < 0 THEN 0
                                                  ELSE IF cpc[n] = "track" THEN held[n].off
                                                  ELSE held[n].off + 1
TrackedInOrder == \A n \in Nodes : TrackedAt(n)

OrderInv ==
    /\ SourceGrows /\ SourceIsDense /\ ReaderIsNext /\ ChannelIsNext /\ HeldIsRead /\ TrackedInOrder

(***************************************************************************)
(* The copies of an item.                                                  *)
(***************************************************************************)
AnswersFollow == \A s \in Shards : answered[s] <= ran[s] /\ ran[s] <= Len(sent[s])

IsCopy(c, n, off, p) == c.node = n /\ c.off = off /\ c.part = p
HasCopy(s, n, off, p) == \E k \in 1..Len(sent[s]) : IsCopy(sent[s][k], n, off, p)
Sent(n, item) ==
    item.cmd.pass =>
        \A p \in 1..Len(item.cmd.parts) : \A j \in 1..Len(item.cmd.parts[p]) :
            HasCopy(item.cmd.parts[p][j], n, item.off, p)

WriteAt(n) ==
    cpc[n] = "write" =>
        /\ at[n][1] \in 1..Len(Parts(n)) /\ at[n][2] \in 1..Len(Parts(n)[at[n][1]])
        /\ held[n].cmd.pass
WritePosition == \A n \in Nodes : WriteAt(n)

\* The consumer is through with the item.
Handled(n, off) ==
    /\ off < held[n].off \/ (off = held[n].off /\ cpc[n] \in {"next", "done"})
    /\ off < Len(tracked[n])
HandledAt(n) == \A i \in Positions(n) : Handled(n, source[n][i].off) => Sent(n, source[n][i])
HandledIsSent == \A n \in Nodes : HandledAt(n)

WrittenAt(n) ==
    cpc[n] = "write" =>
        \A p \in 1..Len(Parts(n)) : \A j \in 1..Len(Parts(n)[p]) :
            (p < at[n][1] \/ (p = at[n][1] /\ j < at[n][2])) =>
                HasCopy(Parts(n)[p][j], n, held[n].off, p)
WrittenIsSent == \A n \in Nodes : WrittenAt(n)

\* A copy knows the record and the part whose counter its callback decrements.
CopiesAreRecords ==
    \A s \in Shards : \A k \in 1..Len(sent[s]) :
        LET c == sent[s][k]
        IN  /\ c.record = IF c.off < 0 THEN 0 ELSE c.off + 1
            /\ c.record # 0 => /\ c.node \in Nodes
                               /\ c.record \in 1..Len(tracked[c.node])
                               /\ c.part \in DOMAIN owed[c.node][c.record]

\* On every shard the snapshot of a node is in front of its commands.
SnapshotIsFirst ==
    \A s \in Shards : \A k \in 1..Len(sent[s]) : sent[s][k].record # 0 =>
        \A i \in Positions(sent[s][k].node) :
            LET n == sent[s][k].node
                item == source[n][i]
            IN  item.off < 0 /\ item.cmd.pass =>
                    \A p \in 1..Len(item.cmd.parts) : \A j \in 1..Len(item.cmd.parts[p]) :
                        item.cmd.parts[p][j] = s => \E l \in 1..k : IsCopy(sent[s][l], n, item.off, p)

CopyInv ==
    /\ AnswersFollow /\ WritePosition /\ HandledIsSent /\ WrittenIsSent
    /\ CopiesAreRecords /\ SnapshotIsFirst

(***************************************************************************)
(* The counters of SplitCompletion: what is owed for a part is the number  *)
(* of its copies that are sent and not answered, or not yet sent.          *)
(***************************************************************************)
OutstandingOf(copies, replies, n, r, p) ==
    {x \in Shards \X Nat : /\ x[2] \in (replies[x[1]] + 1)..Len(copies[x[1]])
                           /\ copies[x[1]][x[2]].node = n
                           /\ copies[x[1]][x[2]].record = r
                           /\ copies[x[1]][x[2]].part = p}
Outstanding(n, r, p) == OutstandingOf(sent, answered, n, r, p)
Unsent(n, r, p) ==
    IF cpc[n] = "write" /\ held[n].off = r - 1
    THEN IF p < at[n][1] THEN 0
         ELSE IF p = at[n][1] THEN Len(Parts(n)[p]) - at[n][2] + 1
         ELSE Len(Parts(n)[p])
    ELSE 0

Counted(n, r, p) ==
    /\ IsFiniteSet(Outstanding(n, r, p))
    /\ owed[n][r][p] = Cardinality(Outstanding(n, r, p)) + Unsent(n, r, p)
OwedIsOutstanding ==
    \A n \in Nodes :
        /\ Len(owed[n]) = Len(tracked[n])
        /\ \A r \in 1..Len(tracked[n]) : \A p \in DOMAIN owed[n][r] : Counted(n, r, p)

OwedHasParts ==
    \A n \in Nodes : held[n].off >= 0 =>
        /\ cpc[n] = "route" => owed[n][held[n].off + 1] = <<>>
        /\ cpc[n] = "write" => Len(owed[n][held[n].off + 1]) = Len(Parts(n))

UnfinishedIsOwed ==
    \A n \in Nodes : \A r \in 1..Len(tracked[n]) : r \notin finished[n] =>
        \/ cpc[n] = "route" /\ held[n].off = r - 1
        \/ \E p \in DOMAIN owed[n][r] : owed[n][r][p] # 0

FinishedIsApplied ==
    \A n \in Nodes : \A r \in finished[n] : \A i \in Positions(n) :
        source[n][i].off = r - 1 => Applied(n, source[n][i])

OwedInv == OwedIsOutstanding /\ OwedHasParts /\ UnfinishedIsOwed /\ FinishedIsApplied

(***************************************************************************)
(* The end of the process, and the recorder.                               *)
(***************************************************************************)
Shown(n) == IF known[n] THEN offset[n] ELSE None

EndInv ==
    /\ mpc \in {"close", "stopflush", "exited"} => \A n \in Nodes : cpc[n] = "done"
    /\ mpc \in {"stopflush", "exited"} => \A s \in Shards : answered[s] = Len(sent[s])

RowIsShown(row) == \A n \in Nodes : row[n] # None => known[n] /\ row[n] <= offset[n]

RecorderInv ==
    /\ saved = table /\ RowIsShown(table) /\ RowIsShown(batch)
    /\ fpc = "last" => mpc = "stopflush" /\ \A n \in Nodes \ unread : batch[n] = Shown(n)
    /\ fpc = "returned" <=> mpc = "exited"
    /\ mpc = "exited" /\ flushOk => \A n \in Nodes : table[n] = Shown(n)

Inv == TP!IndInv /\ Types /\ OrderInv /\ CopyInv /\ OwedInv /\ EndInv /\ RecorderInv
-----------------------------------------------------------------------------
(***************************************************************************)
(* Items, copies and the tracker inside the pipeline.                      *)
(***************************************************************************)
\* The window and the offsets are as the tracker assumes.
LEMMA TrackerAssumptions == TP!OffsetsAssumption /\ TP!LimitAssumption
BY BoundsAssumption DEF TP!OffsetsAssumption, TP!LimitAssumption, Offsets

\* A progress entry is a command whose one part goes to every shard.
LEMMA ProgressIsCommand == Progress \in Command
<1>1. Broadcast \in Seq(Shards) /\ Len(Broadcast) = NumShards
  BY BoundsAssumption, IsASeq, LenProperties DEF Broadcast, Shards
<1>2. Broadcast # <<>>
  BY <1>1, BoundsAssumption, EmptySeq
<1>3. <<Broadcast>> \in Seq(Seq(Shards) \ {<<>>})
  BY <1>1, <1>2
<1> QED BY <1>3 DEF Progress, Command

\* What an item consists of.
LEMMA ItemFacts ==
    ASSUME NEW item \in Item \cup {NoItem}
    PROVE  /\ item.off \in None..MaxCmds /\ item.off \in Int /\ item.cmd \in Command
           /\ item.cmd.pass \in BOOLEAN /\ item.cmd.parts \in Seq(Seq(Shards) \ {<<>>})
           /\ item = [off |-> item.off, cmd |-> item.cmd]
           /\ item # NoItem => item \in Item /\ item.off > None
<1>1. item \in Item => item.off \in (-RdbCount)..MaxCmds /\ item.cmd \in Command /\ item = [off |-> item.off, cmd |-> item.cmd]
  BY ProgressIsCommand, CommandsAssumption DEF Item
<1>2. NoItem.off = None /\ NoItem.cmd \in Command /\ NoItem = [off |-> NoItem.off, cmd |-> NoItem.cmd]
  BY ProgressIsCommand DEF NoItem
<1>3. item.off \in None..MaxCmds /\ item.cmd \in Command
  BY <1>1, <1>2, BoundsAssumption DEF None
<1>4. item # NoItem => item.off > None
  BY <1>1, BoundsAssumption DEF None
<1> QED BY <1>1, <1>2, <1>3, <1>4, BoundsAssumption DEF None, Command

\* The types of the tracker's variables.
LEMMA TrackerTypes ==
    TP!IndInv => /\ tracked \in [Nodes -> Seq(Offsets)] /\ finished \in [Nodes -> SUBSET Nat]
                 /\ caller \in [Nodes -> {"idle", "reserved", "refused"}] /\ cancelled \in BOOLEAN
                 /\ offset \in [Nodes -> Offsets] /\ known \in [Nodes -> BOOLEAN]
BY BoundsAssumption DEF TP!IndInv, TP!TypeOK, Offsets

\* What a callback of the tracker does to the variables the pipeline looks at.
LEMMA CompleteFacts ==
    ASSUME NEW n, NEW r, T!Complete(n, r)
    PROVE  /\ r \in (1..Len(tracked[n])) \ finished[n]
           /\ finished' = [finished EXCEPT ![n] = @ \cup {r}]
           /\ UNCHANGED <<caller, cancelled, tracked>>
BY DEF T!Complete

\* The types of what an action may add.
LEMMA AddedTypes ==
    ASSUME Types, NEW n \in Nodes
    PROVE  /\ LastOff(n) \in None..MaxCmds
           /\ source[n] # <<>> => source[n][Len(source[n])] \in Item
<1>1. source[n] \in Seq(Item)
  BY DEF Types
<1>2. source[n] # <<>> => source[n][Len(source[n])] \in Item
  BY <1>1, EmptySeq, ElementOfSeq, LenProperties
<1>3. LastOff(n) \in None..MaxCmds
  BY <1>2, ItemFacts, BoundsAssumption DEF LastOff, None
<1> QED BY <1>2, <1>3

\* A reader keeps the types.
LEMMA ReaderTypes ==
    ASSUME Types, ReaderIsNext, NEW n \in Nodes, Reader(n)
    PROVE  Types'
<1> USE DEF trackerVars, readerVars, consumerVars, targetVars, mainVars, recorderVars
<1>1. ASSUME NEW item \in Item, Taken(n, item) PROVE source' \in [Nodes -> Seq(Item)]
  BY <1>1, AppendProperties DEF Types, Taken
<1>2. ASSUME NEW item \in Item, Put(n, item) PROVE chan' \in [Nodes -> Seq(Item)]
  BY <1>2, AppendProperties DEF Types, Put
<1>0. LastOff(n) \in None..MaxCmds /\ (source[n] # <<>> => source[n][Len(source[n])] \in Item)
  BY AddedTypes
<1>3. ASSUME NEW c \in SnapshotCommands, SendSnapshot(n, c) PROVE Types'
  <2>1. [off |-> LastOff(n) + 1, cmd |-> c] \in Item
    BY <1>0, <1>3, BoundsAssumption DEF SendSnapshot, None, Item
  <2> QED BY <1>1, <1>2, <1>3, <2>1 DEF Types, SendSnapshot
<1>4. ASSUME SendFence(n) PROVE Types'
  <2>1. [off |-> 0, cmd |-> Progress] \in Item
    BY BoundsAssumption DEF Item
  <2> QED BY <1>1, <1>2, <1>4, <2>1 DEF Types, SendFence
<1>5. ASSUME NEW c \in Commands \cup {Progress}, ReadCommand(n, c) PROVE Types'
  <2>1. [off |-> LastOff(n) + 1, cmd |-> c] \in Item
    BY <1>0, <1>5, BoundsAssumption DEF ReadCommand, None, Item
  <2> QED BY <1>1, <1>5, <2>1 DEF Types, ReadCommand
<1>6. ASSUME SendCommand(n) PROVE Types'
  <2>1. source[n] # <<>>
    BY <1>6, BoundsAssumption DEF SendCommand, ReaderIsNext, ReaderAt, LastOff, None
  <2>2. source[n][Len(source[n])] \in Item
    BY <1>0, <2>1
  <2> QED BY <1>2, <1>6, <2>2 DEF Types, SendCommand
<1>7. ASSUME EndSnapshot(n) \/ SkipFence(n) \/ SkipProgress(n) \/ StopReading(n) PROVE Types'
  BY <1>7 DEF Types, EndSnapshot, SkipFence, SkipProgress, StopReading
<1> QED BY <1>3, <1>4, <1>5, <1>6, <1>7 DEF Reader

\* A consumer keeps the types.
LEMMA ConsumerTypes ==
    ASSUME TP!IndInv, Types, WritePosition, HeldIsRead, TrackedInOrder, OwedIsOutstanding,
           NEW n \in Nodes, Consumer(n)
    PROVE  Types'
<1> USE DEF trackerVars, readerVars, consumerVars, targetVars, mainVars, recorderVars
<1>0. Len(tracked[n]) \in Nat /\ tracked[n] \in Seq(Offsets)
  BY TrackerTypes, LenProperties
<1>1. ASSUME Receive(n) PROVE Types'
  <2>1. chan[n] # <<>> /\ chan[n] \in Seq(Item)
    BY <1>1 DEF Receive, Types
  <2>2. Head(chan[n]) \in Item /\ Tail(chan[n]) \in Seq(Item)
    BY <2>1, HeadTailProperties
  <2> QED BY <1>1, <2>2 DEF Types, Receive
<1>2. ASSUME TakeSlot(n) \/ TrackRefused(n) \/ FilterOut(n) PROVE Types'
  BY <1>2 DEF Types, TakeSlot, TrackRefused, FilterOut
<1>3. ASSUME Track(n) PROVE Types'
  <2>1. <<>> \in Seq(Int) /\ Append(owed[n], <<>>) \in Seq(Seq(Int))
    BY AppendProperties DEF Types
  <2> QED BY <1>3, <2>1 DEF Types, Track
<1>4. ASSUME Route(n) PROVE Types'
  <2> DEFINE parts == held[n].cmd.parts
             count == [p \in 1..Len(parts) |-> Len(parts[p])]
  <2>1. parts \in Seq(Seq(Shards) \ {<<>>})
    BY ItemFacts DEF Types
  <2>2. count \in Seq(Int)
    BY <2>1, IsASeq, LenProperties, ElementOfSeq
  <2>3. owed[n] \in Seq(Seq(Int)) /\ (held[n].off >= 0 => Len(tracked[n]) \in 1..Len(owed[n]))
    <3>1. cpc[n] = "route" /\ held[n].off \in Int
      BY <1>4, ItemFacts DEF Types, Route
    <3>2. Len(owed[n]) = Len(tracked[n]) /\ caller[n] # "refused"
      BY <3>1 DEF HeldIsRead, HeldAt, OwedIsOutstanding
    <3>3. held[n].off >= 0 => Len(tracked[n]) = held[n].off + 1
      BY <3>1, <3>2 DEF TrackedInOrder, TrackedAt
    <3> QED BY <1>0, <3>1, <3>2, <3>3 DEF Types
  <2>4. held[n].off >= 0 => [owed[n] EXCEPT ![Len(tracked[n])] = count] \in Seq(Seq(Int))
    BY <2>2, <2>3, ExceptSeq
  <2> HIDE DEF count
  <2>5. owed' \in [Nodes -> Seq(Seq(Int))]
    <3>1. \/ owed' = owed
          \/ held[n].off >= 0 /\ owed' = [owed EXCEPT ![n] = [@ EXCEPT ![Len(tracked[n])] = count]]
      <4>1. held[n].off \in Int
        BY ItemFacts DEF Types
      <4> QED BY <1>4, <4>1 DEF Route, count
    <3> QED BY <2>4, <3>1 DEF Types
  <2> QED BY <1>4, <2>5 DEF Types, Route
<1>5. ASSUME WriteCopy(n) PROVE Types'
  <2> DEFINE parts == held[n].cmd.parts
             p == at[n][1]
             j == at[n][2]
             copy == [node |-> n, off |-> held[n].off, part |-> p,
                      record |-> IF held[n].off < 0 THEN 0 ELSE Len(tracked[n])]
  <2>1. p \in Nat /\ j \in Nat /\ held[n].off \in None..MaxCmds /\ held[n].off \in Int
    BY ItemFacts DEF Types
  <2>2. copy \in Copy
    BY <1>0, <2>1 DEF Copy
  <2> HIDE DEF copy
  <2>3. sent' \in [Shards -> Seq(Copy)]
    <3>1. PICK t : sent' = [sent EXCEPT ![t] = Append(@, copy)]
      BY <1>5 DEF WriteCopy, copy
    <3>2. sent \in [Shards -> Seq(Copy)]
      BY DEF Types
    <3>3. \A q \in Seq(Copy) : Append(q, copy) \in Seq(Copy)
      BY <2>2, AppendProperties
    <3> QED BY <3>1, <3>2, <3>3
  <2>4. at' \in [Nodes -> Nat \X Nat]
    <3>1. /\ at' = [at EXCEPT ![n] = IF j < Len(parts[p]) THEN <<p, j + 1>> ELSE <<p + 1, 1>>]
      BY <1>5 DEF WriteCopy
    <3>2. at \in [Nodes -> Nat \X Nat]
      BY DEF Types
    <3> HIDE DEF p, j, parts
    <3> QED BY <2>1, <3>1, <3>2
  <2> QED BY <1>5, <2>3, <2>4 DEF WriteCopy, Types
<1> QED BY <1>1, <1>2, <1>3, <1>4, <1>5 DEF Consumer

\* Counters with one of them decremented.
Decremented(o2, o, a, b, p) ==
    /\ o2 \in [Nodes -> Seq(Seq(Int))]
    /\ \A m \in Nodes \ {a} : o2[m] = o[m]
    /\ Len(o2[a]) = Len(o[a]) /\ \A r \in 1..Len(o[a]) : r # b => o2[a][r] = o[a][r]
    /\ Len(o2[a][b]) = Len(o[a][b])
    /\ \A q \in 1..Len(o[a][b]) : o2[a][b][q] = IF q = p THEN o[a][b][q] - 1 ELSE o[a][b][q]

\* What SplitCompletion's counters are after a callback.
LEMMA Decrement ==
    ASSUME NEW o \in [Nodes -> Seq(Seq(Int))], NEW a \in Nodes, NEW b \in 1..Len(o[a]),
           NEW p \in 1..Len(o[a][b])
    PROVE  Decremented([o EXCEPT ![a][b][p] = @ - 1], o, a, b, p)
<1> DEFINE one == [o[a][b] EXCEPT ![p] = o[a][b][p] - 1]
           two == [o[a] EXCEPT ![b] = one]
           o2 == [o EXCEPT ![a][b][p] = @ - 1]
<1>1. o[a] \in Seq(Seq(Int)) /\ o[a][b] \in Seq(Int) /\ o[a][b][p] - 1 \in Int
  <2>1. o[a] \in Seq(Seq(Int))
    OBVIOUS
  <2>2. o[a][b] \in Seq(Int)
    BY <2>1, ElementOfSeq
  <2>3. o[a][b][p] \in Int
    BY <2>2, ElementOfSeq
  <2> QED BY <2>1, <2>2, <2>3
<1>2. /\ one \in Seq(Int) /\ Len(one) = Len(o[a][b])
      /\ \A q \in 1..Len(o[a][b]) : one[q] = IF q = p THEN o[a][b][p] - 1 ELSE o[a][b][q]
  <2> DEFINE e == o[a][b][p] - 1
             seq == o[a][b]
  <2>1. e \in Int /\ seq \in Seq(Int) /\ p \in 1..Len(seq)
    BY <1>1
  <2>2. one = [seq EXCEPT ![p] = e]
    OBVIOUS
  <2> HIDE DEF e, seq, one
  <2>3. /\ one \in Seq(Int) /\ Len(one) = Len(seq)
        /\ \A q \in 1..Len(seq) : one[q] = IF q = p THEN e ELSE seq[q]
    BY <2>1, <2>2, ExceptSeq
  <2> QED BY <2>3 DEF e, seq
<1>3. o2 = [o EXCEPT ![a] = two]
  OBVIOUS
<1> HIDE DEF one, o2
<1>4. /\ two \in Seq(Seq(Int)) /\ Len(two) = Len(o[a])
      /\ \A r \in 1..Len(o[a]) : two[r] = IF r = b THEN one ELSE o[a][r]
  <2>1. o[a] \in Seq(Seq(Int)) /\ b \in 1..Len(o[a]) /\ one \in Seq(Int)
    BY <1>1, <1>2
  <2>2. two = [o[a] EXCEPT ![b] = one]
    OBVIOUS
  <2> HIDE DEF two
  <2> QED BY <2>1, <2>2, ExceptSeq
<1> HIDE DEF two
<1>5. o2 \in [Nodes -> Seq(Seq(Int))] /\ o2[a] = two /\ \A m \in Nodes \ {a} : o2[m] = o[m]
  BY <1>3, <1>4
<1>6. Decremented(o2, o, a, b, p)
  BY <1>2, <1>4, <1>5 DEF Decremented
<1> QED BY <1>6 DEF o2

\* What an answer does to the counters: the copy's part of its record.
LEMMA CallbackFacts ==
    ASSUME Types, CopiesAreRecords, OwedIsOutstanding, AnswersFollow, NEW s \in Shards, Answer(s)
    PROVE  LET k == answered[s] + 1
               c == sent[s][k]
           IN  /\ k \in 1..Len(sent[s]) /\ k <= ran[s] /\ c \in Copy
               /\ \/ c.record = 0 /\ UNCHANGED <<owed, trackerVars>>
                  \/ /\ c.record # 0 /\ c.node \in Nodes /\ c.record \in 1..Len(owed[c.node])
                     /\ owed[c.node][c.record] \in Seq(Int) /\ c.part \in 1..Len(owed[c.node][c.record])
                     /\ Decremented(owed', owed, c.node, c.record, c.part)
                     /\ \/ /\ \A p \in DOMAIN owed[c.node][c.record] : owed'[c.node][c.record][p] = 0
                           /\ T!Complete(c.node, c.record)
                        \/ /\ \E p \in DOMAIN owed[c.node][c.record] : owed'[c.node][c.record][p] # 0
                           /\ UNCHANGED trackerVars
<1> DEFINE k == answered[s] + 1
           c == sent[s][k]
<1>1. k \in 1..Len(sent[s]) /\ k <= ran[s]
  BY DEF Types, Answer, AnswersFollow
<1>2. c \in Copy
  BY <1>1, ElementOfSeq DEF Types
<1>3. Callback(c)
  BY DEF Answer
<1>4. c.record # 0 => /\ c.node \in Nodes /\ c.record \in 1..Len(owed[c.node])
                      /\ c.part \in DOMAIN owed[c.node][c.record]
  BY <1>1 DEF CopiesAreRecords, OwedIsOutstanding
<1> HIDE DEF c, k
<1>5. c.record # 0 => /\ owed[c.node][c.record] \in Seq(Int)
                      /\ c.part \in 1..Len(owed[c.node][c.record])
  <2> HAVE c.record # 0
  <2>1. owed[c.node] \in Seq(Seq(Int))
    BY <1>4 DEF Types
  <2>2. owed[c.node][c.record] \in Seq(Int)
    BY <1>4, <2>1, ElementOfSeq
  <2> QED BY <1>4, <2>2, LenProperties
<1>6. \/ c.record = 0 /\ UNCHANGED <<owed, trackerVars>>
      \/ /\ c.record # 0
         /\ owed' = [owed EXCEPT ![c.node][c.record][c.part] = @ - 1]
         /\ \/ /\ \A p \in DOMAIN owed[c.node][c.record] : owed'[c.node][c.record][p] = 0
               /\ T!Complete(c.node, c.record)
            \/ /\ \E p \in DOMAIN owed[c.node][c.record] : owed'[c.node][c.record][p] # 0
               /\ UNCHANGED trackerVars
  BY <1>3, Zenon DEF Callback
<1>7. c.record # 0 => Decremented(owed', owed, c.node, c.record, c.part)
  <2> HAVE c.record # 0
  <2>1. owed \in [Nodes -> Seq(Seq(Int))]
    BY DEF Types
  <2>2. owed' = [owed EXCEPT ![c.node][c.record][c.part] = @ - 1]
    BY <1>6, Zenon
  <2>3. Decremented([owed EXCEPT ![c.node][c.record][c.part] = @ - 1], owed, c.node, c.record, c.part)
    BY <1>4, <1>5, <2>1, Decrement, Zenon
  <2> QED BY <2>2, <2>3, Zenon
<1> QED BY <1>1, <1>2, <1>4, <1>5, <1>6, <1>7 DEF c, k

\* The main goroutine, the recorder, the shards, a stop and the end keep the types.
LEMMA OtherTypes ==
    ASSUME TP!IndInv, Types, CopiesAreRecords, OwedIsOutstanding, AnswersFollow,
           \/ Main \/ Recorder \/ Cancel \/ Die
           \/ \E s \in Shards : Answer(s) \/ Execute(s)
    PROVE  Types'
<1> USE DEF trackerVars, readerVars, consumerVars, targetVars, mainVars, recorderVars
<1>1. ASSUME StartPing \/ CloseWriter \/ (\E n \in Nodes : ReaderDone(n)) PROVE Types'
  <2>1. pings' \in 0..MaxPings /\ mat' \in Nat
    <3>1. CASE StartPing
      BY <3>1, BoundsAssumption DEF StartPing, Types
    <3>2. CASE CloseWriter
      BY <3>2 DEF CloseWriter, Types
    <3>3. ASSUME NEW n \in Nodes, ReaderDone(n) PROVE pings' \in 0..MaxPings /\ mat' \in Nat
      BY <3>3 DEF ReaderDone, Types
    <3> QED BY <1>1, <3>1, <3>2, <3>3
  <2>2. cpc' \in [Nodes -> {"next", "track", "route", "write", "done"}]
    <3>1. cpc' = cpc \/ \E n \in Nodes : cpc' = [cpc EXCEPT ![n] = "done"]
      BY <1>1 DEF StartPing, CloseWriter, ReaderDone
    <3>2. cpc \in [Nodes -> {"next", "track", "route", "write", "done"}]
      BY DEF Types
    <3> QED BY <3>1, <3>2
  <2>3. mpc' \in {"loop", "ping", "close", "stopflush", "exited"}
    BY <1>1 DEF StartPing, CloseWriter, ReaderDone
  <2>4. /\ UNCHANGED <<readerVars, chan, held, at, owed, sent, ran, answered, recorderVars, alive>>
    BY <1>1 DEF StartPing, CloseWriter, ReaderDone
  <2> QED BY <2>1, <2>2, <2>3, <2>4 DEF Types
<1>2. ASSUME WritePing PROVE Types'
  <2> DEFINE copy == [node |-> "main", off |-> None, part |-> 1, record |-> 0]
  <2>1. copy \in Copy
    BY BoundsAssumption DEF Copy, None
  <2> HIDE DEF copy
  <2>2. sent' \in [Shards -> Seq(Copy)]
    <3>1. sent' = [sent EXCEPT ![mat] = Append(@, copy)]
      BY <1>2 DEF WritePing, copy
    <3>2. sent \in [Shards -> Seq(Copy)]
      BY DEF Types
    <3>3. \A q \in Seq(Copy) : Append(q, copy) \in Seq(Copy)
      BY <2>1, AppendProperties
    <3> QED BY <3>1, <3>2, <3>3
  <2>3. mat' = mat + 1 /\ mpc' \in {"loop", "ping"} /\ mat \in Nat
    BY <1>2 DEF WritePing, Types
  <2>4. mat' \in Nat
    BY <2>3
  <2>5. /\ UNCHANGED <<rpc, source, chan, cpc, held, at, owed, ran, answered, pings, alive>>
        /\ UNCHANGED <<fpc, unread, batch, saved, table, flushOk>>
    BY <1>2 DEF WritePing
  <2> QED BY <2>2, <2>3, <2>4, <2>5 DEF Types
<1>3. ASSUME Cancel \/ Die \/ StartFlush \/ StartLastFlush PROVE Types'
  BY <1>3 DEF Cancel, Die, StartFlush, StartLastFlush, Types
<1>4. ASSUME NEW n \in Nodes, Sample(n) PROVE Types'
  BY <1>4, TrackerTypes DEF Sample, Types, Row
<1>5. ASSUME Commit \/ CommitError PROVE Types'
  <2>1. Updated(table) \in Row /\ Updated(saved) \in Row /\ [n \in Nodes |-> None] \in Row
    BY DEF Updated, Row, Types
  <2> HIDE DEF Row
  <2> QED BY <1>5, <2>1 DEF Commit, CommitError, EndFlush, Types
<1>6. ASSUME NEW s \in Shards, Execute(s) PROVE Types'
  BY <1>6 DEF Execute, Types
<1>7. ASSUME NEW s \in Shards, Answer(s) PROVE Types'
  <2> DEFINE c == sent[s][answered[s] + 1]
  <2>1. owed' \in [Nodes -> Seq(Seq(Int))]
    <3>1. CASE c.record = 0
      BY <1>7, <3>1, CallbackFacts DEF Types
    <3>2. CASE c.record # 0
      BY <1>7, <3>2, CallbackFacts DEF Decremented
    <3> QED BY <3>1, <3>2
  <2> QED BY <1>7, <2>1 DEF Answer, Types
<1> QED BY <1>1, <1>2, <1>3, <1>4, <1>5, <1>6, <1>7 DEF Main, Recorder

\* The consumers, the callbacks and the stop signal use the tracker as OffsetTracker
\* allows; every other step leaves it alone.
LEMMA TrackerStep ==
    ASSUME TP!IndInv, Types, HeldIsRead, TrackedInOrder, CopiesAreRecords, OwedIsOutstanding,
           AnswersFollow, [Next]_vars
    PROVE  [T!Next]_(T!vars)
<1> USE DEF trackerVars, T!vars
<1>0. UNCHANGED vars \/ UNCHANGED trackerVars => UNCHANGED T!vars
  BY DEF vars
<1>1. ASSUME NEW n \in Nodes, Reader(n) PROVE UNCHANGED trackerVars
  BY <1>1 DEF Reader, SendSnapshot, EndSnapshot, SendFence, SkipFence, ReadCommand, SendCommand,
              SkipProgress, StopReading
<1>2. ASSUME NEW n \in Nodes, TakeSlot(n) \/ TrackRefused(n) PROVE T!Next
  BY <1>2 DEF TakeSlot, TrackRefused, T!Next
<1>3. ASSUME NEW n \in Nodes, Track(n) PROVE T!Next
  <2>1. cpc[n] = "track" /\ held[n].off >= 0 /\ T!Register(n, held[n].off)
    BY <1>3 DEF Track, HeldIsRead, HeldAt
  <2>2. held[n].off \in Offsets
    BY <2>1, ItemFacts, BoundsAssumption DEF Types, Offsets, None
  <2>3. caller[n] # "refused"
    BY <2>1 DEF HeldIsRead, HeldAt
  <2>4. Len(tracked[n]) = held[n].off
    BY <2>1, <2>2, <2>3, BoundsAssumption DEF TrackedInOrder, TrackedAt, Offsets
  <2>5. T!Grows(n, held[n].off)
    BY <2>2, <2>4, BoundsAssumption DEF T!Grows, TrackedInOrder, TrackedAt, Offsets
  <2> QED BY <2>1, <2>2, <2>5 DEF T!Next
<1>4. ASSUME NEW n \in Nodes, NEW r, T!Complete(n, r) PROVE T!Next
  <2>1. r \in 1..Len(tracked[n])
    BY <1>4, CompleteFacts
  <2> QED BY <1>4, <2>1 DEF T!Next
<1>5. ASSUME NEW n \in Nodes, FilterOut(n) \/ Route(n) PROVE [T!Next]_(T!vars)
  <2>1. T!Complete(n, Len(tracked[n])) \/ UNCHANGED trackerVars
    BY <1>5 DEF FilterOut, Route, Consumed
  <2> QED BY <1>4, <2>1
<1>6. ASSUME NEW n \in Nodes, Receive(n) \/ WriteCopy(n) PROVE UNCHANGED trackerVars
  BY <1>6 DEF Receive, WriteCopy
<1>7. ASSUME Main \/ Recorder \/ Die \/ \E s \in Shards : Execute(s) PROVE UNCHANGED trackerVars
  BY <1>7 DEF Main, Recorder, Die, Execute, StartPing, WritePing, CloseWriter, ReaderDone,
              StartFlush, StartLastFlush, Sample, Commit, CommitError, EndFlush
<1>8. ASSUME Cancel PROVE T!Next
  BY <1>8 DEF Cancel, T!Next
<1>9. ASSUME NEW s \in Shards, Answer(s) PROVE [T!Next]_(T!vars)
  <2> DEFINE c == sent[s][answered[s] + 1]
  <2>1. UNCHANGED trackerVars \/ (c.node \in Nodes /\ T!Complete(c.node, c.record))
    BY <1>9, CallbackFacts
  <2> HIDE DEF c
  <2> QED BY <1>4, <2>1
<1> HIDE DEF trackerVars, T!vars
<1> QED BY <1>0, <1>1, <1>2, <1>3, <1>5, <1>6, <1>7, <1>8, <1>9 DEF Next, Consumer

\* So what is proved of the tracker holds inside the pipeline.
LEMMA SameTracker == [T!Next]_(T!vars) => [TP!Next]_(TP!vars)
BY DEF T!Next, TP!Next, T!vars, TP!vars, T!Cancel, TP!Cancel, T!Reserve, TP!Reserve, T!Refuse, TP!Refuse,
       T!Grows, TP!Grows, T!Register, TP!Register, T!Complete, TP!Complete, T!Pop, TP!Pop,
       T!DonePrefix, TP!DonePrefix, T!Popped, TP!Popped

\* A step of the task keeps what is proved of the tracker.
LEMMA TrackerInvStep ==
    ASSUME TP!IndInv, [T!Next]_(T!vars)
    PROVE  /\ TP!IndInv'
           /\ \A n \in Nodes : known[n] => known'[n] /\ offset[n] <= offset'[n]
<1>1. [TP!Next]_(TP!vars)
  BY SameTracker
<1>2. TP!IndInv'
  BY <1>1, TP!NextIndInv, TrackerAssumptions
<1>3. ASSUME NEW n \in Nodes, known[n] PROVE known'[n] /\ offset[n] <= offset'[n]
  BY <1>1, <1>3, TP!NoRegressionStep, TrackerAssumptions
<1> QED BY <1>2, <1>3
-----------------------------------------------------------------------------
(***************************************************************************)
(* The order of items.                                                     *)
(***************************************************************************)
\* The last item a reader has taken is the highest.
LEMMA LastIsGreatest ==
    ASSUME Types, SourceGrows, NEW n \in Nodes
    PROVE  /\ LastOff(n) \in Int /\ LastOff(n) >= None /\ Len(source[n]) \in Nat
           /\ \A i \in Positions(n) :
                 source[n][i] \in Item /\ source[n][i].off \in Int /\ source[n][i].off <= LastOff(n)
           /\ LastOff(n) # None => \E i \in Positions(n) : source[n][i].off = LastOff(n)
           /\ source[n] # <<>> => Len(source[n]) \in Positions(n) /\ LastOff(n) = source[n][Len(source[n])].off
<1>1. source[n] \in Seq(Item) /\ Len(source[n]) \in Nat
  BY LenProperties DEF Types
<1>2. \A i \in Positions(n) : source[n][i] \in Item /\ source[n][i].off \in Int
  BY <1>1, ElementOfSeq, ItemFacts DEF Positions
<1>3. source[n] # <<>> => Len(source[n]) \in Positions(n)
  BY <1>1, EmptySeq DEF Positions
<1>4. source[n] = <<>> => Len(source[n]) = 0
  BY <1>1, EmptySeq
<1>5. \A i \in Positions(n) : i = Len(source[n]) \/ i < Len(source[n])
  BY <1>1 DEF Positions
<1>6. LastOff(n) \in Int /\ LastOff(n) >= None
  BY AddedTypes, BoundsAssumption DEF None
<1>7. \A i \in Positions(n) : source[n][i].off <= LastOff(n)
  BY <1>2, <1>3, <1>4, <1>5 DEF SourceGrows, LastOff, Positions
<1> QED BY <1>1, <1>2, <1>3, <1>6, <1>7 DEF LastOff

\* The reader takes one more item.
LEMMA TakenFacts ==
    ASSUME Types, NEW n \in Nodes, NEW item \in Item, Taken(n, item)
    PROVE  /\ Len(source'[n]) = Len(source[n]) + 1 /\ source'[n][Len(source[n]) + 1] = item
           /\ \A i \in Positions(n) : source'[n][i] = source[n][i]
           /\ \A m \in Nodes \ {n} : source'[m] = source[m]
           /\ Len(source[n]) \in Nat /\ LastOff(n)' = item.off
<1>1. source[n] \in Seq(Item) /\ source' = [source EXCEPT ![n] = Append(source[n], item)] /\ source \in [Nodes -> Seq(Item)]
  BY DEF Types, Taken
<1>2. source'[n] = Append(source[n], item) /\ \A m \in Nodes \ {n} : source'[m] = source[m]
  BY <1>1
<1>3. /\ Len(source'[n]) = Len(source[n]) + 1 /\ source'[n][Len(source[n]) + 1] = item
      /\ \A i \in Positions(n) : source'[n][i] = source[n][i]
  BY <1>1, <1>2, AppendProperties DEF Positions
<1>4. Len(source[n]) \in Nat
  BY <1>1, LenProperties
<1>5. source'[n] # <<>>
  BY <1>1, <1>2, AppendProperties
<1> QED BY <1>2, <1>3, <1>4, <1>5 DEF LastOff

\* Items are taken in order, and without gap behind the snapshot.
LEMMA TakeInOrder ==
    ASSUME Types, SourceGrows, SourceIsDense, NEW n \in Nodes, NEW item \in Item, Taken(n, item),
           item.off > LastOff(n), item.off = 0 => item.cmd = Progress,
           item.off > 0 => item.off = LastOff(n) + 1 /\ LastOff(n) >= 0,
           ~ cancelled => item.off = LastOff(n) + 1, cancelled' = cancelled
    PROVE  SourceGrows' /\ SourceIsDense'
<1>1. /\ LastOff(n) \in Int /\ LastOff(n) >= None /\ Len(source[n]) \in Nat
      /\ \A i \in Positions(n) : source[n][i].off \in Int /\ source[n][i].off <= LastOff(n)
      /\ LastOff(n) # None => \E i \in Positions(n) : source[n][i].off = LastOff(n)
      /\ source[n] # <<>> => Len(source[n]) \in Positions(n) /\ LastOff(n) = source[n][Len(source[n])].off
  BY LastIsGreatest
<1>2. /\ Len(source'[n]) = Len(source[n]) + 1 /\ source'[n][Len(source[n]) + 1] = item
      /\ \A i \in Positions(n) : source'[n][i] = source[n][i]
      /\ \A m \in Nodes \ {n} : source'[m] = source[m]
  BY TakenFacts
<1>3. item.off \in Int /\ None \in Int /\ None < 0
  BY ItemFacts, BoundsAssumption DEF None
<1>4. \A m \in Nodes \ {n} : Positions(m)' = Positions(m)
  BY <1>2 DEF Positions
<1>5. Positions(n)' = Positions(n) \cup {Len(source[n]) + 1} /\ Len(source[n]) + 1 \notin Positions(n)
  BY <1>1, <1>2 DEF Positions
<1>6. \A i \in Positions(n)' : i \in Positions(n) \/ (i = Len(source[n]) + 1 /\ source'[n][i] = item)
  BY <1>2, <1>5
<1>7. \A i \in Positions(n) : i \in Int /\ i < Len(source[n]) + 1
  BY <1>1 DEF Positions
<1>8. SourceGrows'
  <2>1. ASSUME NEW i \in Positions(n)', NEW j \in Positions(n)', i < j
        PROVE  source'[n][i].off < source'[n][j].off
    <3>1. i \in Positions(n)
      BY <1>1, <1>5, <1>7, <2>1
    <3>2. source'[n][i] = source[n][i] /\ source[n][i].off <= LastOff(n) /\ source[n][i].off \in Int
      BY <1>1, <1>2, <3>1
    <3>3. CASE j \in Positions(n)
      BY <1>2, <2>1, <3>1, <3>3 DEF SourceGrows
    <3>4. CASE j = Len(source[n]) + 1
      BY <1>1, <1>2, <1>3, <3>2, <3>4
    <3> QED BY <1>6, <3>3, <3>4
  <2> QED BY <1>2, <1>4, <2>1 DEF SourceGrows
<1>9. ~ cancelled => LastOff(n) = None + Len(source[n])
  <2>1. CASE source[n] = <<>>
    BY <1>3, <2>1, EmptySeq DEF LastOff
  <2>2. CASE source[n] # <<>>
    BY <1>1, <2>2 DEF SourceIsDense
  <2> QED BY <2>1, <2>2
<1>10. ASSUME NEW i \in Positions(n)'
       PROVE  /\ source'[n][i].off = 0 => source'[n][i].cmd = Progress
              /\ source'[n][i].off >= 0 => \E j \in Positions(n)' : source'[n][j].off = 0
              /\ source'[n][i].off > 0 => \E j \in Positions(n)' : source'[n][j].off = source'[n][i].off - 1
              /\ ~ cancelled' => source'[n][i].off = None + i
  <2>1. CASE i \in Positions(n)
    BY <1>2, <1>5, <2>1 DEF SourceIsDense
  <2>2. CASE i = Len(source[n]) + 1
    <3>1. source'[n][i] = item
      BY <1>2, <2>2
    <3>2. item.off > 0 => \E j \in Positions(n) : source[n][j].off = item.off - 1
      BY <1>1, <1>3
    <3>3. ~ cancelled => item.off = None + i
      BY <1>1, <1>3, <1>9, <2>2
    <3>4. item.off >= 0 => \E j \in Positions(n)' : source'[n][j].off = 0
      <4>1. CASE item.off = 0
        BY <1>5, <2>2, <3>1, <4>1
      <4>2. CASE item.off > 0
        <5>1. PICK l \in Positions(n) : source[n][l].off = LastOff(n)
          BY <1>1, <1>3, <4>2
        <5>2. \E j \in Positions(n) : source[n][j].off = 0
          BY <4>2, <5>1 DEF SourceIsDense
        <5> QED BY <1>2, <1>5, <5>2
      <4> QED BY <1>3, <4>1, <4>2
    <3> QED BY <1>2, <1>5, <3>1, <3>2, <3>3, <3>4
  <2> QED BY <1>6, <2>1, <2>2
<1>11. ASSUME NEW m \in Nodes \ {n}, NEW i \in Positions(m)'
       PROVE  /\ source'[m][i].off = 0 => source'[m][i].cmd = Progress
              /\ source'[m][i].off >= 0 => \E j \in Positions(m)' : source'[m][j].off = 0
              /\ source'[m][i].off > 0 => \E j \in Positions(m)' : source'[m][j].off = source'[m][i].off - 1
              /\ ~ cancelled' => source'[m][i].off = None + i
  BY <1>2, <1>4 DEF SourceIsDense
<1>12. SourceIsDense'
  BY <1>10, <1>11 DEF SourceIsDense
<1> QED BY <1>8, <1>12

\* The items the readers take.
LEMMA SourceStep ==
    ASSUME TP!IndInv, Types, SourceGrows, SourceIsDense, ReaderIsNext, [Next]_vars
    PROVE  SourceGrows' /\ SourceIsDense'
<1> USE DEF trackerVars, readerVars, consumerVars, targetVars, mainVars, recorderVars
<1>0. ASSUME UNCHANGED source, cancelled => cancelled' PROVE SourceGrows' /\ SourceIsDense'
  BY <1>0 DEF SourceGrows, SourceIsDense, Positions
<1>1. ASSUME NEW n \in Nodes, NEW cmd \in SnapshotCommands, SendSnapshot(n, cmd) PROVE SourceGrows' /\ SourceIsDense'
  <2> DEFINE item == [off |-> LastOff(n) + 1, cmd |-> cmd]
  <2>1. Taken(n, item) /\ LastOff(n) < -1 /\ cancelled' = cancelled
    BY <1>1 DEF SendSnapshot
  <2>2. LastOff(n) \in None..MaxCmds /\ LastOff(n) \in Int
    BY AddedTypes, BoundsAssumption DEF None
  <2>3. item \in Item /\ item.off = LastOff(n) + 1
    BY <2>1, <2>2, BoundsAssumption DEF Item, None
  <2> HIDE DEF item
  <2> QED BY <2>1, <2>2, <2>3, TakeInOrder
<1>2. ASSUME NEW n \in Nodes, SendFence(n) PROVE SourceGrows' /\ SourceIsDense'
  <2> DEFINE item == [off |-> 0, cmd |-> Progress]
  <2>1. Taken(n, item) /\ LastOff(n) < 0 /\ cancelled' = cancelled /\ (LastOff(n) = -1 \/ cancelled)
    BY <1>2 DEF SendFence, ReaderIsNext, ReaderAt
  <2>2. LastOff(n) \in Int
    BY AddedTypes, BoundsAssumption DEF None
  <2>3. item \in Item /\ item.off = 0 /\ item.cmd = Progress
    BY BoundsAssumption DEF Item
  <2> HIDE DEF item
  <2> QED BY <2>1, <2>2, <2>3, TakeInOrder
<1>3. ASSUME NEW n \in Nodes, NEW cmd \in Commands \cup {Progress}, ReadCommand(n, cmd) PROVE SourceGrows' /\ SourceIsDense'
  <2> DEFINE item == [off |-> LastOff(n) + 1, cmd |-> cmd]
  <2>1. Taken(n, item) /\ LastOff(n) >= 0 /\ cancelled' = cancelled /\ LastOff(n) < MaxCmds
    BY <1>3 DEF ReadCommand, ReaderIsNext, ReaderAt
  <2>2. LastOff(n) \in None..MaxCmds /\ LastOff(n) \in Int
    BY AddedTypes, BoundsAssumption DEF None
  <2>3. item \in Item /\ item.off = LastOff(n) + 1
    BY <2>1, <2>2, BoundsAssumption DEF Item, None
  <2> HIDE DEF item
  <2> QED BY <2>1, <2>2, <2>3, TakeInOrder
<1>4. ASSUME NEW n \in Nodes, \/ EndSnapshot(n) \/ SkipFence(n) \/ SendCommand(n) \/ SkipProgress(n) \/ StopReading(n)
      PROVE  UNCHANGED <<source, cancelled>>
  BY <1>4 DEF EndSnapshot, SkipFence, SendCommand, SkipProgress, StopReading
<1>5. ASSUME NEW n \in Nodes, Consumer(n) PROVE UNCHANGED <<source, cancelled>>
  <2>1. UNCHANGED source
    BY <1>5 DEF Consumer, Receive, TakeSlot, Track, TrackRefused, FilterOut, Route, WriteCopy
  <2>2. UNCHANGED cancelled
    BY <1>5, CompleteFacts
       DEF Consumer, Receive, TakeSlot, Track, TrackRefused, FilterOut, Route, WriteCopy, Consumed,
           T!Reserve, T!Register, T!Refuse
  <2> QED BY <2>1, <2>2
<1>6. ASSUME Main \/ Recorder \/ Die \/ \E s \in Shards : Execute(s) PROVE UNCHANGED <<source, cancelled>>
  BY <1>6 DEF Main, Recorder, Die, Execute, StartPing, WritePing, CloseWriter, ReaderDone,
              StartFlush, StartLastFlush, Sample, Commit, CommitError, EndFlush
<1>7. ASSUME Cancel PROVE UNCHANGED source /\ cancelled'
  BY <1>7 DEF Cancel, T!Cancel
<1>8. ASSUME NEW s \in Shards, Answer(s) PROVE UNCHANGED <<source, cancelled>>
  BY <1>8, CompleteFacts DEF Answer, Callback
<1> QED BY <1>0, <1>1, <1>2, <1>3, <1>4, <1>5, <1>6, <1>7, <1>8 DEF Next, Reader, vars

\* Steps of the main goroutine, the recorder and the shards leave readers, channels and
\* consumers alone, and of the tracker they change no more than what is finished.
LEMMA Elsewhere ==
    ASSUME \/ StartPing \/ WritePing \/ CloseWriter \/ Recorder \/ Die
           \/ \E s \in Shards : Execute(s) \/ Answer(s)
           \/ UNCHANGED vars
    PROVE  UNCHANGED <<rpc, source, chan, cpc, held, at, tracked, caller, cancelled>>
<1> USE DEF trackerVars, readerVars, consumerVars, targetVars, mainVars, recorderVars
<1>1. ASSUME NEW s \in Shards, Answer(s)
      PROVE  UNCHANGED <<rpc, source, chan, cpc, held, at, tracked, caller, cancelled>>
  BY <1>1, CompleteFacts DEF Answer, Callback
<1> QED BY <1>1 DEF Recorder, Die, Execute, StartPing, WritePing, CloseWriter,
              StartFlush, StartLastFlush, Sample, Commit, CommitError, EndFlush, vars

\* The reader puts an item into the channel.
LEMMA PutFacts ==
    ASSUME Types, NEW n \in Nodes, NEW item \in Item, Put(n, item), held' = held
    PROVE  /\ Len(chan[n]) \in Nat /\ Len(chan'[n]) = Len(chan[n]) + 1
           /\ chan'[n][Len(chan[n]) + 1] = item
           /\ \A i \in 1..Len(chan[n]) : chan'[n][i] = chan[n][i] /\ Before(n, i)' = Before(n, i)
           /\ (\A i \in Nat : i = Len(chan[n]) + 1 => Before(n, i)' = LastPut(n)) /\ LastPut(n)' = item.off
           /\ \A m \in Nodes \ {n} : chan'[m] = chan[m]
<1>1. chan[n] \in Seq(Item) /\ chan' = [chan EXCEPT ![n] = Append(chan[n], item)] /\ chan \in [Nodes -> Seq(Item)]
  BY DEF Types, Put
<1>2. chan'[n] = Append(chan[n], item) /\ \A m \in Nodes \ {n} : chan'[m] = chan[m]
  BY <1>1
<1>3. /\ Len(chan'[n]) = Len(chan[n]) + 1 /\ chan'[n][Len(chan[n]) + 1] = item
      /\ \A i \in 1..Len(chan[n]) : chan'[n][i] = chan[n][i]
  BY <1>1, <1>2, AppendProperties
<1>4. Len(chan[n]) \in Nat /\ (chan[n] = <<>> <=> Len(chan[n]) = 0) /\ chan'[n] # <<>>
  BY <1>1, <1>2, LenProperties, EmptySeq, AppendProperties
<1>5. LastPut(n)' = item.off
  BY <1>3, <1>4 DEF LastPut
<1>6. \A i \in 1..Len(chan[n]) : Before(n, i)' = Before(n, i)
  BY <1>3, <1>4 DEF Before
<1>7. ASSUME NEW i \in Nat, i = Len(chan[n]) + 1 PROVE Before(n, i)' = LastPut(n)
  <2>1. CASE chan[n] = <<>>
    BY <1>4, <1>7, <2>1 DEF Before, LastPut
  <2>2. CASE chan[n] # <<>>
    <3>1. i - 1 = Len(chan[n]) /\ i - 1 \in 1..Len(chan[n]) /\ i # 1
      BY <1>4, <1>7, <2>2
    <3> QED BY <1>3, <2>2, <3>1 DEF Before, LastPut
  <2> QED BY <2>1, <2>2
<1> QED BY <1>2, <1>3, <1>4, <1>5, <1>6, <1>7

\* The consumer takes an item out of the channel.
LEMMA ReceiveFacts ==
    ASSUME Types, NEW n \in Nodes, Receive(n)
    PROVE  /\ Len(chan[n]) \in Nat \ {0} /\ Len(chan'[n]) = Len(chan[n]) - 1
           /\ held'[n] = chan[n][1] /\ chan[n][1] \in Item
           /\ \A i \in 1..Len(chan'[n]) : chan'[n][i] = chan[n][i + 1] /\ Before(n, i)' = Before(n, i + 1)
           /\ LastPut(n)' = LastPut(n)
           /\ \A m \in Nodes \ {n} : chan'[m] = chan[m] /\ held'[m] = held[m]
<1>1. /\ chan[n] \in Seq(Item) /\ chan[n] # <<>> /\ chan \in [Nodes -> Seq(Item)]
      /\ held \in [Nodes -> Item \cup {NoItem}]
      /\ chan' = [chan EXCEPT ![n] = Tail(chan[n])] /\ held' = [held EXCEPT ![n] = Head(chan[n])]
  BY DEF Types, Receive
<1>2. /\ chan'[n] = Tail(chan[n]) /\ held'[n] = Head(chan[n])
      /\ \A m \in Nodes \ {n} : chan'[m] = chan[m] /\ held'[m] = held[m]
  BY <1>1
<1>3. /\ Len(chan'[n]) = Len(chan[n]) - 1 /\ held'[n] = chan[n][1]
      /\ \A i \in 1..Len(chan'[n]) : chan'[n][i] = chan[n][i + 1]
  BY <1>1, <1>2, HeadTailProperties
<1>4. Len(chan[n]) \in Nat \ {0} /\ chan'[n] \in Seq(Item)
  BY <1>1, <1>2, LenProperties, EmptySeq, HeadTailProperties
<1>5. chan[n][1] \in Item
  BY <1>1, <1>4, ElementOfSeq
<1>6. chan'[n] = <<>> <=> Len(chan'[n]) = 0
  BY <1>4, EmptySeq
<1>7. \A i \in 1..Len(chan'[n]) : Before(n, i)' = Before(n, i + 1)
  <2>1. ASSUME NEW i \in 1..Len(chan'[n]) PROVE Before(n, i)' = Before(n, i + 1)
    <3>1. Len(chan'[n]) \in Nat /\ i \in Int /\ i + 1 # 1 /\ i + 1 - 1 = i
      BY <1>4, LenProperties
    <3>2. CASE i = 1
      BY <1>3, <3>1, <3>2 DEF Before
    <3>3. CASE i # 1
      <4>1. i - 1 \in 1..Len(chan'[n]) /\ i - 1 + 1 = i
        BY <3>1, <3>3
      <4>2. chan'[n][i - 1] = chan[n][i]
        BY <1>3, <4>1
      <4> QED BY <3>1, <3>3, <4>2 DEF Before
    <3> QED BY <3>2, <3>3
  <2> QED BY <2>1
<1>8. LastPut(n)' = LastPut(n)
  <2>1. CASE chan'[n] = <<>>
    BY <1>1, <1>3, <1>4, <1>6, <2>1 DEF LastPut
  <2>2. CASE chan'[n] # <<>>
    <3>1. Len(chan'[n]) \in 1..Len(chan'[n]) /\ Len(chan'[n]) + 1 = Len(chan[n])
      BY <1>3, <1>4, <1>6, <2>2
    <3> QED BY <1>1, <1>3, <2>2, <3>1 DEF LastPut
  <2> QED BY <2>1, <2>2
<1> QED BY <1>2, <1>3, <1>4, <1>5, <1>7, <1>8

\* What changes at one node only, or not at all, leaves the order at the others.
LEMMA OtherNodesKeepOrder ==
    ASSUME NEW m \in Nodes, rpc'[m] = rpc[m], source'[m] = source[m], chan'[m] = chan[m],
           held'[m] = held[m], cancelled => cancelled'
    PROVE  /\ ReaderAt(m) => ReaderAt(m)'
           /\ ChannelAt(m) => ChannelAt(m)'
BY DEF ReaderAt, ChannelAt, LastPut, LastOff, Follows, Before, Positions

\* A reader that takes an item and puts it into the channel at once.
LEMMA TakeAndPut ==
    ASSUME Types, SourceGrows, NEW n \in Nodes, ChannelAt(n), NEW item \in Item, Taken(n, item),
           Put(n, item), held' = held, item.off > LastOff(n), LastPut(n) = LastOff(n)
    PROVE  ChannelAt(n)' /\ LastPut(n)' = item.off /\ LastOff(n)' = item.off
<1>1. /\ Len(chan[n]) \in Nat /\ Len(chan'[n]) = Len(chan[n]) + 1
      /\ chan'[n][Len(chan[n]) + 1] = item
      /\ \A i \in 1..Len(chan[n]) : chan'[n][i] = chan[n][i] /\ Before(n, i)' = Before(n, i)
      /\ (\A i \in Nat : i = Len(chan[n]) + 1 => Before(n, i)' = LastPut(n)) /\ LastPut(n)' = item.off
  BY PutFacts
<1>2. /\ Len(source'[n]) = Len(source[n]) + 1 /\ source'[n][Len(source[n]) + 1] = item
      /\ \A i \in Positions(n) : source'[n][i] = source[n][i]
      /\ Len(source[n]) \in Nat /\ LastOff(n)' = item.off
  BY TakenFacts
<1>3. /\ LastOff(n) \in Int
      /\ \A i \in Positions(n) : source[n][i].off \in Int /\ source[n][i].off <= LastOff(n)
  BY LastIsGreatest
<1>4. item.off \in Int
  BY ItemFacts
<1>5. /\ Positions(n)' = Positions(n) \cup {Len(source[n]) + 1}
      /\ \A k \in Positions(n)' : \/ k \in Positions(n) /\ source'[n][k] = source[n][k]
                                  \/ source'[n][k] = item
  BY <1>2 DEF Positions
<1>6. ASSUME NEW i \in 1..Len(chan'[n])
      PROVE  /\ Before(n, i)' < chan'[n][i].off
             /\ \A k \in Positions(n)' : source'[n][k].off <= Before(n, i)' \/ chan'[n][i].off <= source'[n][k].off
             /\ \E j \in Positions(n)' : chan'[n][i] = source'[n][j]
  <2>1. CASE i \in 1..Len(chan[n])
    <3>1. /\ Before(n, i) < chan[n][i].off
          /\ \A k \in Positions(n) : source[n][k].off <= Before(n, i) \/ chan[n][i].off <= source[n][k].off
          /\ \E j \in Positions(n) : chan[n][i] = source[n][j]
      BY <2>1 DEF ChannelAt, Follows
    <3>2. chan[n][i].off <= LastOff(n) /\ chan[n][i].off \in Int
      BY <1>3, <3>1
    <3>3. chan[n][i].off <= item.off
      BY <1>3, <1>4, <3>2
    <3>4. chan'[n][i] = chan[n][i] /\ Before(n, i)' = Before(n, i)
      BY <1>1, <2>1
    <3>5. ASSUME NEW k \in Positions(n)'
          PROVE  source'[n][k].off <= Before(n, i)' \/ chan'[n][i].off <= source'[n][k].off
      <4>1. CASE k \in Positions(n) /\ source'[n][k] = source[n][k]
        BY <3>1, <3>4, <4>1
      <4>2. CASE source'[n][k] = item
        BY <3>3, <3>4, <4>2
      <4> QED BY <1>5, <4>1, <4>2
    <3>6. \E j \in Positions(n)' : chan'[n][i] = source'[n][j]
      BY <1>2, <1>5, <3>1, <3>4
    <3> QED BY <3>1, <3>4, <3>5, <3>6
  <2>2. CASE i = Len(chan[n]) + 1
    <3>1. Before(n, i)' = LastOff(n) /\ chan'[n][i] = item
      BY <1>1, <2>2
    <3>2. LastOff(n) < item.off /\ item.off \in Int /\ LastOff(n) \in Int
      BY <1>3, <1>4
    <3>3. ASSUME NEW k \in Positions(n)'
          PROVE  source'[n][k].off <= LastOff(n) \/ item.off <= source'[n][k].off
      <4>1. CASE k \in Positions(n) /\ source'[n][k] = source[n][k]
        BY <1>3, <4>1
      <4>2. CASE source'[n][k] = item
        BY <3>2, <4>2
      <4> QED BY <1>5, <4>1, <4>2
    <3>4. \E j \in Positions(n)' : item = source'[n][j]
      BY <1>2, <1>5
    <3> QED BY <3>1, <3>2, <3>3, <3>4
  <2> QED BY <1>1, <2>1, <2>2
<1>7. ChannelAt(n)'
  BY <1>6 DEF ChannelAt, Follows
<1> QED BY <1>1, <1>2, <1>7

\* The next item of a node, at its reader and in its channel.
LEMMA WayStep ==
    ASSUME TP!IndInv, Types, SourceGrows, SourceIsDense, ReaderIsNext, ChannelIsNext, HeldIsRead, [Next]_vars
    PROVE  ReaderIsNext' /\ ChannelIsNext'
<1> USE DEF trackerVars, readerVars, consumerVars, targetVars, mainVars, recorderVars
<1>0. ASSUME NEW n \in Nodes, ReaderAt(n)', ChannelAt(n)', cancelled => cancelled',
             \A m \in Nodes \ {n} : /\ rpc'[m] = rpc[m] /\ source'[m] = source[m]
                                    /\ chan'[m] = chan[m] /\ held'[m] = held[m]
      PROVE  ReaderIsNext' /\ ChannelIsNext'
  BY <1>0, OtherNodesKeepOrder DEF ReaderIsNext, ChannelIsNext
<1>1. ASSUME UNCHANGED <<rpc, source, chan, held>>, cancelled => cancelled'
      PROVE  ReaderIsNext' /\ ChannelIsNext'
  BY <1>1, OtherNodesKeepOrder DEF ReaderIsNext, ChannelIsNext
<1>2. ASSUME NEW n \in Nodes
      PROVE  /\ ReaderAt(n) /\ ChannelAt(n) /\ LastOff(n) \in Int /\ LastOff(n) \in None..MaxCmds
             /\ \A i \in Positions(n) : source[n][i].off \in Int /\ source[n][i].off <= LastOff(n)
             /\ LastPut(n) \in Int
  <2>1. ReaderAt(n) /\ ChannelAt(n)
    BY DEF ReaderIsNext, ChannelIsNext
  <2>2. LastPut(n) \in Int
    <3>1. chan[n] \in Seq(Item) /\ held[n] \in Item \cup {NoItem}
      BY DEF Types
    <3>2. chan[n] # <<>> => chan[n][Len(chan[n])] \in Item
      BY <3>1, EmptySeq, LenProperties, ElementOfSeq
    <3> QED BY <3>1, <3>2, ItemFacts DEF LastPut
  <2> QED BY <2>1, <2>2, AddedTypes, LastIsGreatest
<1>3. ASSUME NEW n \in Nodes, NEW cmd \in SnapshotCommands, SendSnapshot(n, cmd)
      PROVE  ReaderIsNext' /\ ChannelIsNext'
  <2> DEFINE item == [off |-> LastOff(n) + 1, cmd |-> cmd]
  <2>1. /\ Taken(n, item) /\ Put(n, item) /\ LastOff(n) < -1 /\ rpc[n] = "rdb"
        /\ UNCHANGED <<rpc, cancelled, held>>
    BY <1>3 DEF SendSnapshot
  <2>2. item \in Item /\ item.off = LastOff(n) + 1
    BY <1>2, <2>1, BoundsAssumption DEF Item, None
  <2> HIDE DEF item
  <2>3. LastPut(n) = LastOff(n) /\ item.off > LastOff(n) /\ ChannelAt(n)
    BY <1>2, <2>1, <2>2 DEF ReaderAt
  <2>4. ChannelAt(n)' /\ LastPut(n)' = item.off /\ LastOff(n)' = item.off
    BY <2>1, <2>2, <2>3, TakeAndPut
  <2>5. ReaderAt(n)'
    BY <1>2, <2>1, <2>2, <2>4 DEF ReaderAt
  <2>6. \A m \in Nodes \ {n} : source'[m] = source[m] /\ chan'[m] = chan[m]
    BY <2>1, <2>2, TakenFacts, PutFacts
  <2> QED BY <1>0, <2>1, <2>4, <2>5, <2>6
<1>4. ASSUME NEW n \in Nodes, SendFence(n) PROVE ReaderIsNext' /\ ChannelIsNext'
  <2> DEFINE item == [off |-> 0, cmd |-> Progress]
  <2>1. /\ Taken(n, item) /\ Put(n, item) /\ rpc[n] = "fence" /\ rpc' = [rpc EXCEPT ![n] = "aof"]
        /\ UNCHANGED <<cancelled, held>>
    BY <1>4 DEF SendFence
  <2>2. item \in Item /\ item.off = 0
    BY BoundsAssumption DEF Item
  <2> HIDE DEF item
  <2>3. LastPut(n) = LastOff(n) /\ item.off > LastOff(n) /\ ChannelAt(n)
    BY <1>2, <2>1, <2>2 DEF ReaderAt
  <2>4. ChannelAt(n)' /\ LastPut(n)' = item.off /\ LastOff(n)' = item.off
    BY <2>1, <2>2, <2>3, TakeAndPut
  <2>5. rpc'[n] = "aof" /\ \A m \in Nodes \ {n} : rpc'[m] = rpc[m]
    BY <2>1 DEF Types
  <2>6. ReaderAt(n)'
    BY <2>2, <2>4, <2>5 DEF ReaderAt
  <2>7. \A m \in Nodes \ {n} : source'[m] = source[m] /\ chan'[m] = chan[m]
    BY <2>1, <2>2, TakenFacts, PutFacts
  <2> QED BY <1>0, <2>1, <2>4, <2>5, <2>6, <2>7
<1>5. ASSUME NEW n \in Nodes, NEW cmd \in Commands \cup {Progress}, ReadCommand(n, cmd)
      PROVE  ReaderIsNext' /\ ChannelIsNext'
  <2> DEFINE item == [off |-> LastOff(n) + 1, cmd |-> cmd]
  <2>1. /\ Taken(n, item) /\ rpc[n] = "aof" /\ ~ cancelled /\ LastOff(n) < MaxCmds
        /\ rpc' = [rpc EXCEPT ![n] = IF cmd = Progress THEN "meta" ELSE "send"]
        /\ UNCHANGED <<cancelled, held, chan>>
    BY <1>5 DEF ReadCommand
  <2>2. item \in Item /\ item.off = LastOff(n) + 1
    BY <1>2, <2>1, BoundsAssumption DEF Item, None
  <2> HIDE DEF item
  <2>3. /\ Len(source'[n]) = Len(source[n]) + 1 /\ source'[n][Len(source[n]) + 1] = item
        /\ \A i \in Positions(n) : source'[n][i] = source[n][i]
        /\ \A m \in Nodes \ {n} : source'[m] = source[m]
        /\ Len(source[n]) \in Nat /\ LastOff(n)' = item.off
    BY <2>1, <2>2, TakenFacts
  <2>4. rpc'[n] \in {"send", "meta"} /\ \A m \in Nodes \ {n} : rpc'[m] = rpc[m]
    BY <2>1 DEF Types
  <2>5. LastPut(n)' = LastPut(n)
    BY <2>1 DEF LastPut
  <2>6. ReaderAt(n)'
    BY <1>2, <2>1, <2>2, <2>3, <2>4, <2>5 DEF ReaderAt
  <2>7. /\ Positions(n)' = Positions(n) \cup {Len(source[n]) + 1}
        /\ \A k \in Positions(n)' : \/ k \in Positions(n) /\ source'[n][k] = source[n][k]
                                    \/ source'[n][k] = item
    BY <2>3 DEF Positions
  <2>8. ASSUME NEW i \in 1..Len(chan'[n])
        PROVE  /\ Before(n, i)' < chan'[n][i].off
               /\ \A k \in Positions(n)' : source'[n][k].off <= Before(n, i)' \/ chan'[n][i].off <= source'[n][k].off
               /\ \E j \in Positions(n)' : chan'[n][i] = source'[n][j]
    <3>1. /\ Before(n, i) < chan[n][i].off
          /\ \A k \in Positions(n) : source[n][k].off <= Before(n, i) \/ chan[n][i].off <= source[n][k].off
          /\ \E j \in Positions(n) : chan[n][i] = source[n][j]
      BY <1>2, <2>1 DEF ChannelAt, Follows
    <3>2. chan[n][i].off <= LastOff(n) /\ chan[n][i].off \in Int
      BY <1>2, <3>1
    <3>3. chan[n][i].off <= item.off
      BY <1>2, <2>2, <3>2
    <3>4. chan'[n][i] = chan[n][i] /\ Before(n, i)' = Before(n, i)
      BY <2>1 DEF Before
    <3>5. ASSUME NEW k \in Positions(n)'
          PROVE  source'[n][k].off <= Before(n, i)' \/ chan'[n][i].off <= source'[n][k].off
      <4>1. CASE k \in Positions(n) /\ source'[n][k] = source[n][k]
        BY <3>1, <3>4, <4>1
      <4>2. CASE source'[n][k] = item
        BY <3>3, <3>4, <4>2
      <4> QED BY <2>7, <4>1, <4>2
    <3>6. \E j \in Positions(n)' : chan'[n][i] = source'[n][j]
      BY <2>3, <2>7, <3>1, <3>4
    <3> QED BY <3>1, <3>4, <3>5, <3>6
  <2>9. ChannelAt(n)'
    BY <2>8 DEF ChannelAt, Follows
  <2> QED BY <1>0, <2>1, <2>3, <2>4, <2>6, <2>9
<1>6. ASSUME NEW n \in Nodes, SendCommand(n) PROVE ReaderIsNext' /\ ChannelIsNext'
  <2> DEFINE item == source[n][Len(source[n])]
  <2>1. /\ Put(n, item) /\ rpc[n] \in {"send", "meta"} /\ rpc' = [rpc EXCEPT ![n] = "aof"]
        /\ UNCHANGED <<cancelled, held, source>>
    BY <1>6 DEF SendCommand
  <2>2. LastOff(n) > 0 /\ LastPut(n) = LastOff(n) - 1
    BY <1>2, <2>1 DEF ReaderAt
  <2>3. source[n] # <<>>
    BY <2>2, BoundsAssumption DEF LastOff, None
  <2>4. item \in Item /\ item.off = LastOff(n) /\ Len(source[n]) \in Positions(n)
    BY <2>3, LastIsGreatest
  <2> HIDE DEF item
  <2>5. /\ Len(chan[n]) \in Nat /\ Len(chan'[n]) = Len(chan[n]) + 1
        /\ chan'[n][Len(chan[n]) + 1] = item
        /\ \A i \in 1..Len(chan[n]) : chan'[n][i] = chan[n][i] /\ Before(n, i)' = Before(n, i)
        /\ (\A i \in Nat : i = Len(chan[n]) + 1 => Before(n, i)' = LastPut(n)) /\ LastPut(n)' = item.off
        /\ \A m \in Nodes \ {n} : chan'[m] = chan[m]
    BY <2>1, <2>4, PutFacts
  <2>6. rpc'[n] = "aof" /\ \A m \in Nodes \ {n} : rpc'[m] = rpc[m]
    BY <2>1 DEF Types
  <2>7. LastOff(n)' = LastOff(n) /\ Positions(n)' = Positions(n) /\ source' = source
    BY <2>1 DEF LastOff, Positions
  <2>8. ReaderAt(n)'
    BY <1>2, <2>2, <2>4, <2>5, <2>6, <2>7 DEF ReaderAt
  <2>9. ASSUME NEW i \in 1..Len(chan'[n])
        PROVE  /\ Before(n, i)' < chan'[n][i].off
               /\ \A k \in Positions(n) : source[n][k].off <= Before(n, i)' \/ chan'[n][i].off <= source[n][k].off
               /\ \E j \in Positions(n) : chan'[n][i] = source[n][j]
    <3>1. CASE i \in 1..Len(chan[n])
      <4>1. /\ Before(n, i) < chan[n][i].off
            /\ \A k \in Positions(n) : source[n][k].off <= Before(n, i) \/ chan[n][i].off <= source[n][k].off
            /\ \E j \in Positions(n) : chan[n][i] = source[n][j]
        BY <1>2, <3>1 DEF ChannelAt, Follows
      <4> QED BY <2>5, <3>1, <4>1
    <3>2. CASE i = Len(chan[n]) + 1
      <4>1. Before(n, i)' = LastOff(n) - 1 /\ chan'[n][i] = item
        BY <2>2, <2>5, <3>2
      <4> QED BY <1>2, <2>4, <4>1 DEF item
    <3> QED BY <2>5, <3>1, <3>2
  <2>10. ChannelAt(n)'
    BY <2>7, <2>9 DEF ChannelAt, Follows
  <2> QED BY <1>0, <2>1, <2>5, <2>6, <2>8, <2>10
<1>7. ASSUME NEW n \in Nodes, EndSnapshot(n) \/ SkipFence(n) \/ SkipProgress(n) \/ StopReading(n)
      PROVE  ReaderIsNext' /\ ChannelIsNext'
  <2>1. UNCHANGED <<source, chan, held, cancelled>> /\ \A m \in Nodes \ {n} : rpc'[m] = rpc[m]
    BY <1>7 DEF EndSnapshot, SkipFence, SkipProgress, StopReading, Types
  <2>2. LastOff(n)' = LastOff(n) /\ LastPut(n)' = LastPut(n)
    BY <2>1 DEF LastOff, LastPut
  <2>3. ReaderAt(n)'
    BY <1>2, <1>7, <2>1, <2>2 DEF EndSnapshot, SkipFence, SkipProgress, StopReading, ReaderAt, Types
  <2>4. ChannelAt(n)'
    BY <1>2, <2>1 DEF ChannelAt, Follows, Before, Positions
  <2> QED BY <1>0, <2>1, <2>3, <2>4
<1>8. ASSUME NEW n \in Nodes, Receive(n) PROVE ReaderIsNext' /\ ChannelIsNext'
  <2>1. /\ Len(chan[n]) \in Nat \ {0} /\ Len(chan'[n]) = Len(chan[n]) - 1
        /\ \A i \in 1..Len(chan'[n]) : chan'[n][i] = chan[n][i + 1] /\ Before(n, i)' = Before(n, i + 1)
        /\ LastPut(n)' = LastPut(n)
        /\ \A m \in Nodes \ {n} : chan'[m] = chan[m] /\ held'[m] = held[m]
    BY <1>8, ReceiveFacts
  <2>2. UNCHANGED <<source, rpc, cancelled>>
    BY <1>8 DEF Receive
  <2>3. LastOff(n)' = LastOff(n) /\ Positions(n)' = Positions(n)
    BY <2>2 DEF LastOff, Positions
  <2>4. ReaderAt(n)'
    BY <1>2, <2>1, <2>2, <2>3 DEF ReaderAt
  <2>5. ASSUME NEW i \in 1..Len(chan'[n])
        PROVE  /\ Before(n, i)' < chan'[n][i].off
               /\ \A k \in Positions(n) : source[n][k].off <= Before(n, i)' \/ chan'[n][i].off <= source[n][k].off
               /\ \E j \in Positions(n) : chan'[n][i] = source[n][j]
    <3>1. i + 1 \in 1..Len(chan[n])
      BY <2>1
    <3>2. /\ Before(n, i + 1) < chan[n][i + 1].off
          /\ \A k \in Positions(n) : source[n][k].off <= Before(n, i + 1) \/ chan[n][i + 1].off <= source[n][k].off
          /\ \E j \in Positions(n) : chan[n][i + 1] = source[n][j]
      BY <1>2, <3>1 DEF ChannelAt, Follows
    <3> QED BY <2>1, <3>2
  <2>6. ChannelAt(n)'
    BY <2>2, <2>3, <2>5 DEF ChannelAt, Follows
  <2> QED BY <1>0, <2>1, <2>2, <2>4, <2>6
<1>9. ASSUME NEW n \in Nodes, Consumer(n), ~ Receive(n) PROVE UNCHANGED <<rpc, source, chan, held>> /\ (cancelled => cancelled')
  <2>1. UNCHANGED <<rpc, source, chan, held>>
    BY <1>9 DEF Consumer, TakeSlot, Track, TrackRefused, FilterOut, Route, WriteCopy
  <2>2. UNCHANGED cancelled
    BY <1>9, CompleteFacts
       DEF Consumer, TakeSlot, Track, TrackRefused, FilterOut, Route, WriteCopy, Consumed,
           T!Reserve, T!Register, T!Refuse
  <2> QED BY <2>1, <2>2
<1>10. ASSUME NEW n \in Nodes, ReaderDone(n) PROVE UNCHANGED <<rpc, source, chan, held>> /\ (cancelled => cancelled')
  BY <1>10 DEF ReaderDone
<1>11. ASSUME Cancel PROVE UNCHANGED <<rpc, source, chan, held>> /\ (cancelled => cancelled')
  BY <1>11 DEF Cancel, T!Cancel
<1>12. ASSUME \/ StartPing \/ WritePing \/ CloseWriter \/ Recorder \/ Die
              \/ \E s \in Shards : Execute(s) \/ Answer(s)
              \/ UNCHANGED vars
       PROVE  UNCHANGED <<rpc, source, chan, held>> /\ (cancelled => cancelled')
  BY <1>12, Elsewhere
<1> QED BY <1>1, <1>3, <1>4, <1>5, <1>6, <1>7, <1>8, <1>9, <1>10, <1>11, <1>12 DEF Next, Reader, Main

\* The item a consumer receives comes next: the first one behind the snapshot is the
\* progress entry, and each later one is numbered one higher.
LEMMA ReceivedIsNext ==
    ASSUME Types, SourceGrows, SourceIsDense, ChannelIsNext, NEW n \in Nodes, Receive(n)
    PROVE  /\ held[n].off < held'[n].off /\ held'[n].off \in Int /\ held[n].off \in Int
           /\ held'[n].off > 0 => held'[n].off = held[n].off + 1
           /\ \A i \in Positions(n) : source[n][i].off < held'[n].off => source[n][i].off <= held[n].off
           /\ held'[n] # NoItem /\ \E j \in Positions(n) : held'[n] = source[n][j]
<1>1. Len(chan[n]) \in Nat \ {0} /\ held'[n] = chan[n][1] /\ chan[n][1] \in Item
  BY ReceiveFacts
<1>2. 1 \in 1..Len(chan[n]) /\ Before(n, 1) = held[n].off
  BY <1>1 DEF Before
<1>3. /\ held[n].off < chan[n][1].off
      /\ \A i \in Positions(n) : source[n][i].off <= held[n].off \/ chan[n][1].off <= source[n][i].off
      /\ \E j \in Positions(n) : chan[n][1] = source[n][j]
  BY <1>2 DEF ChannelIsNext, ChannelAt, Follows
<1>4. chan[n][1].off \in Int /\ held[n].off \in Int
  BY <1>1, ItemFacts DEF Types
<1>5. \A i \in Positions(n) : source[n][i].off \in Int
  BY LastIsGreatest
<1>6. chan[n][1].off > 0 => \E j \in Positions(n) : source[n][j].off = chan[n][1].off - 1
  BY <1>3 DEF SourceIsDense
<1>7. chan[n][1].off > 0 => chan[n][1].off = held[n].off + 1
  BY <1>3, <1>4, <1>6
<1>8. chan[n][1] # NoItem
  <2>1. chan[n][1].off \in (-RdbCount)..MaxCmds
    BY <1>1 DEF Item
  <2>2. NoItem.off \notin (-RdbCount)..MaxCmds
    BY BoundsAssumption DEF NoItem, None
  <2> QED BY <2>1, <2>2
<1> QED BY <1>1, <1>3, <1>4, <1>5, <1>7, <1>8

\* What the consumer's own steps leave alone.
LEMMA ConsumerKeeps ==
    ASSUME TP!IndInv, Types, NEW n \in Nodes, Consumer(n)
    PROVE  /\ UNCHANGED <<rpc, source, cancelled>>
           /\ \A m \in Nodes \ {n} : /\ cpc'[m] = cpc[m] /\ held'[m] = held[m] /\ at'[m] = at[m]
                                     /\ caller'[m] = caller[m] /\ tracked'[m] = tracked[m]
                                     /\ owed'[m] = owed[m] /\ finished'[m] = finished[m]
           /\ Receive(n) \/ held'[n] = held[n]
           /\ Track(n) \/ tracked'[n] = tracked[n]
           /\ TakeSlot(n) \/ Track(n) \/ TrackRefused(n) \/ caller'[n] = caller[n]
           /\ WriteCopy(n) \/ sent' = sent
           /\ UNCHANGED <<ran, answered, mainVars, recorderVars>>
<1> USE DEF trackerVars, readerVars, consumerVars, targetVars
<1>0. /\ caller \in [Nodes -> {"idle", "reserved", "refused"}] /\ tracked \in [Nodes -> Seq(Offsets)]
      /\ finished \in [Nodes -> SUBSET Nat]
  BY TrackerTypes
<1>1. ASSUME NEW r, T!Complete(n, r)
      PROVE  /\ UNCHANGED <<caller, cancelled, tracked>>
             /\ \A m \in Nodes \ {n} : finished'[m] = finished[m]
  BY <1>0, <1>1, CompleteFacts
<1>2. CASE Receive(n)
  BY <1>2 DEF Receive, Types
<1>3. CASE TakeSlot(n)
  BY <1>0, <1>3 DEF TakeSlot, T!Reserve
<1>4. CASE Track(n)
  BY <1>0, <1>4 DEF Track, T!Register, Types
<1>5. CASE TrackRefused(n)
  BY <1>0, <1>5 DEF TrackRefused, T!Refuse, Types
<1>6. CASE FilterOut(n)
  BY <1>1, <1>6 DEF FilterOut, Consumed, Types
<1>7. CASE Route(n)
  BY <1>1, <1>7 DEF Route, Consumed, Types
<1>8. CASE WriteCopy(n)
  BY <1>8 DEF WriteCopy, Types
<1> QED BY <1>2, <1>3, <1>4, <1>5, <1>6, <1>7, <1>8 DEF Consumer

\* The item a consumer holds, and what it has told the tracker.
LEMMA HeldStep ==
    ASSUME TP!IndInv, Types, SourceGrows, SourceIsDense, ReaderIsNext, ChannelIsNext, HeldIsRead,
           TrackedInOrder, [Next]_vars
    PROVE  HeldIsRead' /\ TrackedInOrder'
<1> USE DEF trackerVars, readerVars, consumerVars, targetVars, mainVars, recorderVars
<1>a. /\ caller \in [Nodes -> {"idle", "reserved", "refused"}] /\ tracked \in [Nodes -> Seq(Offsets)]
  BY TrackerTypes
<1>b. ASSUME NEW n \in Nodes
      PROVE  HeldAt(n) /\ TrackedAt(n) /\ Len(tracked[n]) \in Nat /\ held[n].off \in Int
  BY <1>a, LenProperties, ItemFacts DEF HeldIsRead, TrackedInOrder, Types
<1>0. ASSUME UNCHANGED <<cpc, held, caller, tracked>>,
             \A n \in Nodes : \A j \in Positions(n) : j \in Positions(n)' /\ source'[n][j] = source[n][j]
      PROVE  HeldIsRead' /\ TrackedInOrder'
  BY <1>0, <1>b DEF HeldIsRead, HeldAt, TrackedInOrder, TrackedAt
<1>1. ASSUME NEW n \in Nodes, Reader(n) PROVE HeldIsRead' /\ TrackedInOrder'
  <2>1. UNCHANGED <<cpc, held, caller, tracked>>
    BY <1>1 DEF Reader, SendSnapshot, EndSnapshot, SendFence, SkipFence, ReadCommand, SendCommand,
                SkipProgress, StopReading
  <2>2. UNCHANGED source \/ \E item : Taken(n, item)
    BY <1>1 DEF Reader, SendSnapshot, EndSnapshot, SendFence, SkipFence, ReadCommand, SendCommand,
                SkipProgress, StopReading
  <2>3. ASSUME NEW item, Taken(n, item), NEW m \in Nodes, NEW j \in Positions(m)
        PROVE  j \in Positions(m)' /\ source'[m][j] = source[m][j]
    <3>1. source'[m] = source[m] \/ (m = n /\ source'[m] = Append(source[m], item))
      BY <2>3 DEF Taken, Types
    <3>2. source[m] \in Seq(Item) /\ j \in 1..Len(source[m]) /\ Len(source[m]) \in Nat
      BY LenProperties DEF Types, Positions
    <3> QED BY <3>1, <3>2 DEF Positions
  <2> QED BY <1>0, <2>1, <2>2, <2>3 DEF Positions
<1>2. ASSUME NEW n \in Nodes, HeldAt(n)', TrackedAt(n)', UNCHANGED source,
             \A m \in Nodes \ {n} : /\ cpc'[m] = cpc[m] /\ held'[m] = held[m]
                                    /\ caller'[m] = caller[m] /\ tracked'[m] = tracked[m]
      PROVE  HeldIsRead' /\ TrackedInOrder'
  <2>1. ASSUME NEW m \in Nodes \ {n} PROVE HeldAt(m)' /\ TrackedAt(m)'
    <3>1. /\ cpc'[m] = cpc[m] /\ held'[m] = held[m] /\ source' = source
          /\ caller'[m] = caller[m] /\ tracked'[m] = tracked[m]
      BY <1>2
    <3>2. HeldAt(m) /\ TrackedAt(m)
      BY DEF HeldIsRead, TrackedInOrder
    <3>3. HeldAt(m)'
      BY <3>1, <3>2 DEF HeldAt, Positions
    <3>4. TrackedAt(m)'
      BY <3>1, <3>2 DEF TrackedAt
    <3> QED BY <3>3, <3>4
  <2> QED BY <1>2, <2>1 DEF HeldIsRead, TrackedInOrder
<1>3. ASSUME NEW n \in Nodes, Consumer(n), HeldAt(n)', TrackedAt(n)' PROVE HeldIsRead' /\ TrackedInOrder'
  BY <1>2, <1>3, ConsumerKeeps
<1>4. ASSUME NEW n \in Nodes, Receive(n) PROVE HeldAt(n)' /\ TrackedAt(n)'
  <2>1. /\ held[n].off < held'[n].off /\ held'[n].off \in Int
        /\ held'[n].off > 0 => held'[n].off = held[n].off + 1
        /\ held'[n] # NoItem /\ \E j \in Positions(n) : held'[n] = source[n][j]
    BY <1>4, ReceivedIsNext
  <2>2. /\ UNCHANGED <<caller, tracked, source>> /\ cpc[n] = "next" /\ chan[n] # <<>>
        /\ cpc'[n] = IF caller[n] = "refused" THEN "next" ELSE IF Head(chan[n]).off < 0 THEN "route" ELSE "track"
        /\ held'[n] = Head(chan[n])
    BY <1>4 DEF Receive, Types
  <2>3. HeldAt(n)'
    <3>1. \E j \in Positions(n)' : held'[n] = source'[n][j]
      BY <2>1, <2>2 DEF Positions
    <3>2. cpc'[n] = "track" => held'[n].off >= 0
      BY <2>1, <2>2
    <3>3. caller'[n] = "refused" => cpc'[n] = "next"
      BY <2>2
    <3> QED BY <2>1, <3>1, <3>2, <3>3 DEF HeldAt
  <2>4. TrackedAt(n)'
    BY <1>b, <2>1, <2>2 DEF HeldAt, TrackedAt
  <2> QED BY <2>3, <2>4
<1>5. ASSUME NEW n \in Nodes, TakeSlot(n) PROVE HeldAt(n)' /\ TrackedAt(n)'
  <2>1. UNCHANGED <<cpc, held, tracked, source>> /\ caller[n] = "idle" /\ caller'[n] = "reserved"
    BY <1>5, <1>a DEF TakeSlot, T!Reserve
  <2> QED BY <1>b, <2>1 DEF HeldAt, TrackedAt, Positions
<1>6. ASSUME NEW n \in Nodes, Track(n) PROVE HeldAt(n)' /\ TrackedAt(n)'
  <2>1. /\ UNCHANGED <<held, source>> /\ cpc[n] = "track" /\ cpc'[n] = "route" /\ caller'[n] = "idle"
        /\ caller[n] = "reserved" /\ tracked'[n] = Append(tracked[n], held[n].off)
    BY <1>6, <1>a DEF Track, T!Register, Types
  <2>2. /\ Len(tracked[n]) = held[n].off /\ held[n].off >= 0 /\ held[n] # NoItem
    BY <1>b, <2>1 DEF HeldAt, TrackedAt
  <2>3. held[n].off \in Offsets
    BY <2>2, ItemFacts, BoundsAssumption DEF Types, Offsets, None
  <2>4. /\ Len(tracked'[n]) = Len(tracked[n]) + 1 /\ tracked'[n][Len(tracked[n]) + 1] = held[n].off
        /\ \A r \in 1..Len(tracked[n]) : tracked'[n][r] = tracked[n][r]
    BY <1>a, <2>1, <2>3, AppendProperties
  <2>5. HeldAt(n)'
    BY <1>b, <2>1, <2>2 DEF HeldAt, Positions
  <2>6. \A r \in 1..Len(tracked'[n]) : tracked'[n][r] = r - 1
    <3>1. ASSUME NEW r \in 1..Len(tracked'[n]) PROVE tracked'[n][r] = r - 1
      <4>1. CASE r \in 1..Len(tracked[n])
        BY <1>b, <2>4, <4>1 DEF TrackedAt
      <4>2. CASE r = Len(tracked[n]) + 1
        BY <1>b, <2>2, <2>4, <4>2
      <4> QED BY <1>b, <2>4, <4>1, <4>2
    <3> QED BY <3>1
  <2>7. TrackedAt(n)'
    BY <1>b, <2>1, <2>2, <2>4, <2>6 DEF TrackedAt
  <2> QED BY <2>5, <2>7
<1>7. ASSUME NEW n \in Nodes, TrackRefused(n) PROVE HeldAt(n)' /\ TrackedAt(n)'
  <2>1. UNCHANGED <<held, tracked, source>> /\ cpc[n] = "track" /\ cpc'[n] = "next" /\ caller[n] = "idle" /\ caller'[n] = "refused"
    BY <1>7, <1>a DEF TrackRefused, T!Refuse, Types
  <2> QED BY <1>b, <2>1 DEF HeldAt, TrackedAt, Positions
<1>8. ASSUME NEW n \in Nodes, FilterOut(n) \/ Route(n) \/ WriteCopy(n) PROVE HeldAt(n)' /\ TrackedAt(n)'
  <2>1. /\ UNCHANGED <<held, source>> /\ cpc[n] \in {"route", "write"} /\ cpc'[n] \in {"next", "write"}
    BY <1>8 DEF FilterOut, Route, WriteCopy, Types
  <2>2. UNCHANGED <<tracked, caller>>
    BY <1>8, CompleteFacts DEF FilterOut, Route, WriteCopy, Consumed
  <2> QED BY <1>b, <2>1, <2>2 DEF HeldAt, TrackedAt, Positions
<1>9. ASSUME NEW n \in Nodes, ReaderDone(n) PROVE HeldIsRead' /\ TrackedInOrder'
  <2>1. /\ UNCHANGED <<held, source, caller, tracked>> /\ cpc[n] = "next" /\ cpc'[n] = "done"
        /\ \A m \in Nodes \ {n} : cpc'[m] = cpc[m]
    BY <1>9 DEF ReaderDone, Types
  <2>2. HeldAt(n)' /\ TrackedAt(n)'
    BY <1>b, <2>1 DEF HeldAt, TrackedAt, Positions
  <2> QED BY <1>2, <2>1, <2>2
<1>10. ASSUME Cancel PROVE HeldIsRead' /\ TrackedInOrder'
  BY <1>0, <1>10 DEF Cancel, T!Cancel, Positions
<1>11. ASSUME \/ StartPing \/ WritePing \/ CloseWriter \/ Recorder \/ Die
              \/ \E s \in Shards : Execute(s) \/ Answer(s)
              \/ UNCHANGED vars
       PROVE  HeldIsRead' /\ TrackedInOrder'
  BY <1>0, <1>11, Elsewhere DEF Positions
<1>12. ASSUME NEW n \in Nodes, Consumer(n) PROVE HeldIsRead' /\ TrackedInOrder'
  BY <1>3, <1>4, <1>5, <1>6, <1>7, <1>8, <1>12 DEF Consumer
<1> QED BY <1>1, <1>9, <1>10, <1>11, <1>12 DEF Next, Main

\* Every step keeps the types.
LEMMA TypesStep ==
    ASSUME Inv, [Next]_vars
    PROVE  Types'
<1>1. CASE UNCHANGED vars
  BY <1>1 DEF Inv, Types, vars, trackerVars, readerVars, consumerVars, targetVars, mainVars, recorderVars
<1>2. CASE Next
  BY <1>2, ReaderTypes, ConsumerTypes, OtherTypes DEF Next, Inv, OrderInv, CopyInv, OwedInv
<1> QED BY <1>1, <1>2

\* Every step keeps the order of items.
LEMMA OrderStep ==
    ASSUME Inv, [Next]_vars
    PROVE  OrderInv'
BY SourceStep, WayStep, HeldStep DEF Inv, OrderInv

-----------------------------------------------------------------------------
(***************************************************************************)
(* Copies.                                                                 *)
(***************************************************************************)
\* What a consumer does is done by its own steps, or its loop ends.
LEMMA StepCases ==
    ASSUME [Next]_vars
    PROVE  \/ \E n \in Nodes : Consumer(n)
           \/ UNCHANGED <<cpc, held, at, tracked, caller>>
           \/ /\ UNCHANGED <<held, at, tracked, caller, source, sent>>
              /\ \E n \in Nodes : cpc[n] = "next" /\ cpc' = [cpc EXCEPT ![n] = "done"]
<1> USE DEF trackerVars, readerVars, consumerVars, targetVars, mainVars, recorderVars
<1>1. ASSUME NEW n \in Nodes, Reader(n) PROVE UNCHANGED <<cpc, held, at, tracked, caller>>
  BY <1>1 DEF Reader, SendSnapshot, EndSnapshot, SendFence, SkipFence, ReadCommand, SendCommand,
              SkipProgress, StopReading
<1>2. ASSUME NEW n \in Nodes, ReaderDone(n)
      PROVE  /\ UNCHANGED <<held, at, tracked, caller, source, sent>>
             /\ cpc[n] = "next" /\ cpc' = [cpc EXCEPT ![n] = "done"]
  BY <1>2 DEF ReaderDone
<1>3. ASSUME Cancel PROVE UNCHANGED <<cpc, held, at, tracked, caller>>
  BY <1>3 DEF Cancel, T!Cancel
<1> HIDE DEF trackerVars, readerVars, consumerVars, targetVars, mainVars, recorderVars
<1> QED BY <1>1, <1>2, <1>3, Elsewhere DEF Next, Main

\* A reader only adds to what it has taken.
LEMMA SourceKept ==
    ASSUME Types, [Next]_vars, NEW n \in Nodes, NEW j \in Positions(n)
    PROVE  j \in Positions(n)' /\ source'[n][j] = source[n][j]
<1> USE DEF trackerVars, readerVars, consumerVars, targetVars, mainVars, recorderVars
<1>1. UNCHANGED source \/ \E m \in Nodes : \E item : Taken(m, item)
  <2>1. ASSUME NEW m \in Nodes, Reader(m) PROVE UNCHANGED source \/ \E item : Taken(m, item)
    BY <2>1 DEF Reader, SendSnapshot, EndSnapshot, SendFence, SkipFence, ReadCommand, SendCommand,
                SkipProgress, StopReading
  <2>2. ASSUME NEW m \in Nodes, Consumer(m) \/ ReaderDone(m) PROVE UNCHANGED source
    BY <2>2 DEF Consumer, Receive, TakeSlot, Track, TrackRefused, FilterOut, Route, WriteCopy, ReaderDone
  <2>3. ASSUME Cancel PROVE UNCHANGED source
    BY <2>3 DEF Cancel
  <2> HIDE DEF trackerVars, readerVars, consumerVars, targetVars, mainVars, recorderVars
  <2> QED BY <2>1, <2>2, <2>3, Elsewhere DEF Next, Main
<1>2. ASSUME NEW m \in Nodes, NEW item, Taken(m, item)
      PROVE  j \in Positions(n)' /\ source'[n][j] = source[n][j]
  <2>1. source'[n] = source[n] \/ source'[n] = Append(source[n], item)
    BY <1>2 DEF Taken, Types
  <2>2. source[n] \in Seq(Item) /\ j \in 1..Len(source[n]) /\ Len(source[n]) \in Nat
    BY LenProperties DEF Types, Positions
  <2> QED BY <2>1, <2>2 DEF Positions
<1> QED BY <1>1, <1>2 DEF Positions

\* The item a consumer holds is the only one of the node with its number.
LEMMA HeldIsUnique ==
    ASSUME Types, SourceGrows, HeldIsRead, NEW n \in Nodes, NEW i \in Positions(n),
           source[n][i].off = held[n].off
    PROVE  source[n][i] = held[n]
<1>1. source[n][i] \in Item /\ source[n][i].off > None
  <2>1. source[n][i] \in Item
    BY LastIsGreatest
  <2>2. source[n][i].off \in (-RdbCount)..MaxCmds
    BY <2>1 DEF Item
  <2> QED BY <2>1, <2>2, BoundsAssumption DEF None
<1>2. held[n] # NoItem
  BY <1>1, BoundsAssumption DEF NoItem, None
<1>3. PICK j \in Positions(n) : held[n] = source[n][j]
  BY <1>2 DEF HeldIsRead, HeldAt
<1>4. i \in Int /\ j \in Int /\ source[n][i].off \in Int
  BY LastIsGreatest DEF Positions
<1>5. ~ (i < j) /\ ~ (j < i)
  BY <1>3, <1>4 DEF SourceGrows
<1> QED BY <1>3, <1>4, <1>5

\* The item a consumer holds has been taken, and what the reader takes comes behind it.
LEMMA NewIsBehind ==
    ASSUME Types, Types', HeldIsRead, SourceGrows', [Next]_vars, NEW n \in Nodes,
           NEW i \in Positions(n)', i \notin Positions(n)
    PROVE  source'[n][i].off > held[n].off /\ source'[n][i].off \in Int /\ held[n].off \in Int
<1>1. source'[n] \in Seq(Item) /\ source[n] \in Seq(Item)
  BY DEF Types
<1>2. i \in 1..Len(source'[n]) /\ i \notin 1..Len(source[n]) /\ Len(source[n]) \in Nat
  BY <1>1, LenProperties DEF Positions
<1>3. source'[n][i] \in Item
  BY <1>1, <1>2, ElementOfSeq
<1>4. source'[n][i].off \in (-RdbCount)..MaxCmds /\ source'[n][i].off > None
  <2>1. source'[n][i].off \in (-RdbCount)..MaxCmds
    BY <1>3 DEF Item
  <2> QED BY <2>1, BoundsAssumption DEF None
<1>5. held[n].off \in Int
  BY ItemFacts DEF Types
<1>6. CASE held[n] = NoItem
  BY <1>4, <1>5, <1>6, BoundsAssumption DEF NoItem
<1>7. ASSUME NEW j \in Positions(n), held[n] = source[n][j] PROVE source'[n][i].off > held[n].off
  <2>1. j \in Positions(n)' /\ source'[n][j] = source[n][j]
    BY SourceKept
  <2>2. j < i
    BY <1>2 DEF Positions
  <2>3. source'[n][j].off < source'[n][i].off
    BY <2>1, <2>2 DEF SourceGrows
  <2> QED BY <1>4, <1>5, <1>7, <2>1, <2>3
<1> QED BY <1>4, <1>5, <1>6, <1>7 DEF HeldIsRead, HeldAt

\* One more copy is handed to a shard.
Appended(s, c) ==
    /\ Len(sent[s]) \in Nat /\ Len(sent'[s]) = Len(sent[s]) + 1 /\ sent'[s][Len(sent[s]) + 1] = c
    /\ \A k \in 1..Len(sent[s]) : sent'[s][k] = sent[s][k]
    /\ \A t \in Shards \ {s} : sent'[t] = sent[t]

\* A Write puts one copy behind those of its shard.
LEMMA AppendedFacts ==
    ASSUME Types, NEW s \in Shards, NEW c \in Copy, sent' = [sent EXCEPT ![s] = Append(@, c)]
    PROVE  Appended(s, c)
<1>1. sent[s] \in Seq(Copy) /\ sent'[s] = Append(sent[s], c) /\ \A t \in Shards \ {s} : sent'[t] = sent[t]
  BY DEF Types
<1> QED BY <1>1, AppendProperties, LenProperties DEF Appended

\* The copy c a consumer writes: of the item it holds, to shard s, the j-th of part p.
CopyWritten(n, p, j, s, c) ==
    /\ p = at[n][1] /\ j = at[n][2] /\ s = Parts(n)[p][j] /\ s \in Shards
    /\ p \in 1..Len(Parts(n)) /\ j \in 1..Len(Parts(n)[p]) /\ Len(Parts(n)) \in Nat
    /\ Len(Parts(n)[p]) \in Nat /\ cpc[n] = "write" /\ Appended(s, c) /\ c \in Copy
    /\ IsCopy(c, n, held[n].off, p)
    /\ c.record = (IF held[n].off < 0 THEN 0 ELSE held[n].off + 1)
    /\ held[n].off >= 0 => held[n].off + 1 = Len(tracked[n])
    /\ at'[n] = (IF j < Len(Parts(n)[p]) THEN <<p, j + 1>> ELSE <<p + 1, 1>>)
    /\ cpc'[n] = (IF j = Len(Parts(n)[p]) /\ p = Len(Parts(n)) THEN "next" ELSE "write")
    /\ held[n].off \in Int

\* The copy that a consumer writes is the one its position names.
LEMMA WriteCopyFacts ==
    ASSUME TP!IndInv, Types, HeldIsRead, TrackedInOrder, WritePosition, NEW n \in Nodes, WriteCopy(n)
    PROVE  \E p, j, s, c : CopyWritten(n, p, j, s, c)
<1> DEFINE p == at[n][1]
           j == at[n][2]
           parts == held[n].cmd.parts
           s == parts[p][j]
           c == [node |-> n, off |-> held[n].off, part |-> p,
                 record |-> IF held[n].off < 0 THEN 0 ELSE Len(tracked[n])]
<1>1. /\ cpc[n] = "write" /\ sent' = [sent EXCEPT ![s] = Append(@, c)]
      /\ at' = [at EXCEPT ![n] = IF j < Len(parts[p]) THEN <<p, j + 1>> ELSE <<p + 1, 1>>]
      /\ cpc' = [cpc EXCEPT ![n] = IF j = Len(parts[p]) /\ p = Len(parts) THEN "next" ELSE "write"]
  BY DEF WriteCopy
<1>2. p \in 1..Len(parts) /\ j \in 1..Len(parts[p])
  BY <1>1 DEF WritePosition, WriteAt, Parts
<1>3. parts \in Seq(Seq(Shards) \ {<<>>}) /\ held[n].off \in None..MaxCmds /\ held[n].off \in Int
  BY ItemFacts DEF Types
<1>4. parts[p] \in Seq(Shards) /\ Len(parts) \in Nat
  BY <1>2, <1>3, ElementOfSeq, LenProperties
<1>5. s \in Shards /\ Len(parts[p]) \in Nat
  BY <1>2, <1>4, ElementOfSeq, LenProperties
<1>6. caller[n] # "refused"
  BY <1>1 DEF HeldIsRead, HeldAt
<1>7. held[n].off >= 0 => held[n].off + 1 = Len(tracked[n])
  <2>1. caller[n] # "refused" => Len(tracked[n]) = IF held[n].off < 0 THEN 0
                                                   ELSE IF cpc[n] = "track" THEN held[n].off
                                                   ELSE held[n].off + 1
    BY DEF TrackedInOrder, TrackedAt
  <2>2. cpc[n] # "track" /\ held[n].off \in Int
    BY <1>1, <1>3
  <2> QED BY <1>6, <2>1, <2>2
<1>8. p \in Nat /\ Len(tracked[n]) \in Nat
  BY TrackerTypes, LenProperties DEF Types
<1>9. c \in Copy
  BY <1>3, <1>8 DEF Copy
<1>10. IsCopy(c, n, held[n].off, p) /\ c.record = IF held[n].off < 0 THEN 0 ELSE held[n].off + 1
  BY <1>3, <1>7 DEF IsCopy
<1> HIDE DEF c
<1>11. Appended(s, c)
  BY <1>1, <1>5, <1>9, AppendedFacts
<1>12. /\ at'[n] = (IF j < Len(parts[p]) THEN <<p, j + 1>> ELSE <<p + 1, 1>>)
       /\ cpc'[n] = (IF j = Len(parts[p]) /\ p = Len(parts) THEN "next" ELSE "write")
  BY <1>1 DEF Types
<1>13. parts = Parts(n)
  BY DEF Parts
<1> HIDE DEF p, j, parts, s
<1>14. s = Parts(n)[p][j] /\ p = at[n][1] /\ j = at[n][2]
  BY <1>13 DEF s, p, j
<1> QED BY <1>1, <1>2, <1>3, <1>4, <1>5, <1>7, <1>9, <1>10, <1>11, <1>12, <1>13, <1>14, Zenon DEF CopyWritten

\* The copy of the main loop's PING belongs to no item.
LEMMA WritePingFacts ==
    ASSUME Types, WritePing
    PROVE  sent' = sent \/ \E s \in Shards : \E c \in Copy : Appended(s, c) /\ c.record = 0 /\ c.off = None
<1> DEFINE c == [node |-> "main", off |-> None, part |-> 1, record |-> 0]
<1>1. c \in Copy /\ c.record = 0 /\ c.off = None
  BY BoundsAssumption DEF Copy, None
<1>2. sent' = [sent EXCEPT ![mat] = Append(@, c)]
  BY DEF WritePing
<1> HIDE DEF c
<1>3. CASE mat \in Shards
  BY <1>1, <1>2, <1>3, AppendedFacts
<1>4. CASE mat \notin Shards
  BY <1>2, <1>4 DEF Types
<1> QED BY <1>3, <1>4

\* Only a consumer and the main loop hand copies to the shards.
LEMMA SentCases ==
    ASSUME [Next]_vars
    PROVE  \/ UNCHANGED sent
           \/ WritePing /\ UNCHANGED <<ran, answered, owed, finished, cpc, held, at, tracked, caller, source>>
           \/ \E n \in Nodes : WriteCopy(n) /\ UNCHANGED <<ran, answered, owed, finished, tracked, caller, held, source>>
<1> USE DEF trackerVars, readerVars, consumerVars, targetVars, mainVars, recorderVars
<1>1. ASSUME NEW n \in Nodes, Reader(n) PROVE UNCHANGED sent
  BY <1>1 DEF Reader, SendSnapshot, EndSnapshot, SendFence, SkipFence, ReadCommand, SendCommand,
              SkipProgress, StopReading
<1>2. ASSUME NEW n \in Nodes, Consumer(n), ~ WriteCopy(n) PROVE UNCHANGED sent
  BY <1>2 DEF Consumer, Receive, TakeSlot, Track, TrackRefused, FilterOut, Route
<1>3. ASSUME NEW n \in Nodes, WriteCopy(n)
      PROVE  UNCHANGED <<ran, answered, owed, finished, tracked, caller, held, source>>
  BY <1>3 DEF WriteCopy
<1>4. ASSUME WritePing PROVE UNCHANGED <<ran, answered, owed, finished, cpc, held, at, tracked, caller, source>>
  BY <1>4 DEF WritePing
<1>5. ASSUME \/ StartPing \/ CloseWriter \/ (\E n \in Nodes : ReaderDone(n)) \/ Recorder \/ Cancel \/ Die
             \/ \E s \in Shards : Execute(s) \/ Answer(s)
      PROVE  UNCHANGED sent
  BY <1>5 DEF Recorder, Cancel, Die, Execute, Answer, StartPing, CloseWriter, ReaderDone,
              StartFlush, StartLastFlush, Sample, Commit, CommitError, EndFlush
<1>6. UNCHANGED vars => UNCHANGED sent
  BY DEF vars
<1> HIDE DEF trackerVars, readerVars, consumerVars, targetVars, mainVars, recorderVars
<1> QED BY <1>1, <1>2, <1>3, <1>4, <1>5, <1>6 DEF Next, Main

\* A copy that was handed to a shard stays where it is.
LEMMA SentKept ==
    ASSUME TP!IndInv, Types, HeldIsRead, TrackedInOrder, WritePosition, [Next]_vars, NEW s \in Shards
    PROVE  /\ Len(sent[s]) \in Nat /\ Len(sent'[s]) \in Nat /\ Len(sent[s]) <= Len(sent'[s])
           /\ \A k \in 1..Len(sent[s]) : k \in 1..Len(sent'[s]) /\ sent'[s][k] = sent[s][k]
<1>1. Len(sent[s]) \in Nat
  BY LenProperties DEF Types
<1>2. ASSUME NEW t \in Shards, NEW c, Appended(t, c)
      PROVE  /\ Len(sent'[s]) \in Nat /\ Len(sent[s]) <= Len(sent'[s])
             /\ \A k \in 1..Len(sent[s]) : k \in 1..Len(sent'[s]) /\ sent'[s][k] = sent[s][k]
  BY <1>1, <1>2 DEF Appended
<1>3. CASE UNCHANGED sent
  BY <1>1, <1>3
<1>4. CASE WritePing
  BY <1>1, <1>2, <1>3, <1>4, WritePingFacts
<1>5. ASSUME NEW n \in Nodes, WriteCopy(n) PROVE \E t \in Shards : \E c : Appended(t, c)
  BY <1>5, WriteCopyFacts DEF CopyWritten
<1> QED BY <1>1, <1>2, <1>3, <1>4, <1>5, SentCases

\* A copy that was written stays in the log of its shard.
LEMMA CopyKept ==
    ASSUME TP!IndInv, Types, HeldIsRead, TrackedInOrder, WritePosition, [Next]_vars, NEW s \in Shards,
           NEW n, NEW off, NEW p, HasCopy(s, n, off, p)
    PROVE  HasCopy(s, n, off, p)'
BY SentKept DEF HasCopy, IsCopy

\* The shards of an item.
LEMMA ShardOf ==
    ASSUME NEW item \in Item \cup {NoItem}, NEW p \in 1..Len(item.cmd.parts), NEW j \in 1..Len(item.cmd.parts[p])
    PROVE  item.cmd.parts[p][j] \in Shards
<1>1. item.cmd.parts \in Seq(Seq(Shards) \ {<<>>})
  BY ItemFacts
<1>2. item.cmd.parts[p] \in Seq(Shards)
  BY <1>1, ElementOfSeq
<1> QED BY <1>2, ElementOfSeq

\* An item all of whose copies were written stays so.
LEMMA SentStays ==
    ASSUME TP!IndInv, Types, HeldIsRead, TrackedInOrder, WritePosition, [Next]_vars,
           NEW item \in Item, NEW n, Sent(n, item)
    PROVE  Sent(n, item)'
<1> SUFFICES ASSUME item.cmd.pass, NEW p \in 1..Len(item.cmd.parts), NEW j \in 1..Len(item.cmd.parts[p])
             PROVE  HasCopy(item.cmd.parts[p][j], n, item.off, p)'
  BY DEF Sent
<1>1. HasCopy(item.cmd.parts[p][j], n, item.off, p)
  BY DEF Sent
<1>2. item.cmd.parts[p][j] \in Shards
  BY ShardOf
<1> QED BY <1>1, <1>2, CopyKept

\* No answer without a command that ran, none of these without a copy.
LEMMA AnswersStep ==
    ASSUME TP!IndInv, Types, HeldIsRead, TrackedInOrder, WritePosition, AnswersFollow, [Next]_vars
    PROVE  /\ AnswersFollow'
           /\ \A s \in Shards : /\ answered[s] \in Nat /\ ran[s] \in Nat /\ answered'[s] \in Nat /\ ran'[s] \in Nat
                                /\ answered[s] <= answered'[s] /\ ran[s] <= ran'[s]
<1> USE DEF trackerVars, readerVars, consumerVars, targetVars, mainVars, recorderVars
<1>1. \A s \in Shards : Len(sent[s]) \in Nat /\ Len(sent'[s]) \in Nat /\ Len(sent[s]) <= Len(sent'[s])
  BY SentKept
<1>2. ran \in [Shards -> Nat] /\ answered \in [Shards -> Nat]
  BY DEF Types
<1>3. CASE UNCHANGED <<ran, answered>>
  BY <1>1, <1>2, <1>3 DEF AnswersFollow
<1>4. ASSUME NEW s \in Shards, Execute(s)
      PROVE  /\ ran' = [ran EXCEPT ![s] = ran[s] + 1] /\ ran[s] < Len(sent[s]) /\ UNCHANGED <<answered, sent>>
  BY <1>4 DEF Execute
<1>5. ASSUME NEW s \in Shards, Answer(s)
      PROVE  /\ answered' = [answered EXCEPT ![s] = answered[s] + 1] /\ answered[s] < ran[s]
             /\ UNCHANGED <<ran, sent>>
  BY <1>5 DEF Answer
<1>6. ASSUME NEW n \in Nodes, Reader(n) \/ Consumer(n) \/ ReaderDone(n) PROVE UNCHANGED <<ran, answered>>
  BY <1>6 DEF Reader, SendSnapshot, EndSnapshot, SendFence, SkipFence, ReadCommand, SendCommand,
              SkipProgress, StopReading, Consumer, Receive, TakeSlot, Track, TrackRefused, FilterOut,
              Route, WriteCopy, ReaderDone
<1>7. ASSUME StartPing \/ WritePing \/ CloseWriter \/ Recorder \/ Cancel \/ Die \/ UNCHANGED vars
      PROVE  UNCHANGED <<ran, answered>>
  BY <1>7 DEF Recorder, Cancel, Die, StartPing, WritePing, CloseWriter, vars,
              StartFlush, StartLastFlush, Sample, Commit, CommitError, EndFlush
<1> HIDE DEF trackerVars, readerVars, consumerVars, targetVars, mainVars, recorderVars
<1> DEFINE Goal == /\ AnswersFollow'
                   /\ \A s \in Shards : /\ answered[s] \in Nat /\ ran[s] \in Nat /\ answered'[s] \in Nat /\ ran'[s] \in Nat
                                        /\ answered[s] <= answered'[s] /\ ran[s] <= ran'[s]
<1>8. ASSUME NEW s \in Shards, Execute(s) PROVE Goal
  <2>1. ran' = [ran EXCEPT ![s] = ran[s] + 1] /\ ran[s] < Len(sent[s]) /\ answered' = answered /\ sent' = sent
    BY <1>4, <1>8
  <2>2. ASSUME NEW t \in Shards
        PROVE  /\ answered'[t] <= ran'[t] /\ ran'[t] <= Len(sent'[t]) /\ answered[t] \in Nat /\ ran[t] \in Nat
               /\ answered'[t] \in Nat /\ ran'[t] \in Nat /\ answered[t] <= answered'[t] /\ ran[t] <= ran'[t]
    <3>1. answered[t] \in Nat /\ ran[t] \in Nat /\ Len(sent[t]) \in Nat /\ answered[t] <= ran[t] /\ ran[t] <= Len(sent[t])
      BY <1>1, <1>2 DEF AnswersFollow
    <3>2. ran'[t] = IF t = s THEN ran[t] + 1 ELSE ran[t]
      BY <2>1 DEF Types
    <3> QED BY <2>1, <3>1, <3>2
  <2> QED BY <2>2 DEF AnswersFollow
<1>9. ASSUME NEW s \in Shards, Answer(s) PROVE Goal
  <2>1. answered' = [answered EXCEPT ![s] = answered[s] + 1] /\ answered[s] < ran[s] /\ ran' = ran /\ sent' = sent
    BY <1>5, <1>9
  <2>2. ASSUME NEW t \in Shards
        PROVE  /\ answered'[t] <= ran'[t] /\ ran'[t] <= Len(sent'[t]) /\ answered[t] \in Nat /\ ran[t] \in Nat
               /\ answered'[t] \in Nat /\ ran'[t] \in Nat /\ answered[t] <= answered'[t] /\ ran[t] <= ran'[t]
    <3>1. answered[t] \in Nat /\ ran[t] \in Nat /\ Len(sent[t]) \in Nat /\ answered[t] <= ran[t] /\ ran[t] <= Len(sent[t])
      BY <1>1, <1>2 DEF AnswersFollow
    <3>2. answered'[t] = IF t = s THEN answered[t] + 1 ELSE answered[t]
      BY <2>1 DEF Types
    <3> QED BY <2>1, <3>1, <3>2
  <2> QED BY <2>2 DEF AnswersFollow
<1>10. Goal
  <2> HIDE DEF Goal
  <2>1. UNCHANGED <<ran, answered>> => Goal
    BY <1>3 DEF Goal
  <2> QED BY <2>1, <1>6, <1>7, <1>8, <1>9 DEF Next, Main
<1> QED BY <1>10

\* The position of a consumer in its item.
LEMMA PositionStep ==
    ASSUME TP!IndInv, Types, HeldIsRead, TrackedInOrder, WritePosition, [Next]_vars
    PROVE  WritePosition'
<1> USE DEF trackerVars, readerVars, consumerVars, targetVars, mainVars, recorderVars
<1>1. ASSUME UNCHANGED <<cpc, held, at>> PROVE WritePosition'
  BY <1>1 DEF WritePosition, WriteAt, Parts
<1>2. ASSUME UNCHANGED <<held, at>>, NEW n \in Nodes, cpc' = [cpc EXCEPT ![n] = "done"] PROVE WritePosition'
  BY <1>2 DEF WritePosition, WriteAt, Parts, Types
<1>3. ASSUME NEW n \in Nodes, Consumer(n) PROVE WritePosition'
  <2>1. ASSUME NEW m \in Nodes \ {n} PROVE WriteAt(m)'
    <3>1. cpc'[m] = cpc[m] /\ held'[m] = held[m] /\ at'[m] = at[m]
      BY <1>3, ConsumerKeeps
    <3> QED BY <3>1 DEF WritePosition, WriteAt, Parts
  <2>2. ASSUME Receive(n) \/ TakeSlot(n) \/ Track(n) \/ TrackRefused(n) \/ FilterOut(n) PROVE cpc'[n] # "write"
    BY <2>2 DEF Receive, TakeSlot, Track, TrackRefused, FilterOut, Types
  <2>3. CASE Route(n)
    <3>1. /\ held[n].cmd.pass /\ held'[n] = held[n] /\ at'[n] = <<1, 1>>
          /\ cpc'[n] = IF Parts(n) = <<>> THEN "next" ELSE "write"
      BY <2>3 DEF Route, Types, Parts
    <3>2. Parts(n) \in Seq(Seq(Shards) \ {<<>>})
      BY ItemFacts DEF Types, Parts
    <3>3. Parts(n) # <<>> => 1 \in 1..Len(Parts(n)) /\ 1 \in 1..Len(Parts(n)[1])
      <4> HAVE Parts(n) # <<>>
      <4>1. 1 \in 1..Len(Parts(n))
        BY <3>2, EmptySeq
      <4>2. Parts(n)[1] \in Seq(Shards) /\ Parts(n)[1] # <<>>
        BY <3>2, <4>1, ElementOfSeq
      <4>3. 1 \in 1..Len(Parts(n)[1])
        BY <4>2, EmptySeq
      <4> QED BY <4>1, <4>3
    <3>4. Parts(n)' = Parts(n)
      BY <3>1 DEF Parts
    <3>5. WriteAt(n)'
      BY <3>1, <3>3, <3>4 DEF WriteAt
    <3> QED BY <2>1, <3>5 DEF WritePosition
  <2>4. CASE WriteCopy(n)
    <3>0. PICK p, j, s, c : CopyWritten(n, p, j, s, c)
      BY <2>4, WriteCopyFacts
    <3>1. /\ p = at[n][1] /\ j = at[n][2]
          /\ p \in 1..Len(Parts(n)) /\ j \in 1..Len(Parts(n)[p]) /\ Len(Parts(n)) \in Nat
          /\ Len(Parts(n)[p]) \in Nat /\ cpc[n] = "write"
          /\ at'[n] = (IF j < Len(Parts(n)[p]) THEN <<p, j + 1>> ELSE <<p + 1, 1>>)
          /\ cpc'[n] = (IF j = Len(Parts(n)[p]) /\ p = Len(Parts(n)) THEN "next" ELSE "write")
      BY <3>0, Zenon DEF CopyWritten
    <3>2. Parts(n)' = Parts(n) /\ held'[n] = held[n] /\ held[n].cmd.pass
      BY <2>4, <3>1 DEF WriteCopy, Parts, WritePosition, WriteAt
    <3>3. Parts(n) \in Seq(Seq(Shards) \ {<<>>})
      BY ItemFacts DEF Types, Parts
    <3>4. CASE j < Len(Parts(n)[p])
      <4>1. at'[n][1] = p /\ at'[n][2] = j + 1
        BY <3>1, <3>4
      <4>2. WriteAt(n)'
        BY <3>1, <3>2, <3>4, <4>1 DEF WriteAt
      <4> QED BY <2>1, <4>2 DEF WritePosition
    <3>5. CASE j = Len(Parts(n)[p]) /\ p < Len(Parts(n))
      <4>1. at'[n][1] = p + 1 /\ at'[n][2] = 1
        BY <3>1, <3>5
      <4>2. p + 1 \in 1..Len(Parts(n))
        BY <3>1, <3>5
      <4>3. Parts(n)[p + 1] \in Seq(Shards) /\ Parts(n)[p + 1] # <<>>
        BY <3>3, <4>2, ElementOfSeq
      <4>4. 1 \in 1..Len(Parts(n)[p + 1])
        BY <4>3, EmptySeq
      <4>5. WriteAt(n)'
        BY <3>2, <4>1, <4>2, <4>4 DEF WriteAt
      <4> QED BY <2>1, <4>5 DEF WritePosition
    <3>6. CASE j = Len(Parts(n)[p]) /\ p = Len(Parts(n))
      BY <2>1, <3>1, <3>6 DEF WritePosition, WriteAt
    <3> QED BY <3>1, <3>4, <3>5, <3>6
  <2> QED BY <1>3, <2>1, <2>2, <2>3, <2>4 DEF Consumer, WritePosition, WriteAt
<1> HIDE DEF trackerVars, readerVars, consumerVars, targetVars, mainVars, recorderVars
<1> QED BY <1>1, <1>2, <1>3, StepCases

\* What a consumer has written of its item, after a Write.
LEMMA WrittenSoFar ==
    ASSUME TP!IndInv, Types, HeldIsRead, TrackedInOrder, WritePosition, WrittenIsSent, [Next]_vars,
           NEW n \in Nodes, WriteCopy(n), NEW q \in 1..Len(Parts(n)), NEW i \in 1..Len(Parts(n)[q]),
           q < at[n][1] \/ (q = at[n][1] /\ i <= at[n][2]), NEW s, s = Parts(n)[q][i]
    PROVE  HasCopy(s, n, held[n].off, q)'
<1>0. held'[n] = held[n]
  BY DEF WriteCopy
<1> SUFFICES ASSUME NEW off, off = held[n].off PROVE HasCopy(s, n, off, q)'
  BY <1>0, Zenon
<1>1. s \in Shards
  BY ShardOf DEF Parts, Types
<1>a. PICK p, j, t, c : CopyWritten(n, p, j, t, c)
  BY WriteCopyFacts
<1>2. /\ p = at[n][1] /\ j = at[n][2] /\ t = Parts(n)[p][j] /\ t \in Shards
      /\ p \in 1..Len(Parts(n)) /\ j \in 1..Len(Parts(n)[p])
      /\ cpc[n] = "write" /\ Appended(t, c) /\ IsCopy(c, n, held[n].off, p)
  BY <1>a, Zenon DEF CopyWritten
<1>3. CASE q < p \/ (q = p /\ i < j)
  <2>1. HasCopy(s, n, off, q)
    BY <1>2, <1>3 DEF WrittenIsSent, WrittenAt
  <2> QED BY <1>1, <2>1, CopyKept
<1>4. CASE q = p /\ i = j
  <2>1. s = t /\ IsCopy(c, n, off, q)
    BY <1>2, <1>4
  <2>2. Appended(s, c)
    BY <1>2, <2>1
  <2>3. Len(sent[s]) + 1 \in 1..Len(sent'[s]) /\ sent'[s][Len(sent[s]) + 1] = c
    BY <2>2 DEF Appended
  <2> QED BY <2>1, <2>3 DEF HasCopy
<1> QED BY <1>2, <1>3, <1>4

\* What a consumer has written of the item it is at.
LEMMA WrittenStep ==
    ASSUME TP!IndInv, Types, HeldIsRead, TrackedInOrder, WritePosition, WrittenIsSent, [Next]_vars
    PROVE  WrittenIsSent'
<1> USE DEF trackerVars, readerVars, consumerVars, targetVars, mainVars, recorderVars
<1>0. ASSUME NEW n \in Nodes, cpc'[n] # "write" \/ (cpc'[n] = cpc[n] /\ held'[n] = held[n] /\ at'[n] = at[n])
      PROVE  WrittenAt(n)'
  <2> SUFFICES ASSUME cpc'[n] = "write", cpc[n] = "write", held'[n] = held[n], at'[n] = at[n],
                      NEW p \in 1..Len(Parts(n)), NEW j \in 1..Len(Parts(n)[p]),
                      p < at[n][1] \/ (p = at[n][1] /\ j < at[n][2])
               PROVE  HasCopy(Parts(n)[p][j], n, held[n].off, p)'
    BY <1>0 DEF WrittenAt, Parts
  <2>1. HasCopy(Parts(n)[p][j], n, held[n].off, p)
    BY DEF WrittenIsSent, WrittenAt
  <2>2. Parts(n)[p][j] \in Shards
    BY ShardOf DEF Parts, Types
  <2>3. \A s \in Shards : \A off : HasCopy(s, n, off, p) => HasCopy(s, n, off, p)'
    BY CopyKept
  <2>4. \A s, off : s = Parts(n)[p][j] /\ off = held[n].off => HasCopy(s, n, off, p)'
    BY <2>1, <2>2, <2>3, Zenon
  <2>5. Parts(n)' = Parts(n)
    BY DEF Parts
  <2> QED BY <2>4, <2>5, Zenon
<1>1. ASSUME UNCHANGED <<cpc, held, at>> PROVE WrittenIsSent'
  BY <1>0, <1>1 DEF WrittenIsSent
<1>2. ASSUME UNCHANGED <<held, at>>, NEW n \in Nodes, cpc' = [cpc EXCEPT ![n] = "done"] PROVE WrittenIsSent'
  <2>1. \A m \in Nodes : cpc'[m] = "done" \/ cpc'[m] = cpc[m]
    BY <1>2 DEF Types
  <2> QED BY <1>0, <1>2, <2>1 DEF WrittenIsSent
<1>3. ASSUME NEW n \in Nodes, Consumer(n) PROVE WrittenIsSent'
  <2>1. ASSUME NEW m \in Nodes \ {n} PROVE WrittenAt(m)'
    <3>1. cpc'[m] = cpc[m] /\ held'[m] = held[m] /\ at'[m] = at[m]
      BY <1>3, ConsumerKeeps
    <3> QED BY <1>0, <3>1
  <2>2. ASSUME Receive(n) \/ TakeSlot(n) \/ Track(n) \/ TrackRefused(n) \/ FilterOut(n) PROVE cpc'[n] # "write"
    BY <2>2 DEF Receive, TakeSlot, Track, TrackRefused, FilterOut, Types
  <2>3. CASE Route(n)
    <3>1. at'[n] = <<1, 1>>
      BY <2>3 DEF Route, Types
    <3>2. WrittenAt(n)'
      BY <3>1 DEF WrittenAt
    <3> QED BY <2>1, <3>2 DEF WrittenIsSent
  <2>4. CASE WriteCopy(n)
    <3>0. PICK p, j, s, c : CopyWritten(n, p, j, s, c)
      BY <2>4, WriteCopyFacts
    <3>1. /\ p = at[n][1] /\ j = at[n][2]
          /\ p \in 1..Len(Parts(n)) /\ j \in 1..Len(Parts(n)[p])
          /\ Len(Parts(n)) \in Nat /\ Len(Parts(n)[p]) \in Nat
          /\ at'[n] = (IF j < Len(Parts(n)[p]) THEN <<p, j + 1>> ELSE <<p + 1, 1>>)
      BY <3>0, Zenon DEF CopyWritten
    <3>2. Parts(n)' = Parts(n) /\ held'[n] = held[n]
      BY <2>4 DEF WriteCopy, Parts
    <3>3. Parts(n) \in Seq(Seq(Shards) \ {<<>>})
      BY ItemFacts DEF Types, Parts
    <3>4. ASSUME NEW q \in 1..Len(Parts(n)), NEW i \in 1..Len(Parts(n)[q]),
                 q < at'[n][1] \/ (q = at'[n][1] /\ i < at'[n][2])
          PROVE  q < p \/ (q = p /\ i <= j)
      <4>1. Parts(n)[q] \in Seq(Shards)
        BY <3>3, ElementOfSeq
      <4>2. q \in Int /\ i \in Int /\ p \in Int /\ j \in Int /\ Len(Parts(n)[q]) \in Nat
        BY <3>1, <4>1, LenProperties
      <4>3. CASE j < Len(Parts(n)[p])
        <5>1. at'[n][1] = p /\ at'[n][2] = j + 1
          BY <3>1, <4>3
        <5> QED BY <3>4, <4>2, <5>1
      <4>4. CASE j = Len(Parts(n)[p])
        <5>1. at'[n][1] = p + 1 /\ at'[n][2] = 1
          BY <3>1, <4>4
        <5>2. i >= 1 /\ i <= Len(Parts(n)[q])
          BY <4>2
        <5> QED BY <3>4, <4>2, <4>4, <5>1, <5>2
      <4> QED BY <3>1, <4>3, <4>4
    <3>5. WrittenAt(n)'
      <4> SUFFICES ASSUME NEW q \in 1..Len(Parts(n)), NEW i \in 1..Len(Parts(n)[q]),
                          q < at'[n][1] \/ (q = at'[n][1] /\ i < at'[n][2])
                   PROVE  HasCopy(Parts(n)[q][i], n, held[n].off, q)'
        BY <3>2 DEF WrittenAt
      <4>1. q < at[n][1] \/ (q = at[n][1] /\ i <= at[n][2])
        BY <3>1, <3>4
      <4>2. \A t : t = Parts(n)[q][i] => HasCopy(t, n, held[n].off, q)'
        BY <2>4, <4>1, WrittenSoFar
      <4> QED BY <3>2, <4>2, Zenon
    <3> QED BY <2>1, <3>5 DEF WrittenIsSent
  <2> QED BY <1>0, <1>3, <2>1, <2>2, <2>3, <2>4 DEF Consumer, WrittenIsSent
<1> HIDE DEF trackerVars, readerVars, consumerVars, targetVars, mainVars, recorderVars
<1> QED BY <1>1, <1>2, <1>3, StepCases

\* How far the tracker is behind the item a consumer holds.
LEMMA TrackedFacts ==
    ASSUME TP!IndInv, Types, TrackedInOrder, NEW n \in Nodes
    PROVE  /\ Len(tracked[n]) <= held[n].off + 1 \/ Len(tracked[n]) = 0
           /\ Len(tracked[n]) \in Nat /\ held[n].off \in Int
           /\ Len(tracked[n]) > 0 => held[n].off >= 0
           /\ held[n].off >= 0 /\ caller[n] # "refused" /\ cpc[n] # "track" => Len(tracked[n]) = held[n].off + 1
<1>1. Len(tracked[n]) \in Nat /\ held[n].off \in Int
  BY TrackerTypes, LenProperties, ItemFacts DEF Types
<1>2. /\ caller[n] = "refused" => Len(tracked[n]) <= held[n].off
      /\ caller[n] # "refused" => Len(tracked[n]) = IF held[n].off < 0 THEN 0
                                                    ELSE IF cpc[n] = "track" THEN held[n].off
                                                    ELSE held[n].off + 1
  BY DEF TrackedInOrder, TrackedAt
<1> QED BY <1>1, <1>2

\* An item the consumer is through with was written completely.
LEMMA HandledStep ==
    ASSUME Inv, [Next]_vars
    PROVE  HandledIsSent'
<1> USE DEF trackerVars, readerVars, consumerVars, targetVars, mainVars, recorderVars
<1>0. /\ TP!IndInv /\ Types /\ HeldIsRead /\ TrackedInOrder /\ WritePosition /\ SourceGrows /\ SourceIsDense
      /\ ChannelIsNext /\ HandledIsSent /\ WrittenIsSent
  BY DEF Inv, OrderInv, CopyInv
<1>1. Types' /\ SourceGrows' /\ HeldIsRead' /\ TrackedInOrder' /\ TP!IndInv'
  <2>1. TP!IndInv'
    BY <1>0, TrackerStep, TrackerInvStep DEF Inv, CopyInv, OwedInv
  <2> QED BY <2>1, TypesStep, OrderStep DEF OrderInv
<1>2. ASSUME NEW n \in Nodes, NEW i \in Positions(n), Handled(n, source[n][i].off) PROVE Sent(n, source[n][i])'
  <2>1. source[n][i] \in Item /\ source'[n][i] = source[n][i] /\ Sent(n, source[n][i])
    BY <1>0, <1>2, LastIsGreatest, SourceKept DEF HandledIsSent, HandledAt
  <2>2. \A item \in Item : Sent(n, item) => Sent(n, item)'
    BY <1>0, SentStays
  <2> QED BY <2>1, <2>2, Zenon
<1>3. ASSUME NEW n \in Nodes,
             \A i \in Positions(n) : \A off : off = source[n][i].off /\ Handled(n, off)' => Handled(n, off) \/ Sent(n, source[n][i])',
             source'[n] = source[n] \/ held'[n] = held[n]
      PROVE  HandledAt(n)'
  <2> SUFFICES ASSUME NEW i \in Positions(n)', Handled(n, source[n][i].off)' PROVE Sent(n, source[n][i])'
    BY DEF HandledAt
  <2>1. CASE i \in Positions(n)
    <3>1. source'[n][i] = source[n][i]
      BY <1>0, <2>1, SourceKept
    <3>2. Handled(n, source[n][i].off) \/ Sent(n, source[n][i])'
      BY <1>3, <2>1, <3>1, Zenon
    <3> QED BY <1>2, <2>1, <3>2
  <2>2. CASE i \notin Positions(n)
    <3>1. source'[n][i].off > held[n].off /\ source'[n][i].off \in Int /\ held[n].off \in Int
      BY <1>0, <1>1, <2>2, NewIsBehind
    <3>2. source'[n] # source[n]
      BY <2>2 DEF Positions
    <3> QED BY <1>3, <3>1, <3>2 DEF Handled
  <2> QED BY <2>1, <2>2
<1>4. ASSUME NEW n \in Nodes, held'[n] = held[n], tracked'[n] = tracked[n],
             cpc'[n] \in {"next", "done"} => cpc[n] \in {"next", "done"}
      PROVE  HandledAt(n)'
  BY <1>3, <1>4 DEF Handled
<1>5. ASSUME NEW n \in Nodes, UNCHANGED source, held'[n] = held[n], tracked'[n] = tracked[n], Sent(n, held[n])'
      PROVE  HandledAt(n)'
  <2>1. ASSUME NEW i \in Positions(n), NEW off, off = source[n][i].off, Handled(n, off)'
        PROVE  Handled(n, off) \/ Sent(n, source[n][i])'
    <3>1. CASE off = held[n].off
      <4>1. source[n][i] = held[n]
        BY <1>0, <2>1, <3>1, HeldIsUnique
      <4> QED BY <1>5, <4>1, Zenon
    <3>2. CASE off # held[n].off
      BY <1>5, <2>1, <3>2 DEF Handled
    <3> QED BY <3>1, <3>2
  <2> QED BY <1>3, <1>5, <2>1
<1>6. ASSUME NEW n \in Nodes, Consumer(n) PROVE HandledIsSent'
  <2>0. /\ UNCHANGED source
        /\ \A m \in Nodes \ {n} : cpc'[m] = cpc[m] /\ held'[m] = held[m] /\ tracked'[m] = tracked[m]
        /\ Receive(n) \/ held'[n] = held[n]
        /\ Track(n) \/ tracked'[n] = tracked[n]
    BY <1>0, <1>6, ConsumerKeeps
  <2>1. \A m \in Nodes \ {n} : HandledAt(m)'
    BY <1>4, <2>0
  <2> SUFFICES HandledAt(n)'
    BY <2>1 DEF HandledIsSent
  <2>2. CASE Receive(n)
    <3>1. /\ held'[n].off \in Int /\ held[n].off \in Int
          /\ \A i \in Positions(n) : source[n][i].off < held'[n].off => source[n][i].off <= held[n].off
      BY <1>0, <2>2, ReceivedIsNext
    <3>2. cpc[n] = "next" /\ tracked'[n] = tracked[n] /\ caller' = caller
      BY <2>2 DEF Receive
    <3>4. cpc'[n] \in {"next", "route", "track"}
      BY <2>2, <1>0 DEF Receive, Types
    <3>5. cpc'[n] = "next" => Len(tracked'[n]) <= held'[n].off
      <4>1. cpc'[n] = "next" => caller'[n] = "refused"
        BY <1>0, <2>2, <3>2 DEF Receive, Types
      <4> QED BY <1>1, <4>1 DEF TrackedInOrder, TrackedAt
    <3>6. Len(tracked[n]) \in Nat
      BY <1>0, TrackedFacts
    <3>7. ASSUME NEW i \in Positions(n), NEW off, off = source[n][i].off, Handled(n, off)'
          PROVE  Handled(n, off)
      <4>1. off \in Int
        BY <1>0, <3>7, LastIsGreatest
      <4>2. off < held'[n].off /\ off < Len(tracked[n])
        BY <3>1, <3>2, <3>4, <3>5, <3>6, <3>7, <4>1 DEF Handled
      <4>3. off <= held[n].off
        BY <3>1, <3>7, <4>2
      <4> QED BY <3>1, <3>2, <4>1, <4>2, <4>3 DEF Handled
    <3> QED BY <1>3, <2>0, <3>7
  <2>3. CASE TakeSlot(n)
    BY <1>4, <2>0, <2>3 DEF TakeSlot, T!Reserve
  <2>4. CASE Track(n)
    <3>1. cpc[n] = "track" /\ cpc'[n] = "route" /\ held'[n] = held[n] /\ caller[n] # "refused"
      BY <1>0, <2>4 DEF Track, Types, T!Register
    <3>2. held[n].off >= 0 /\ Len(tracked[n]) \in Nat /\ held[n].off \in Int
      BY <1>0, <3>1, TrackedFacts DEF HeldIsRead, HeldAt
    <3>3. Len(tracked[n]) = held[n].off
      BY <1>0, <3>1, <3>2 DEF TrackedInOrder, TrackedAt
    <3> QED BY <1>3, <3>1, <3>2, <3>3 DEF Handled
  <2>5. CASE TrackRefused(n)
    <3>1. caller'[n] = "refused" /\ held'[n] = held[n] /\ tracked'[n] = tracked[n]
      BY <1>0, <2>5, TrackerTypes DEF TrackRefused, T!Refuse
    <3>2. Len(tracked[n]) <= held[n].off /\ Len(tracked[n]) \in Nat /\ held[n].off \in Int
      BY <1>0, <1>1, <3>1, TrackedFacts DEF TrackedInOrder, TrackedAt
    <3> QED BY <1>3, <3>1, <3>2 DEF Handled
  <2>6. CASE FilterOut(n)
    <3>1. ~ held[n].cmd.pass /\ held'[n] = held[n] /\ tracked'[n] = tracked[n]
      BY <2>0, <2>6 DEF FilterOut, Receive, Track
    <3>2. Sent(n, held[n])'
      BY <3>1 DEF Sent
    <3> QED BY <1>5, <2>0, <3>1, <3>2
  <2>7. CASE Route(n)
    <3>1. held'[n] = held[n] /\ tracked'[n] = tracked[n] /\ cpc'[n] = IF Parts(n) = <<>> THEN "next" ELSE "write"
      BY <1>0, <2>0, <2>7 DEF Route, Receive, Track, Parts, Types
    <3>2. CASE Parts(n) = <<>>
      <4>1. Len(held'[n].cmd.parts) = 0
        BY <3>1, <3>2 DEF Parts
      <4>2. Sent(n, held[n])'
        BY <4>1 DEF Sent
      <4> QED BY <1>5, <2>0, <3>1, <4>2
    <3>3. CASE Parts(n) # <<>>
      BY <1>4, <3>1, <3>3
    <3> QED BY <3>2, <3>3
  <2>8. CASE WriteCopy(n)
    <3>0. PICK p, j, s, c : CopyWritten(n, p, j, s, c)
      BY <1>0, <2>8, WriteCopyFacts
    <3>1. /\ p = at[n][1] /\ j = at[n][2]
          /\ p \in 1..Len(Parts(n)) /\ j \in 1..Len(Parts(n)[p]) /\ Len(Parts(n)) \in Nat
          /\ Len(Parts(n)[p]) \in Nat
          /\ cpc'[n] = (IF j = Len(Parts(n)[p]) /\ p = Len(Parts(n)) THEN "next" ELSE "write")
      BY <3>0, Zenon DEF CopyWritten
    <3>2. held'[n] = held[n] /\ tracked'[n] = tracked[n]
      BY <2>0, <2>8 DEF WriteCopy, Receive, Track
    <3>3. CASE j = Len(Parts(n)[p]) /\ p = Len(Parts(n))
      <4>1. ASSUME NEW q \in 1..Len(Parts(n)), NEW i \in 1..Len(Parts(n)[q]), NEW t, t = Parts(n)[q][i]
            PROVE  HasCopy(t, n, held[n].off, q)'
        <5>1. q < at[n][1] \/ (q = at[n][1] /\ i <= at[n][2])
          BY <3>1, <3>3
        <5> QED BY <1>0, <2>8, <4>1, <5>1, WrittenSoFar
      <4>2. Parts(n)' = Parts(n)
        BY <3>2 DEF Parts
      <4>3. Sent(n, held[n])'
        BY <4>1, <4>2 DEF Sent, Parts
      <4> QED BY <1>5, <2>0, <3>2, <4>3
    <3>4. CASE ~ (j = Len(Parts(n)[p]) /\ p = Len(Parts(n)))
      <4>1. cpc'[n] = "write"
        BY <3>1, <3>4
      <4> QED BY <1>4, <3>2, <4>1
    <3> QED BY <3>3, <3>4
  <2> QED BY <1>6, <2>2, <2>3, <2>4, <2>5, <2>6, <2>7, <2>8 DEF Consumer
<1>7. ASSUME UNCHANGED <<cpc, held, tracked>> PROVE HandledIsSent'
  BY <1>4, <1>7 DEF HandledIsSent
<1>8. ASSUME UNCHANGED <<held, tracked>>, NEW n \in Nodes, cpc[n] = "next", cpc' = [cpc EXCEPT ![n] = "done"]
      PROVE  HandledIsSent'
  <2>1. \A m \in Nodes : cpc'[m] \in {"next", "done"} => cpc[m] \in {"next", "done"}
    BY <1>0, <1>8 DEF Types
  <2> QED BY <1>4, <1>8, <2>1 DEF HandledIsSent
<1> HIDE DEF trackerVars, readerVars, consumerVars, targetVars, mainVars, recorderVars
<1> QED BY <1>6, <1>7, <1>8, StepCases

\* Track adds a record without parts.
LEMMA TrackFacts ==
    ASSUME TP!IndInv, Types, HeldIsRead, TrackedInOrder, OwedIsOutstanding, NEW n \in Nodes, Track(n)
    PROVE  /\ cpc[n] = "track" /\ cpc'[n] = "route" /\ UNCHANGED <<held, sent, answered, ran, source, finished>>
           /\ held[n].off \in Nat /\ Len(tracked[n]) = held[n].off
           /\ Len(tracked'[n]) = Len(tracked[n]) + 1 /\ Len(owed[n]) = Len(tracked[n])
           /\ Len(owed'[n]) = Len(owed[n]) + 1 /\ owed'[n][Len(owed[n]) + 1] = <<>>
           /\ \A r \in 1..Len(owed[n]) : owed'[n][r] = owed[n][r]
<1> USE DEF trackerVars, readerVars, consumerVars, targetVars, mainVars, recorderVars
<1>1. /\ cpc[n] = "track" /\ cpc'[n] = "route" /\ UNCHANGED <<held, sent, answered, ran, source, finished>>
      /\ caller[n] = "reserved" /\ tracked'[n] = Append(tracked[n], held[n].off)
      /\ owed'[n] = Append(owed[n], <<>>)
  BY TrackerTypes DEF Track, T!Register, Types
<1>2. held[n].off >= 0 /\ held[n].off \in Int /\ Len(tracked[n]) \in Nat
  BY <1>1, TrackedFacts DEF HeldIsRead, HeldAt
<1>3. Len(tracked[n]) = held[n].off
  BY <1>1, <1>2 DEF TrackedInOrder, TrackedAt
<1>4. held[n].off \in Offsets
  <2>1. held[n].off \in None..MaxCmds
    BY ItemFacts DEF Types
  <2>2. MaxCmds \in Nat /\ None \in Int
    BY BoundsAssumption DEF None
  <2> QED BY <1>2, <2>1, <2>2 DEF Offsets
<1>5. Len(tracked'[n]) = Len(tracked[n]) + 1
  BY <1>1, <1>4, TrackerTypes, AppendProperties
<1>6. owed[n] \in Seq(Seq(Int)) /\ <<>> \in Seq(Int) /\ Len(owed[n]) = Len(tracked[n])
  BY DEF Types, OwedIsOutstanding
<1>7. /\ Len(owed'[n]) = Len(owed[n]) + 1 /\ owed'[n][Len(owed[n]) + 1] = <<>>
      /\ \A r \in 1..Len(owed[n]) : owed'[n][r] = owed[n][r]
  BY <1>1, <1>6, AppendProperties
<1> QED BY <1>1, <1>2, <1>3, <1>5, <1>6, <1>7

\* SplitCompletion counts the copies of each part; without parts the record is done.
LEMMA RouteFacts ==
    ASSUME TP!IndInv, Types, HeldIsRead, TrackedInOrder, OwedIsOutstanding, NEW n \in Nodes, Route(n)
    PROVE  /\ cpc[n] = "route" /\ held[n].cmd.pass /\ UNCHANGED <<held, sent, answered, ran, source, tracked, caller>>
           /\ at'[n] = <<1, 1>> /\ cpc'[n] = IF Parts(n) = <<>> THEN "next" ELSE "write"
           /\ held[n].off \in Int /\ Len(owed[n]) = Len(tracked[n]) /\ Len(owed'[n]) = Len(owed[n])
           /\ held[n].off < 0 => owed'[n] = owed[n] /\ finished' = finished
           /\ held[n].off >= 0 =>
                 /\ Len(tracked[n]) = held[n].off + 1
                 /\ \A r \in 1..Len(owed[n]) : r # held[n].off + 1 => owed'[n][r] = owed[n][r]
                 /\ owed'[n][held[n].off + 1] = [p \in 1..Len(Parts(n)) |-> Len(Parts(n)[p])]
                 /\ Parts(n) = <<>> => finished'[n] = finished[n] \cup {held[n].off + 1}
           /\ Parts(n) # <<>> => finished' = finished
<1> USE DEF trackerVars, readerVars, consumerVars, targetVars, mainVars, recorderVars
<1> DEFINE count == [p \in 1..Len(Parts(n)) |-> Len(Parts(n)[p])]
<1>1. /\ cpc[n] = "route" /\ held[n].cmd.pass /\ UNCHANGED <<held, sent, answered, ran, source>>
      /\ at'[n] = <<1, 1>> /\ cpc'[n] = IF Parts(n) = <<>> THEN "next" ELSE "write"
      /\ IF Parts(n) = <<>> THEN Consumed(n) ELSE UNCHANGED trackerVars
      /\ owed' = IF held[n].off < 0 THEN owed ELSE [owed EXCEPT ![n][Len(tracked[n])] = count]
  BY DEF Route, Types, Parts
<1>2. caller[n] # "refused" /\ held[n].off \in Int
  BY <1>1, TrackedFacts DEF HeldIsRead, HeldAt
<1>3. held[n].off >= 0 => Len(tracked[n]) = held[n].off + 1
  BY <1>1, <1>2, TrackedFacts
<1>4. owed[n] \in Seq(Seq(Int)) /\ Len(owed[n]) = Len(tracked[n])
  BY DEF Types, OwedIsOutstanding
<1>5. count \in Seq(Int)
  <2>1. Parts(n) \in Seq(Seq(Shards) \ {<<>>})
    BY ItemFacts DEF Types, Parts
  <2> QED BY <2>1, IsASeq, LenProperties, ElementOfSeq
<1> HIDE DEF count
<1>6. held[n].off < 0 => owed'[n] = owed[n]
  BY <1>1
<1>7. ASSUME held[n].off >= 0
      PROVE  /\ Len(owed'[n]) = Len(owed[n]) /\ owed'[n][held[n].off + 1] = count
             /\ \A r \in 1..Len(owed[n]) : r # held[n].off + 1 => owed'[n][r] = owed[n][r]
  <2> DEFINE k == Len(tracked[n])
  <2>1. owed'[n] = [owed[n] EXCEPT ![k] = count]
    BY <1>1, <1>2, <1>7 DEF Types
  <2>2. k \in 1..Len(owed[n]) /\ k = held[n].off + 1
    BY <1>2, <1>3, <1>4, <1>7
  <2> HIDE DEF k
  <2>3. /\ Len(owed'[n]) = Len(owed[n])
        /\ \A r \in 1..Len(owed[n]) : owed'[n][r] = IF r = k THEN count ELSE owed[n][r]
    BY <1>4, <1>5, <2>1, <2>2, ExceptSeq
  <2> QED BY <2>2, <2>3
<1>8. UNCHANGED <<tracked, caller>>
  BY <1>1, CompleteFacts DEF Consumed
<1>9. /\ Parts(n) # <<>> => finished' = finished
      /\ held[n].off < 0 => finished' = finished
  BY <1>1, CompleteFacts DEF Consumed
<1>10. held[n].off >= 0 /\ Parts(n) = <<>> => finished'[n] = finished[n] \cup {held[n].off + 1}
  <2> HAVE held[n].off >= 0 /\ Parts(n) = <<>>
  <2>1. T!Complete(n, Len(tracked[n]))
    BY <1>1, <1>2 DEF Consumed
  <2>2. finished' = [finished EXCEPT ![n] = finished[n] \cup {Len(tracked[n])}]
    BY <2>1, CompleteFacts
  <2> QED BY <1>3, <2>2, TrackerTypes
<1> QED BY <1>1, <1>2, <1>3, <1>4, <1>6, <1>7, <1>8, <1>9, <1>10 DEF count

\* A filtered command is done at once.
LEMMA FilterFacts ==
    ASSUME TP!IndInv, Types, HeldIsRead, TrackedInOrder, NEW n \in Nodes, FilterOut(n)
    PROVE  /\ cpc[n] = "route" /\ cpc'[n] = "next" /\ ~ held[n].cmd.pass
           /\ UNCHANGED <<held, sent, answered, ran, source, tracked, owed>> /\ held[n].off \in Int
           /\ held[n].off < 0 => finished' = finished
           /\ held[n].off >= 0 => finished'[n] = finished[n] \cup {held[n].off + 1}
<1> USE DEF trackerVars, readerVars, consumerVars, targetVars, mainVars, recorderVars
<1>1. /\ cpc[n] = "route" /\ cpc'[n] = "next" /\ ~ held[n].cmd.pass /\ Consumed(n)
      /\ UNCHANGED <<held, sent, answered, ran, source, owed>>
  BY DEF FilterOut, Types
<1>2. caller[n] # "refused" /\ held[n].off \in Int
  BY <1>1, TrackedFacts DEF HeldIsRead, HeldAt
<1>3. held[n].off >= 0 => Len(tracked[n]) = held[n].off + 1
  BY <1>1, <1>2, TrackedFacts
<1>4. UNCHANGED tracked /\ (held[n].off < 0 => finished' = finished)
  BY <1>1, CompleteFacts DEF Consumed
<1>5. held[n].off >= 0 => finished'[n] = finished[n] \cup {held[n].off + 1}
  <2> HAVE held[n].off >= 0
  <2>1. T!Complete(n, Len(tracked[n]))
    BY <1>1, <1>2 DEF Consumed
  <2>2. finished' = [finished EXCEPT ![n] = finished[n] \cup {Len(tracked[n])}]
    BY <2>1, CompleteFacts
  <2> QED BY <1>3, <2>2, TrackerTypes
<1> QED BY <1>1, <1>2, <1>4, <1>5

\* Who changes counters and records, and who hands out or answers copies.
LEMMA OwedCases ==
    ASSUME [Next]_vars
    PROVE  \/ \E n \in Nodes : Consumer(n)
           \/ \E s \in Shards : Answer(s) /\ UNCHANGED <<cpc, held, at, tracked, caller, source, sent, ran>>
           \/ UNCHANGED <<owed, finished, tracked, answered>>
<1> USE DEF trackerVars, readerVars, consumerVars, targetVars, mainVars, recorderVars
<1>1. ASSUME NEW n \in Nodes, Reader(n) \/ ReaderDone(n) PROVE UNCHANGED <<owed, finished, tracked, answered>>
  BY <1>1 DEF Reader, SendSnapshot, EndSnapshot, SendFence, SkipFence, ReadCommand, SendCommand,
              SkipProgress, StopReading, ReaderDone
<1>2. ASSUME NEW s \in Shards, Answer(s) PROVE UNCHANGED <<cpc, held, at, tracked, caller, source, sent, ran>>
  <2>1. UNCHANGED <<sent, ran>>
    BY <1>2 DEF Answer
  <2> QED BY <1>2, <2>1, Elsewhere
<1>3. ASSUME \/ StartPing \/ WritePing \/ CloseWriter \/ Recorder \/ Cancel \/ Die
             \/ \E s \in Shards : Execute(s)
             \/ UNCHANGED vars
      PROVE  UNCHANGED <<owed, finished, tracked, answered>>
  BY <1>3 DEF Recorder, Cancel, Die, Execute, StartPing, WritePing, CloseWriter, vars, T!Cancel,
              StartFlush, StartLastFlush, Sample, Commit, CommitError, EndFlush
<1> HIDE DEF trackerVars, readerVars, consumerVars, targetVars, mainVars, recorderVars
<1> QED BY <1>1, <1>2, <1>3 DEF Next, Main

\* A record keeps its parts, and none is removed.
LEMMA RecordsKept ==
    ASSUME TP!IndInv, Types, HeldIsRead, TrackedInOrder, OwedIsOutstanding, OwedHasParts, CopiesAreRecords,
           AnswersFollow, [Next]_vars, NEW n \in Nodes, NEW r \in 1..Len(tracked[n])
    PROVE  /\ r \in 1..Len(tracked'[n])
           /\ DOMAIN owed[n][r] \subseteq DOMAIN owed'[n][r]
<1>0. Len(tracked[n]) \in Nat /\ Len(owed[n]) = Len(tracked[n]) /\ owed[n][r] \in Seq(Int)
  <2>1. Len(tracked[n]) \in Nat /\ Len(owed[n]) = Len(tracked[n]) /\ owed[n] \in Seq(Seq(Int))
    BY TrackedFacts DEF OwedIsOutstanding, Types
  <2> QED BY <2>1, ElementOfSeq
<1>1. CASE UNCHANGED <<owed, finished, tracked, answered>>
  BY <1>1
<1>2. ASSUME NEW s \in Shards, Answer(s), UNCHANGED tracked
      PROVE  r \in 1..Len(tracked'[n]) /\ DOMAIN owed[n][r] \subseteq DOMAIN owed'[n][r]
  <2> DEFINE c == sent[s][answered[s] + 1]
  <2>1. owed' = owed \/ Decremented(owed', owed, c.node, c.record, c.part)
    BY <1>2, CallbackFacts
  <2> HIDE DEF c
  <2>2. CASE Decremented(owed', owed, c.node, c.record, c.part)
    <3>1. owed'[n][r] = owed[n][r] \/ Len(owed'[n][r]) = Len(owed[n][r])
      BY <1>0, <2>2 DEF Decremented
    <3>2. owed' \in [Nodes -> Seq(Seq(Int))] /\ Len(owed'[n]) = Len(owed[n])
      BY <2>2 DEF Decremented
    <3>3. owed'[n][r] \in Seq(Int)
      BY <1>0, <3>2, ElementOfSeq
    <3> QED BY <1>0, <1>2, <3>1, <3>3, LenProperties
  <2> QED BY <1>2, <2>1, <2>2
<1>3. ASSUME NEW m \in Nodes, Consumer(m)
      PROVE  r \in 1..Len(tracked'[n]) /\ DOMAIN owed[n][r] \subseteq DOMAIN owed'[n][r]
  <2>1. CASE n # m
    BY <1>3, <2>1, ConsumerKeeps
  <2>2. CASE n = m /\ Track(n)
    BY <1>0, <2>2, TrackFacts
  <2>3. CASE n = m /\ Route(n)
    <3>0. Route(n)
      BY <2>3
    <3>1. /\ held[n].off \in Int /\ cpc[n] = "route" /\ tracked' = tracked
          /\ held[n].off < 0 => owed'[n] = owed[n]
          /\ held[n].off >= 0 => \A i \in 1..Len(owed[n]) : i # held[n].off + 1 => owed'[n][i] = owed[n][i]
      BY <3>0, RouteFacts, Zenon
    <3>2. r # held[n].off + 1 => owed'[n][r] = owed[n][r]
      BY <1>0, <3>1
    <3>3. r = held[n].off + 1 => owed[n][r] = <<>>
      BY <3>1 DEF OwedHasParts
    <3> QED BY <3>1, <3>2, <3>3
  <2>4. CASE n = m /\ (Receive(n) \/ TakeSlot(n) \/ TrackRefused(n) \/ FilterOut(n) \/ WriteCopy(n))
    <3>1. UNCHANGED owed
      BY <2>4 DEF Receive, TakeSlot, TrackRefused, FilterOut, WriteCopy
    <3>2. tracked'[n] = tracked[n]
      BY <2>4, CompleteFacts DEF Receive, TakeSlot, TrackRefused, FilterOut, WriteCopy, Consumed, trackerVars, T!Reserve, T!Refuse
    <3> QED BY <3>1, <3>2
  <2> QED BY <1>3, <2>1, <2>2, <2>3, <2>4 DEF Consumer
<1> QED BY <1>1, <1>2, <1>3, OwedCases

\* Each copy of a tracked item names the record and the part it is counted in.
LEMMA RecordsStep ==
    ASSUME Inv, [Next]_vars
    PROVE  CopiesAreRecords'
<1>0. /\ TP!IndInv /\ Types /\ HeldIsRead /\ TrackedInOrder /\ WritePosition /\ OwedIsOutstanding /\ OwedHasParts
      /\ CopiesAreRecords /\ AnswersFollow
  BY DEF Inv, OrderInv, CopyInv, OwedInv
<1> DEFINE Good(c) == /\ c.record = IF c.off < 0 THEN 0 ELSE c.off + 1
                      /\ c.record # 0 => /\ c.node \in Nodes
                                         /\ c.record \in 1..Len(tracked[c.node])
                                         /\ c.part \in DOMAIN owed[c.node][c.record]
           Goal(c) == /\ c.record = IF c.off < 0 THEN 0 ELSE c.off + 1
                      /\ c.record # 0 => /\ c.node \in Nodes
                                         /\ c.record \in 1..Len(tracked'[c.node])
                                         /\ c.part \in DOMAIN owed'[c.node][c.record]
<1>1. ASSUME NEW c, Good(c) PROVE Goal(c)
  <2>1. CASE c.record = 0
    BY <1>1, <2>1
  <2>2. CASE c.record # 0
    BY <1>0, <1>1, <2>2, RecordsKept
  <2> QED BY <2>1, <2>2
<1>2. ASSUME NEW s \in Shards, NEW k \in 1..Len(sent[s]) PROVE Goal(sent'[s][k])
  <2>1. sent'[s][k] = sent[s][k]
    BY <1>0, SentKept
  <2>2. Good(sent[s][k])
    BY <1>0 DEF CopiesAreRecords
  <2> HIDE DEF Good, Goal
  <2> QED BY <1>1, <2>1, <2>2
<1>3. ASSUME NEW t \in Shards, NEW c, Appended(t, c), Goal(c), NEW s \in Shards, NEW k \in 1..Len(sent'[s])
      PROVE  Goal(sent'[s][k])
  <2>1. k \in 1..Len(sent[s]) \/ sent'[s][k] = c
    BY <1>3 DEF Appended
  <2> HIDE DEF Goal
  <2> QED BY <1>2, <1>3, <2>1
<1>4. CASE UNCHANGED sent
  <2>1. ASSUME NEW s \in Shards, NEW k \in 1..Len(sent'[s]) PROVE Goal(sent'[s][k])
    <3> HIDE DEF Goal
    <3> QED BY <1>2, <1>4
  <2> QED BY <2>1 DEF CopiesAreRecords
<1>5. ASSUME NEW t \in Shards, NEW c, Appended(t, c), Goal(c) PROVE CopiesAreRecords'
  <2>1. ASSUME NEW s \in Shards, NEW k \in 1..Len(sent'[s]) PROVE Goal(sent'[s][k])
    <3> HIDE DEF Goal
    <3> QED BY <1>3, <1>5
  <2> QED BY <2>1 DEF CopiesAreRecords
<1>6. CASE WritePing
  <2>1. ASSUME NEW t \in Shards, NEW c \in Copy, Appended(t, c), c.record = 0, c.off = None PROVE CopiesAreRecords'
    <3>1. Goal(c)
      BY <2>1, BoundsAssumption DEF None
    <3> HIDE DEF Goal
    <3> QED BY <1>5, <2>1, <3>1
  <2> QED BY <1>0, <1>4, <1>6, <2>1, WritePingFacts
<1>7. ASSUME NEW n \in Nodes, WriteCopy(n), UNCHANGED <<owed, tracked>> PROVE CopiesAreRecords'
  <2>0. PICK p, j, s, c : CopyWritten(n, p, j, s, c)
    BY <1>0, <1>7, WriteCopyFacts
  <2>1. /\ p \in 1..Len(Parts(n)) /\ s \in Shards /\ Appended(s, c) /\ IsCopy(c, n, held[n].off, p) /\ cpc[n] = "write"
        /\ c.record = (IF held[n].off < 0 THEN 0 ELSE held[n].off + 1)
        /\ held[n].off >= 0 => held[n].off + 1 = Len(tracked[n])
        /\ held[n].off \in Int
    BY <2>0, Zenon DEF CopyWritten
  <2>2. held[n].off >= 0 => Len(owed[n][held[n].off + 1]) = Len(Parts(n)) /\ owed[n][held[n].off + 1] \in Seq(Int)
    <3> HAVE held[n].off >= 0
    <3>1. Len(owed[n]) = Len(tracked[n]) /\ owed[n] \in Seq(Seq(Int))
      BY <1>0 DEF OwedIsOutstanding, Types
    <3>2. held[n].off + 1 \in 1..Len(owed[n])
      BY <2>1, <3>1
    <3>3. owed[n][held[n].off + 1] \in Seq(Int)
      BY <3>1, <3>2, ElementOfSeq
    <3> QED BY <1>0, <2>1, <3>3 DEF OwedHasParts
  <2>3. held[n].off >= 0 => p \in DOMAIN owed[n][held[n].off + 1]
    BY <2>1, <2>2, LenProperties
  <2>4. Goal(c)
    BY <1>7, <2>1, <2>3 DEF IsCopy
  <2> HIDE DEF Goal
  <2> QED BY <1>5, <2>1, <2>4
<1> QED BY <1>4, <1>6, <1>7, SentCases

\* On a shard the snapshot of a node stays in front of its commands.
LEMMA SnapshotStep ==
    ASSUME Inv, [Next]_vars
    PROVE  SnapshotIsFirst'
<1>0. /\ TP!IndInv /\ Types /\ HeldIsRead /\ TrackedInOrder /\ WritePosition /\ SourceGrows
      /\ CopiesAreRecords /\ SnapshotIsFirst /\ HandledIsSent
  BY DEF Inv, OrderInv, CopyInv
<1>1. Types' /\ SourceGrows'
  BY TypesStep, OrderStep DEF OrderInv
<1> DEFINE Front(s, k, n, item) ==
              item.off < 0 /\ item.cmd.pass =>
                  \A p \in 1..Len(item.cmd.parts) : \A j \in 1..Len(item.cmd.parts[p]) :
                      item.cmd.parts[p][j] = s => \E l \in 1..k : IsCopy(sent[s][l], n, item.off, p)
<1>2. ASSUME NEW s \in Shards, NEW k \in 1..Len(sent[s]), NEW n, NEW item, Front(s, k, n, item)
      PROVE  Front(s, k, n, item)'
  <2>1. \A l \in 1..k : sent'[s][l] = sent[s][l]
    BY <1>0, SentKept
  <2> QED BY <1>2, <2>1 DEF IsCopy
<1>3. ASSUME NEW n \in Nodes, NEW i \in Positions(n)', i \notin Positions(n), Len(tracked[n]) > 0
      PROVE  source'[n][i].off >= 0
  <2>1. source'[n][i].off > held[n].off /\ source'[n][i].off \in Int /\ held[n].off \in Int
    BY <1>0, <1>1, <1>3, NewIsBehind
  <2>2. held[n].off >= 0
    BY <1>0, <1>3, TrackedFacts
  <2> QED BY <2>1, <2>2
\* An old copy.
<1>4. ASSUME NEW s \in Shards, NEW k \in 1..Len(sent[s]), sent[s][k].record # 0,
             NEW n, n = sent[s][k].node, NEW i \in Positions(n)', NEW item, item = source'[n][i]
      PROVE  Front(s, k, n, item)'
  <2>1. n \in Nodes /\ Len(tracked[n]) > 0
    <3>1. n \in Nodes /\ sent[s][k].record \in 1..Len(tracked[n])
      BY <1>0, <1>4 DEF CopiesAreRecords
    <3> QED BY <1>0, <3>1, TrackedFacts
  <2>2. CASE i \in Positions(n)
    <3>1. source'[n][i] = source[n][i]
      BY <1>0, <2>1, <2>2, SourceKept
    <3>2. Front(s, k, n, item)
      <4>1. Front(s, k, sent[s][k].node, source[sent[s][k].node][i])
        BY <1>0, <1>4, <2>2 DEF SnapshotIsFirst
      <4> HIDE DEF Front
      <4>2. source[sent[s][k].node][i] = item /\ sent[s][k].node = n
        BY <1>4, <3>1
      <4> QED BY <4>1, <4>2, Zenon
    <3> HIDE DEF Front
    <3> QED BY <1>2, <3>2
  <2>3. CASE i \notin Positions(n)
    <3>1. item.off >= 0 /\ item.off \in Int
      BY <1>0, <1>1, <1>3, <1>4, <2>1, <2>3, NewIsBehind
    <3> QED BY <3>1
  <2> QED BY <2>2, <2>3
\* A new copy: what comes before the item the consumer holds was written.
<1>5. ASSUME NEW m \in Nodes, WriteCopy(m), UNCHANGED source,
             NEW s \in Shards, NEW k \in 1..Len(sent'[s]), k \notin 1..Len(sent[s]), sent'[s][k].record # 0,
             NEW n, n = sent'[s][k].node, NEW i \in Positions(n)', NEW item, item = source'[n][i]
      PROVE  Front(s, k, n, item)'
  <2>0. PICK p, j, t, c : CopyWritten(m, p, j, t, c)
    BY <1>0, <1>5, WriteCopyFacts
  <2>1. /\ Appended(t, c) /\ IsCopy(c, m, held[m].off, p)
        /\ c.record = (IF held[m].off < 0 THEN 0 ELSE held[m].off + 1)
        /\ held[m].off \in Int
    BY <2>0, Zenon DEF CopyWritten
  <2>2. k = Len(sent[s]) + 1 /\ sent'[s][k] = c /\ Len(sent[s]) \in Nat
    BY <1>5, <2>1 DEF Appended
  <2>3. n = m /\ held[n].off >= 0 /\ held[n].off \in Int
    BY <1>5, <2>1, <2>2 DEF IsCopy
  <2>4. i \in Positions(n) /\ item = source[n][i] /\ item.off \in Int
    <3>1. i \in Positions(n) /\ item = source[n][i]
      BY <1>5 DEF Positions
    <3> QED BY <1>0, <2>3, <3>1, LastIsGreatest
  <2>5. item.off < 0 => Sent(n, item)
    <3>1. item.off < 0 => Handled(n, item.off)
      BY <1>0, <2>3, <2>4, TrackedFacts DEF Handled
    <3> QED BY <1>0, <2>3, <2>4, <3>1 DEF HandledIsSent, HandledAt
  <2>6. \A l \in 1..Len(sent[s]) : l \in 1..k /\ sent'[s][l] = sent[s][l]
    BY <1>0, <2>2, SentKept
  <2>7. ASSUME item.off < 0, item.cmd.pass, NEW q \in 1..Len(item.cmd.parts), NEW h \in 1..Len(item.cmd.parts[q]),
               item.cmd.parts[q][h] = s
        PROVE  \E l \in 1..k : IsCopy(sent'[s][l], n, item.off, q)
    <3>1. HasCopy(s, n, item.off, q)
      BY <2>5, <2>7 DEF Sent
    <3> QED BY <2>6, <3>1 DEF HasCopy
  <2> QED BY <2>7 DEF IsCopy
<1>6. ASSUME WritePing, NEW s \in Shards, NEW k \in 1..Len(sent'[s]), k \notin 1..Len(sent[s])
      PROVE  sent'[s][k].record = 0
  <2>1. ASSUME NEW t \in Shards, NEW c, Appended(t, c), c.record = 0 PROVE sent'[s][k].record = 0
    BY <1>6, <2>1 DEF Appended
  <2> QED BY <1>0, <1>6, <2>1, WritePingFacts
<1>7. ASSUME NEW s \in Shards, NEW k \in 1..Len(sent'[s]), sent'[s][k].record # 0,
             NEW n, n = sent'[s][k].node, NEW i \in Positions(n)', NEW item, item = source'[n][i]
      PROVE  Front(s, k, n, item)'
  <2> HIDE DEF Front
  <2>1. CASE k \in 1..Len(sent[s])
    <3>1. sent'[s][k] = sent[s][k]
      BY <1>0, <2>1, SentKept
    <3> QED BY <1>4, <1>7, <2>1, <3>1
  <2>2. CASE k \notin 1..Len(sent[s])
    BY <1>5, <1>6, <1>7, <2>2, SentCases
  <2> QED BY <2>1, <2>2
<1> QED BY <1>7 DEF SnapshotIsFirst

\* Every step keeps what is known of the copies.
LEMMA CopyStep ==
    ASSUME Inv, [Next]_vars
    PROVE  CopyInv'
<1>0. /\ TP!IndInv /\ Types /\ HeldIsRead /\ TrackedInOrder /\ WritePosition /\ WrittenIsSent /\ AnswersFollow
  BY DEF Inv, OrderInv, CopyInv
<1> QED BY <1>0, AnswersStep, PositionStep, HandledStep, WrittenStep, RecordsStep, SnapshotStep DEF CopyInv
-----------------------------------------------------------------------------
(***************************************************************************)
(* The counters.                                                           *)
(***************************************************************************)
\* A copy handed to a shard is outstanding for its own part, and for no other.
LEMMA AppendedOutstanding ==
    ASSUME Types, AnswersFollow, NEW s \in Shards, NEW c, Appended(s, c), answered' = answered, NEW n, NEW r, NEW p,
           NEW t \in Shards, NEW k \in Nat
    PROVE  <<t, k>> \in OutstandingOf(sent', answered', n, r, p) <=>
               \/ <<t, k>> \in OutstandingOf(sent, answered, n, r, p)
               \/ c.node = n /\ c.record = r /\ c.part = p /\ t = s /\ k = Len(sent[s]) + 1
<1> DEFINE Is(copy) == copy.node = n /\ copy.record = r /\ copy.part = p
<1>1. answered[t] \in Nat /\ answered[t] <= Len(sent[t]) /\ Len(sent[t]) \in Nat
  <2>1. answered[t] \in Nat /\ ran[t] \in Nat /\ Len(sent[t]) \in Nat
    BY LenProperties DEF Types
  <2> QED BY <2>1 DEF AnswersFollow
<1>2. <<t, k>> \in OutstandingOf(sent', answered', n, r, p) <=> k \in (answered[t] + 1)..Len(sent'[t]) /\ Is(sent'[t][k])
  BY DEF OutstandingOf
<1>3. <<t, k>> \in OutstandingOf(sent, answered, n, r, p) <=> k \in (answered[t] + 1)..Len(sent[t]) /\ Is(sent[t][k])
  BY DEF OutstandingOf
<1> SUFFICES <<t, k>> \in OutstandingOf(sent', answered', n, r, p) <=>
                 <<t, k>> \in OutstandingOf(sent, answered, n, r, p) \/ (Is(c) /\ t = s /\ k = Len(sent[s]) + 1)
  OBVIOUS
<1> HIDE DEF Is
<1>4. CASE t # s
  BY <1>2, <1>3, <1>4 DEF Appended
<1>5. CASE t = s /\ k = Len(sent[s]) + 1
  <2>1. k \in (answered[t] + 1)..Len(sent'[t]) /\ sent'[t][k] = c /\ k \notin (answered[t] + 1)..Len(sent[t])
    BY <1>1, <1>5 DEF Appended
  <2> QED BY <1>2, <1>3, <1>5, <2>1
<1>6. CASE t = s /\ k # Len(sent[s]) + 1
  <2>1. k \in (answered[t] + 1)..Len(sent'[t]) <=> k \in (answered[t] + 1)..Len(sent[t])
    BY <1>1, <1>6 DEF Appended
  <2>2. k \in (answered[t] + 1)..Len(sent[t]) => sent'[t][k] = sent[t][k]
    BY <1>1, <1>6 DEF Appended
  <2> QED BY <1>2, <1>3, <1>6, <2>1, <2>2
<1> QED BY <1>4, <1>5, <1>6

\* A Write leaves the outstanding copies of other parts alone.
LEMMA AppendedOther ==
    ASSUME Types, AnswersFollow, NEW s \in Shards, NEW c, Appended(s, c), answered' = answered, NEW n, NEW r, NEW p,
           ~ (c.node = n /\ c.record = r /\ c.part = p)
    PROVE  OutstandingOf(sent', answered', n, r, p) = OutstandingOf(sent, answered, n, r, p)
<1>1. ASSUME NEW t \in Shards, NEW k \in Nat
      PROVE  <<t, k>> \in OutstandingOf(sent', answered', n, r, p) <=> <<t, k>> \in OutstandingOf(sent, answered, n, r, p)
  BY AppendedOutstanding
<1>2. /\ OutstandingOf(sent, answered, n, r, p) \subseteq Shards \X Nat
      /\ OutstandingOf(sent', answered', n, r, p) \subseteq Shards \X Nat
  BY DEF OutstandingOf
<1>3. \A x \in Shards \X Nat : \E t \in Shards : \E k \in Nat : x = <<t, k>>
  OBVIOUS
<1>4. \A x \in Shards \X Nat : x \in OutstandingOf(sent', answered', n, r, p) <=> x \in OutstandingOf(sent, answered, n, r, p)
  BY <1>1, <1>3
<1> QED BY <1>2, <1>4

\* A Write adds one outstanding copy to its own part.
LEMMA AppendedOwn ==
    ASSUME Types, AnswersFollow, NEW s \in Shards, NEW c, Appended(s, c), answered' = answered, NEW n, NEW r, NEW p,
           c.node = n, c.record = r, c.part = p
    PROVE  OutstandingOf(sent', answered', n, r, p) = OutstandingOf(sent, answered, n, r, p) \cup {<<s, Len(sent[s]) + 1>>}
<1>0. Len(sent[s]) + 1 \in Nat
  BY DEF Appended
<1>1. ASSUME NEW t \in Shards, NEW k \in Nat
      PROVE  <<t, k>> \in OutstandingOf(sent', answered', n, r, p) <=>
                 <<t, k>> \in OutstandingOf(sent, answered, n, r, p) \/ (t = s /\ k = Len(sent[s]) + 1)
  BY AppendedOutstanding
<1>2. /\ OutstandingOf(sent, answered, n, r, p) \subseteq Shards \X Nat
      /\ OutstandingOf(sent', answered', n, r, p) \subseteq Shards \X Nat
  BY DEF OutstandingOf
<1>3. \A x \in Shards \X Nat : \E t \in Shards : \E k \in Nat : x = <<t, k>>
  OBVIOUS
<1>4. \A x \in Shards \X Nat : x \in OutstandingOf(sent', answered', n, r, p) <=>
                                  x \in OutstandingOf(sent, answered, n, r, p) \/ x = <<s, Len(sent[s]) + 1>>
  BY <1>1, <1>3
<1>5. <<s, Len(sent[s]) + 1>> \in Shards \X Nat
  BY <1>0
<1> QED BY <1>2, <1>4, <1>5

\* An answer takes the copy away from its own part, and from no other.
LEMMA AnsweredCopy ==
    ASSUME Types, AnswersFollow, NEW s \in Shards, Answer(s), NEW n, NEW r, NEW p
    PROVE  <<s, answered[s] + 1>> \in OutstandingOf(sent, answered, n, r, p) <=>
               /\ sent[s][answered[s] + 1].node = n /\ sent[s][answered[s] + 1].record = r
               /\ sent[s][answered[s] + 1].part = p
<1>1. answered[s] \in Nat /\ ran[s] \in Nat /\ answered[s] < ran[s] /\ ran[s] <= Len(sent[s]) /\ Len(sent[s]) \in Nat
  BY LenProperties DEF Answer, AnswersFollow, Types
<1> QED BY <1>1 DEF OutstandingOf

\* A reply takes one outstanding copy away.
LEMMA AnsweredOutstanding ==
    ASSUME Types, AnswersFollow, NEW s \in Shards, Answer(s), NEW n, NEW r, NEW p
    PROVE  OutstandingOf(sent', answered', n, r, p) = OutstandingOf(sent, answered, n, r, p) \ {<<s, answered[s] + 1>>}
<1>1. \A t \in Shards : answered[t] \in Nat /\ Len(sent[t]) \in Nat
  BY LenProperties DEF Types
<1>2. answered'[s] = answered[s] + 1 /\ \A t \in Shards \ {s} : answered'[t] = answered[t]
  BY DEF Answer, Types
<1>3. sent' = sent
  BY DEF Answer
<1>4. ASSUME NEW t \in Shards, NEW k \in Nat
      PROVE  <<t, k>> \in OutstandingOf(sent', answered', n, r, p) <=>
                 <<t, k>> \in OutstandingOf(sent, answered, n, r, p) /\ ~ (t = s /\ k = answered[s] + 1)
  <2> DEFINE Is(copy) == copy.node = n /\ copy.record = r /\ copy.part = p
  <2>1. <<t, k>> \in OutstandingOf(sent', answered', n, r, p) <=> k \in (answered'[t] + 1)..Len(sent[t]) /\ Is(sent[t][k])
    BY <1>3 DEF OutstandingOf
  <2>2. <<t, k>> \in OutstandingOf(sent, answered, n, r, p) <=> k \in (answered[t] + 1)..Len(sent[t]) /\ Is(sent[t][k])
    BY DEF OutstandingOf
  <2> HIDE DEF Is
  <2>3. k \in (answered'[t] + 1)..Len(sent[t]) <=> k \in (answered[t] + 1)..Len(sent[t]) /\ ~ (t = s /\ k = answered[s] + 1)
    BY <1>1, <1>2
  <2> QED BY <2>1, <2>2, <2>3
<1>5. /\ OutstandingOf(sent, answered, n, r, p) \subseteq Shards \X Nat
      /\ OutstandingOf(sent', answered', n, r, p) \subseteq Shards \X Nat
  BY DEF OutstandingOf
<1>6. \A y \in Shards \X Nat : \E t \in Shards : \E k \in Nat : y = <<t, k>>
  OBVIOUS
<1>7. \A y \in Shards \X Nat : y \in OutstandingOf(sent', answered', n, r, p) <=>
                                  y \in OutstandingOf(sent, answered, n, r, p) /\ y # <<s, answered[s] + 1>>
  BY <1>4, <1>6
<1> QED BY <1>5, <1>7

\* The copies of a part that are not yet sent.
LEMMA UnsentType ==
    ASSUME Types, WritePosition, NEW n \in Nodes, NEW r \in Int, NEW p \in Int, p <= Len(Parts(n)), p >= 1
    PROVE  Unsent(n, r, p) \in Nat
<1>1. Parts(n) \in Seq(Seq(Shards) \ {<<>>})
  BY ItemFacts DEF Types, Parts
<1>2. Len(Parts(n)) \in Nat
  BY <1>1, LenProperties
<1>3. Parts(n)[p] \in Seq(Shards)
  BY <1>1, <1>2, ElementOfSeq
<1>4. Len(Parts(n)[p]) \in Nat
  BY <1>3, LenProperties
<1>5. cpc[n] = "write" => at[n][1] \in 1..Len(Parts(n)) /\ at[n][2] \in 1..Len(Parts(n)[at[n][1]])
  BY DEF WritePosition, WriteAt
<1> QED BY <1>2, <1>4, <1>5 DEF Unsent

\* What does not answer, and is not a Write of the node, leaves its copies outstanding.
LEMMA OutstandingKept ==
    ASSUME TP!IndInv, Types, HeldIsRead, TrackedInOrder, WritePosition, AnswersFollow, [Next]_vars,
           answered' = answered, NEW n, ~ WriteCopy(n), NEW r, r # 0, NEW p
    PROVE  OutstandingOf(sent', answered', n, r, p) = OutstandingOf(sent, answered, n, r, p)
<1>1. CASE UNCHANGED sent
  BY <1>1 DEF OutstandingOf
<1>2. ASSUME NEW s \in Shards, NEW c, Appended(s, c), c.record # r \/ c.node # n
      PROVE  OutstandingOf(sent', answered', n, r, p) = OutstandingOf(sent, answered, n, r, p)
  BY <1>2, AppendedOther
<1>3. CASE WritePing
  BY <1>1, <1>2, <1>3, WritePingFacts
<1>4. ASSUME NEW m \in Nodes, WriteCopy(m) PROVE OutstandingOf(sent', answered', n, r, p) = OutstandingOf(sent, answered, n, r, p)
  <2>0. PICK q, j, s, c : CopyWritten(m, q, j, s, c)
    BY <1>4, WriteCopyFacts
  <2>1. s \in Shards /\ Appended(s, c) /\ IsCopy(c, m, held[m].off, q)
    BY <2>0, Zenon DEF CopyWritten
  <2> QED BY <1>2, <1>4, <2>1 DEF IsCopy
<1> QED BY <1>1, <1>3, <1>4, SentCases

\* The copies still to be written change only with the consumer that writes them.
LEMMA UnsentKept ==
    ASSUME NEW n, NEW r, NEW p,
           \/ cpc'[n] = cpc[n] /\ held'[n] = held[n] /\ at'[n] = at[n]
           \/ cpc[n] # "write" /\ cpc'[n] # "write"
    PROVE  Unsent(n, r, p)' = Unsent(n, r, p)
BY DEF Unsent, Parts

\* A counter stays right while its copies and itself are left alone.
LEMMA CountedKept ==
    ASSUME NEW n, NEW r, NEW p, Counted(n, r, p), owed'[n][r] = owed[n][r],
           OutstandingOf(sent', answered', n, r, p) = OutstandingOf(sent, answered, n, r, p), Unsent(n, r, p)' = Unsent(n, r, p)
    PROVE  Counted(n, r, p)'
BY DEF Counted, Outstanding

\* A Write turns a copy that was to be sent into an outstanding one.
LEMMA WriteCounted ==
    ASSUME TP!IndInv, Types, HeldIsRead, TrackedInOrder, WritePosition, AnswersFollow, OwedIsOutstanding, OwedHasParts,
           [Next]_vars, NEW n \in Nodes, WriteCopy(n), NEW r \in 1..Len(tracked[n]), NEW p \in DOMAIN owed[n][r]
    PROVE  Counted(n, r, p)'
<1>0. PICK q, j, s, c : CopyWritten(n, q, j, s, c)
  BY WriteCopyFacts
<1>1. /\ q = at[n][1] /\ j = at[n][2] /\ s \in Shards /\ cpc[n] = "write"
      /\ q \in 1..Len(Parts(n)) /\ j \in 1..Len(Parts(n)[q]) /\ Len(Parts(n)) \in Nat
      /\ Len(Parts(n)[q]) \in Nat /\ Appended(s, c) /\ IsCopy(c, n, held[n].off, q)
      /\ c.record = (IF held[n].off < 0 THEN 0 ELSE held[n].off + 1)
      /\ at'[n] = (IF j < Len(Parts(n)[q]) THEN <<q, j + 1>> ELSE <<q + 1, 1>>)
      /\ cpc'[n] = (IF j = Len(Parts(n)[q]) /\ q = Len(Parts(n)) THEN "next" ELSE "write")
      /\ held[n].off \in Int
  BY <1>0, Zenon DEF CopyWritten
<1>2. UNCHANGED <<answered, owed, held>> /\ Parts(n)' = Parts(n)
  BY DEF WriteCopy, Parts
<1>3. Counted(n, r, p) /\ r \in Int /\ r # 0
  BY TrackedFacts DEF OwedIsOutstanding
<1>6. CASE held[n].off # r - 1
  <2>1. c.record # r
    BY <1>1, <1>3, <1>6
  <2>2. OutstandingOf(sent', answered', n, r, p) = OutstandingOf(sent, answered, n, r, p)
    BY <1>1, <1>2, <2>1, AppendedOther
  <2>3. Unsent(n, r, p) = 0 /\ Unsent(n, r, p)' = 0
    BY <1>2, <1>6 DEF Unsent
  <2> QED BY <1>2, <1>3, <2>2, <2>3, CountedKept
<1>7. CASE held[n].off = r - 1
  <2>0. p \in Int /\ 1 <= p /\ p <= Len(Parts(n))
    <3>1. held[n].off >= 0 /\ held[n].off + 1 = r
      BY <1>1, <1>3, <1>7
    <3>2. Len(owed[n][r]) = Len(Parts(n))
      BY <1>1, <3>1 DEF OwedHasParts
    <3>3. owed[n][r] \in Seq(Int)
      <4>1. owed[n] \in Seq(Seq(Int)) /\ Len(owed[n]) = Len(tracked[n])
        BY DEF Types, OwedIsOutstanding
      <4> QED BY <4>1, ElementOfSeq
    <3>4. p \in 1..Len(Parts(n))
      BY <3>2, <3>3, LenProperties
    <3> QED BY <1>1, <3>4
  <2>1. c.node = n /\ c.record = r /\ c.part = q
    BY <1>1, <1>3, <1>7 DEF IsCopy
  <2>2. Unsent(n, r, p) = IF p < q THEN 0 ELSE IF p = q THEN Len(Parts(n)[p]) - j + 1 ELSE Len(Parts(n)[p])
    BY <1>1, <1>7 DEF Unsent
  <2>3. Unsent(n, r, p)' = IF cpc'[n] = "write"
                           THEN IF p < at'[n][1] THEN 0
                                ELSE IF p = at'[n][1] THEN Len(Parts(n)[p]) - at'[n][2] + 1
                                ELSE Len(Parts(n)[p])
                           ELSE 0
    BY <1>2, <1>7 DEF Unsent
  <2>4. Parts(n)[p] \in Seq(Shards) /\ Len(Parts(n)[p]) \in Nat
    <3>1. Parts(n) \in Seq(Seq(Shards) \ {<<>>})
      BY ItemFacts DEF Types, Parts
    <3>2. Parts(n)[p] \in Seq(Shards)
      BY <2>0, <1>1, <3>1, ElementOfSeq
    <3> QED BY <3>2, LenProperties
  <2>5. Unsent(n, r, p)' = IF p = q THEN Unsent(n, r, p) - 1 ELSE Unsent(n, r, p)
    <3>1. CASE j < Len(Parts(n)[q])
      <4>1. at'[n][1] = q /\ at'[n][2] = j + 1 /\ cpc'[n] = "write"
        BY <1>1, <3>1
      <4>2. q \in Int /\ p \in Int /\ j \in Int
        BY <1>1, <2>0
      <4>3. Unsent(n, r, p)' = IF p < q THEN 0 ELSE IF p = q THEN Len(Parts(n)[p]) - (j + 1) + 1 ELSE Len(Parts(n)[p])
        BY <2>3, <4>1
      <4>4. Len(Parts(n)[p]) - (j + 1) + 1 = Len(Parts(n)[p]) - j + 1 - 1
        BY <2>4, <4>2
      <4> QED BY <2>2, <4>2, <4>3, <4>4
    <3>2. CASE j = Len(Parts(n)[q]) /\ q < Len(Parts(n))
      <4>1. at'[n][1] = q + 1 /\ at'[n][2] = 1 /\ cpc'[n] = "write"
        BY <1>1, <3>2
      <4>2. CASE p < q
        BY <1>1, <2>0, <2>2, <2>3, <4>1, <4>2
      <4>3. CASE p = q
        <5>1. Unsent(n, r, p) = 1
          BY <1>1, <2>2, <2>4, <3>2, <4>3
        <5>2. Unsent(n, r, p)' = 0
          BY <1>1, <2>3, <4>1, <4>3
        <5> QED BY <4>3, <5>1, <5>2
      <4>4. CASE p > q
        BY <1>1, <2>0, <2>2, <2>3, <2>4, <4>1, <4>4
      <4> QED BY <1>1, <2>0, <4>2, <4>3, <4>4
    <3>3. CASE j = Len(Parts(n)[q]) /\ q = Len(Parts(n))
      <4>1. cpc'[n] # "write"
        BY <1>1, <3>3
      <4> QED BY <1>1, <2>0, <2>2, <2>3, <2>4, <3>3, <4>1
    <3> QED BY <1>1, <3>1, <3>2, <3>3
  <2>6. CASE p # q
    <3>1. OutstandingOf(sent', answered', n, r, p) = OutstandingOf(sent, answered, n, r, p)
      BY <1>1, <1>2, <2>1, <2>6, AppendedOther
    <3> QED BY <1>2, <1>3, <2>5, <2>6, <3>1, CountedKept
  <2>7. CASE p = q
    <3> DEFINE S == OutstandingOf(sent, answered, n, r, p)
               x == <<s, Len(sent[s]) + 1>>
    <3>0. s \in Shards /\ Appended(s, c) /\ answered' = answered /\ c.part = p
      BY <1>1, <1>2, <2>1, <2>7
    <3>a. OutstandingOf(sent', answered', n, r, p) = S \cup {x}
      BY <2>1, <3>0, AppendedOwn
    <3>b. x \notin S
      BY <3>0 DEF OutstandingOf, Appended
    <3>1. OutstandingOf(sent', answered', n, r, p) = S \cup {x} /\ x \notin S
      BY <3>a, <3>b
    <3>2. IsFiniteSet(S) /\ owed[n][r][p] = Cardinality(S) + Unsent(n, r, p)
      BY <1>3 DEF Counted, Outstanding
    <3> HIDE DEF S, x
    <3>3. IsFiniteSet(S \cup {x}) /\ Cardinality(S \cup {x}) = Cardinality(S) + 1 /\ Cardinality(S) \in Nat
      BY <3>1, <3>2, FS_AddElement, FS_CardinalityType
    <3>4. Unsent(n, r, p) \in Int
      BY <1>1, <2>0, <2>2, <2>4
    <3>5. owed'[n][r][p] = Cardinality(S \cup {x}) + (Unsent(n, r, p) - 1)
      BY <1>2, <3>2, <3>3, <3>4
    <3> QED BY <2>5, <2>7, <3>1, <3>3, <3>5 DEF Counted, Outstanding
  <2> QED BY <2>6, <2>7
<1> QED BY <1>6, <1>7

\* An answer decrements the counter of the part the copy was outstanding for.
LEMMA AnswerCounted ==
    ASSUME TP!IndInv, Types, CopiesAreRecords, AnswersFollow, OwedIsOutstanding, OwedHasParts,
           WritePosition, NEW s \in Shards, Answer(s), UNCHANGED <<cpc, held, at, tracked>>,
           NEW n \in Nodes, NEW r \in 1..Len(tracked[n]), NEW p \in DOMAIN owed'[n][r]
    PROVE  Counted(n, r, p)'
<1> DEFINE c == sent[s][answered[s] + 1]
           S == OutstandingOf(sent, answered, n, r, p)
           x == <<s, answered[s] + 1>>
<1>1. OutstandingOf(sent', answered', n, r, p) = S \ {x}
  BY AnsweredOutstanding
<1>2. x \in S <=> c.node = n /\ c.record = r /\ c.part = p
  BY AnsweredCopy
<1>3. \/ c.record = 0 /\ owed' = owed
      \/ /\ c.record # 0 /\ c.node \in Nodes /\ c.record \in 1..Len(owed[c.node])
         /\ owed[c.node][c.record] \in Seq(Int) /\ c.part \in 1..Len(owed[c.node][c.record])
         /\ Decremented(owed', owed, c.node, c.record, c.part)
  BY CallbackFacts, Zenon
<1> HIDE DEF c, S, x
<1>4. Unsent(n, r, p)' = Unsent(n, r, p)
  BY UnsentKept
<1>5. r # 0 /\ Len(owed[n]) = Len(tracked[n]) /\ owed[n][r] \in Seq(Int)
  <2>1. owed[n] \in Seq(Seq(Int)) /\ Len(owed[n]) = Len(tracked[n]) /\ Len(tracked[n]) \in Nat
    BY TrackerTypes, LenProperties DEF Types, OwedIsOutstanding
  <2> QED BY <2>1, ElementOfSeq
<1>6. DOMAIN owed'[n][r] = DOMAIN owed[n][r]
  <2>1. CASE owed' = owed
    BY <2>1
  <2>2. CASE Decremented(owed', owed, c.node, c.record, c.part)
    <3>1. owed'[n][r] = owed[n][r] \/ Len(owed'[n][r]) = Len(owed[n][r])
      BY <1>5, <2>2 DEF Decremented
    <3>2. owed' \in [Nodes -> Seq(Seq(Int))] /\ Len(owed'[n]) = Len(owed[n])
      BY <2>2 DEF Decremented
    <3>3. owed'[n][r] \in Seq(Int)
      BY <1>5, <3>2, ElementOfSeq
    <3> QED BY <1>5, <3>1, <3>3, LenProperties
  <2> QED BY <1>3, <2>1, <2>2
<1>7. Counted(n, r, p)
  BY <1>6 DEF OwedIsOutstanding
<1>8. IsFiniteSet(S) /\ owed[n][r][p] = Cardinality(S) + Unsent(n, r, p)
  BY <1>7 DEF Counted, Outstanding, S
<1>9. IsFiniteSet(S \ {x}) /\ Cardinality(S \ {x}) = IF x \in S THEN Cardinality(S) - 1 ELSE Cardinality(S)
  BY <1>8, FS_RemoveElement
<1>10. owed'[n][r][p] = IF x \in S THEN owed[n][r][p] - 1 ELSE owed[n][r][p]
  <2>1. CASE c.record = 0 /\ owed' = owed
    BY <1>2, <1>5, <2>1
  <2>2. CASE Decremented(owed', owed, c.node, c.record, c.part) /\ ~ (c.node = n /\ c.record = r)
    <3>1. owed'[n][r] = owed[n][r]
      BY <1>5, <2>2 DEF Decremented
    <3> QED BY <1>2, <2>2, <3>1
  <2>3. CASE Decremented(owed', owed, c.node, c.record, c.part) /\ c.node = n /\ c.record = r
    <3>1. p \in 1..Len(owed[n][r])
      BY <1>5, <1>6, LenProperties
    <3>2. Decremented(owed', owed, n, r, c.part)
      BY <2>3
    <3>3. owed'[n][r][p] = IF p = c.part THEN owed[n][r][p] - 1 ELSE owed[n][r][p]
      BY <3>1, <3>2 DEF Decremented
    <3> QED BY <1>2, <2>3, <3>3
  <2> QED BY <1>3, <2>1, <2>2, <2>3
<1>11. owed[n][r][p] \in Int /\ Cardinality(S) \in Nat
  <2>1. p \in 1..Len(owed[n][r])
    BY <1>5, <1>6, LenProperties
  <2> QED BY <1>5, <1>8, <2>1, ElementOfSeq, FS_CardinalityType
<1>12. Unsent(n, r, p) \in Int => owed'[n][r][p] = Cardinality(S \ {x}) + Unsent(n, r, p)
  BY <1>8, <1>9, <1>10, <1>11
<1>13. Unsent(n, r, p) \in Int
  <2>1. p \in 1..Len(owed[n][r]) /\ r \in Int /\ r >= 1 /\ p \in Int
    BY <1>5, <1>6, LenProperties
  <2>2. CASE cpc[n] = "write" /\ held[n].off = r - 1
    <3>1. r - 1 >= 0 /\ r - 1 + 1 = r
      BY <2>1
    <3>2. Len(owed[n][r]) = Len(Parts(n))
      BY <2>2, <3>1 DEF OwedHasParts
    <3>3. p <= Len(Parts(n)) /\ p >= 1
      BY <2>1, <3>2
    <3>4. Unsent(n, r, p) \in Nat
      BY <2>1, <3>3, UnsentType
    <3> QED BY <3>4
  <2>3. CASE ~ (cpc[n] = "write" /\ held[n].off = r - 1)
    BY <2>3 DEF Unsent
  <2> QED BY <2>2, <2>3
<1>14. Outstanding(n, r, p)' = S \ {x}
  BY <1>1 DEF Outstanding
<1> QED BY <1>4, <1>9, <1>12, <1>13, <1>14 DEF Counted


OwedAt(n) ==
    /\ Len(owed[n]) = Len(tracked[n])
    /\ \A r \in 1..Len(tracked[n]) : \A p \in DOMAIN owed[n][r] : Counted(n, r, p)

\* Where neither the counters nor the copies change, the account stays right.
LEMMA OwedAtKept ==
    ASSUME TP!IndInv, Types, HeldIsRead, TrackedInOrder, WritePosition, AnswersFollow, [Next]_vars,
           answered' = answered, NEW n \in Nodes, ~ WriteCopy(n), OwedAt(n), owed'[n] = owed[n],
           tracked'[n] = tracked[n],
           \/ cpc'[n] = cpc[n] /\ held'[n] = held[n] /\ at'[n] = at[n]
           \/ cpc[n] # "write" /\ cpc'[n] # "write"
    PROVE  OwedAt(n)'
<1>1. Len(owed'[n]) = Len(tracked'[n])
  BY DEF OwedAt
<1>2. ASSUME NEW r \in 1..Len(tracked'[n]), NEW p \in DOMAIN owed'[n][r] PROVE Counted(n, r, p)'
  <2>1. Counted(n, r, p) /\ r # 0 /\ owed'[n][r] = owed[n][r]
    <3>1. Len(tracked[n]) \in Nat
      BY TrackerTypes, LenProperties
    <3> QED BY <3>1 DEF OwedAt
  <2>2. Unsent(n, r, p)' = Unsent(n, r, p)
    BY UnsentKept
  <2>3. OutstandingOf(sent', answered', n, r, p) = OutstandingOf(sent, answered, n, r, p)
    BY <2>1, OutstandingKept
  <2> QED BY <2>1, <2>2, <2>3, CountedKept
<1> QED BY <1>1, <1>2 DEF OwedAt

\* A new record has no parts to count.
LEMMA TrackCounted ==
    ASSUME TP!IndInv, Types, HeldIsRead, TrackedInOrder, WritePosition, AnswersFollow, OwedIsOutstanding,
           [Next]_vars, NEW n \in Nodes, Track(n)
    PROVE  OwedAt(n)'
<1>1. /\ cpc[n] = "track" /\ cpc'[n] = "route" /\ answered' = answered
      /\ Len(tracked'[n]) = Len(tracked[n]) + 1 /\ Len(owed[n]) = Len(tracked[n])
      /\ Len(owed'[n]) = Len(owed[n]) + 1 /\ owed'[n][Len(owed[n]) + 1] = <<>>
      /\ \A r \in 1..Len(owed[n]) : owed'[n][r] = owed[n][r]
  BY TrackFacts, Zenon
<1>2. Len(tracked[n]) \in Nat
  BY TrackerTypes, LenProperties
<1>3. ASSUME NEW r \in 1..Len(tracked'[n]), NEW p \in DOMAIN owed'[n][r] PROVE Counted(n, r, p)'
  <2>1. CASE r = Len(owed[n]) + 1
    <3>1. owed'[n][r] = <<>>
      BY <1>1, <2>1
    <3> QED BY <3>1
  <2>2. CASE r # Len(owed[n]) + 1
    <3>1. r \in 1..Len(owed[n]) /\ r \in 1..Len(tracked[n]) /\ r # 0
      BY <1>1, <1>2, <2>2
    <3>2. owed'[n][r] = owed[n][r]
      BY <1>1, <3>1
    <3>3. Counted(n, r, p)
      BY <3>1, <3>2 DEF OwedIsOutstanding
    <3>4. Unsent(n, r, p)' = Unsent(n, r, p)
      BY <1>1, UnsentKept
    <3>5. ~ WriteCopy(n)
      BY <1>1 DEF WriteCopy
    <3>6. OutstandingOf(sent', answered', n, r, p) = OutstandingOf(sent, answered, n, r, p)
      BY <1>1, <3>1, <3>5, OutstandingKept
    <3> QED BY <3>2, <3>3, <3>4, <3>6, CountedKept
  <2> QED BY <2>1, <2>2
<1>4. Len(owed'[n]) = Len(tracked'[n])
  BY <1>1
<1> QED BY <1>3, <1>4 DEF OwedAt

\* A part a record does not have, or does not have yet, has no copies.
LEMMA NothingOutstanding ==
    ASSUME Types, CopiesAreRecords, AnswersFollow, NEW n, NEW r, NEW p, r # 0,
           p \notin DOMAIN owed[n][r]
    PROVE  OutstandingOf(sent, answered, n, r, p) = {}
<1> SUFFICES ASSUME NEW x \in OutstandingOf(sent, answered, n, r, p) PROVE FALSE
  OBVIOUS
<1>1. PICK s \in Shards, k \in Nat : x = <<s, k>>
  BY DEF OutstandingOf
<1>2. k \in (answered[s] + 1)..Len(sent[s]) /\ sent[s][k].node = n /\ sent[s][k].record = r /\ sent[s][k].part = p
  BY <1>1 DEF OutstandingOf
<1>3. answered[s] \in Nat /\ sent[s] \in Seq(Copy)
  BY DEF Types
<1>4. k \in 1..Len(sent[s])
  BY <1>2, <1>3, LenProperties
<1>5. sent[s][k].part \in DOMAIN owed[n][r]
  BY <1>2, <1>4 DEF CopiesAreRecords
<1> QED BY <1>2, <1>5

\* SplitCompletion sets each counter to the number of copies that are to be sent.
LEMMA RouteCounted ==
    ASSUME TP!IndInv, Types, HeldIsRead, TrackedInOrder, WritePosition, AnswersFollow, CopiesAreRecords,
           OwedIsOutstanding, OwedHasParts, [Next]_vars, NEW n \in Nodes, Route(n)
    PROVE  OwedAt(n)'
<1>1. /\ cpc[n] = "route" /\ sent' = sent /\ answered' = answered /\ held' = held /\ tracked' = tracked
      /\ at'[n] = <<1, 1>> /\ cpc'[n] = (IF Parts(n) = <<>> THEN "next" ELSE "write")
      /\ held[n].off \in Int /\ Len(owed[n]) = Len(tracked[n]) /\ Len(owed'[n]) = Len(owed[n])
      /\ held[n].off < 0 => owed'[n] = owed[n]
      /\ held[n].off >= 0 =>
            /\ \A r \in 1..Len(owed[n]) : r # held[n].off + 1 => owed'[n][r] = owed[n][r]
            /\ owed'[n][held[n].off + 1] = [p \in 1..Len(Parts(n)) |-> Len(Parts(n)[p])]
  BY RouteFacts, Zenon
<1>2. Len(tracked[n]) \in Nat
  BY TrackerTypes, LenProperties
<1>3. ASSUME NEW r \in 1..Len(tracked'[n]), NEW p \in DOMAIN owed'[n][r] PROVE Counted(n, r, p)'
  <2>0. r \in 1..Len(tracked[n]) /\ r \in 1..Len(owed[n]) /\ r \in Int /\ r >= 1 /\ r # 0
    BY <1>1, <1>2
  <2>1. CASE held[n].off # r - 1
    <3>1. owed'[n][r] = owed[n][r]
      <4>1. CASE held[n].off < 0
        BY <1>1, <4>1
      <4>2. CASE held[n].off >= 0
        <5>1. r # held[n].off + 1
          BY <1>1, <2>0, <2>1
        <5> QED BY <1>1, <2>0, <4>2, <5>1, Zenon
      <4> QED BY <1>1, <4>1, <4>2
    <3>2. Counted(n, r, p)
      BY <2>0, <3>1 DEF OwedIsOutstanding
    <3>3. Unsent(n, r, p)' = Unsent(n, r, p)
      BY <1>1, <2>1 DEF Unsent
    <3>4. OutstandingOf(sent', answered', n, r, p) = OutstandingOf(sent, answered, n, r, p)
      BY <1>1
    <3> QED BY <3>1, <3>2, <3>3, <3>4, CountedKept
  <2>2. CASE held[n].off = r - 1
    <3>1. held[n].off >= 0 /\ held[n].off + 1 = r
      BY <2>0, <2>2
    <3>2. owed[n][r] = <<>>
      BY <1>1, <3>1 DEF OwedHasParts
    <3>3. owed'[n][r] = [q \in 1..Len(Parts(n)) |-> Len(Parts(n)[q])]
      BY <1>1, <3>1
    <3>4. p \in 1..Len(Parts(n))
      BY <3>3
    <3>5. owed'[n][r][p] = Len(Parts(n)[p])
      BY <3>3, <3>4
    <3>6. Parts(n) \in Seq(Seq(Shards) \ {<<>>})
      BY ItemFacts DEF Types, Parts
    <3>7. Parts(n) # <<>> /\ p \in Int /\ p >= 1 /\ Parts(n)[p] \in Seq(Shards)
      <4>1. Len(Parts(n)) \in Nat /\ Parts(n)[p] \in Seq(Shards) \ {<<>>}
        BY <3>4, <3>6, ElementOfSeq, LenProperties
      <4>2. Parts(n) # <<>>
        BY <3>4
      <4> QED BY <3>4, <4>1, <4>2
    <3>8. Len(Parts(n)[p]) \in Nat
      BY <3>7, LenProperties
    <3>9. Parts(n)' = Parts(n)
      BY <1>1 DEF Parts
    <3>10. cpc'[n] = "write" /\ held'[n].off = r - 1 /\ at'[n][1] = 1 /\ at'[n][2] = 1
      BY <1>1, <2>2, <3>7
    <3>11. Unsent(n, r, p)' = IF p < 1 THEN 0 ELSE IF p = 1 THEN Len(Parts(n)[p]) - 1 + 1 ELSE Len(Parts(n)[p])
      BY <3>9, <3>10, Zenon DEF Unsent
    <3>12. Unsent(n, r, p)' = Len(Parts(n)[p])
      BY <3>7, <3>8, <3>11
    <3>13. OutstandingOf(sent, answered, n, r, p) = {}
      <4>1. p \notin DOMAIN owed[n][r]
        BY <3>2
      <4> QED BY <2>0, <4>1, NothingOutstanding
    <3>14. Outstanding(n, r, p)' = {}
      BY <1>1, <3>13 DEF Outstanding
    <3>15. IsFiniteSet({}) /\ Cardinality({}) = 0
      BY FS_EmptySet
    <3> QED BY <3>5, <3>8, <3>12, <3>14, <3>15 DEF Counted
  <2> QED BY <2>1, <2>2
<1>4. Len(owed'[n]) = Len(tracked'[n])
  BY <1>1
<1> QED BY <1>3, <1>4 DEF OwedAt

\* Every step keeps the account of the counters.
LEMMA OwedStep ==
    ASSUME Inv, [Next]_vars
    PROVE  OwedIsOutstanding'
<1> USE DEF Inv, OrderInv, CopyInv, OwedInv
<1>1. TP!IndInv /\ Types /\ HeldIsRead /\ TrackedInOrder /\ WritePosition /\ AnswersFollow /\ CopiesAreRecords
  OBVIOUS
<1>2. OwedIsOutstanding /\ OwedHasParts
  OBVIOUS
<1> USE <1>1, <1>2
<1> HIDE DEF Inv, OrderInv, CopyInv, OwedInv
<1> SUFFICES ASSUME NEW n \in Nodes PROVE OwedAt(n)'
  BY DEF OwedIsOutstanding, OwedAt
<1>3. OwedAt(n)
  BY DEF OwedIsOutstanding, OwedAt
<1>4. CASE WriteCopy(n)
  <2>1. owed' = owed /\ tracked' = tracked
    BY <1>4, Zenon DEF WriteCopy, trackerVars
  <2>2. ASSUME NEW r \in 1..Len(tracked[n]), NEW p \in DOMAIN owed[n][r] PROVE Counted(n, r, p)'
    BY <1>4, WriteCounted
  <2> QED BY <1>3, <2>1, <2>2 DEF OwedAt
<1>5. CASE ~ WriteCopy(n) /\ \E s \in Shards : Answer(s) /\ UNCHANGED <<cpc, held, at, tracked, caller, source, sent, ran>>
  <2>1. PICK s \in Shards : Answer(s) /\ UNCHANGED <<cpc, held, at, tracked>>
    BY <1>5
  <2>2. ASSUME NEW r \in 1..Len(tracked[n]), NEW p \in DOMAIN owed'[n][r] PROVE Counted(n, r, p)'
    BY <2>1, AnswerCounted
  <2>3. Len(owed'[n]) = Len(owed[n])
    <3> DEFINE c == sent[s][answered[s] + 1]
    <3>1. owed' = owed \/ (c.node \in Nodes /\ Decremented(owed', owed, c.node, c.record, c.part))
      BY <2>1, CallbackFacts, Zenon
    <3> HIDE DEF c
    <3> QED BY <3>1 DEF Decremented
  <2> QED BY <1>3, <2>1, <2>2, <2>3 DEF OwedAt
<1>6. CASE ~ WriteCopy(n) /\ \E m \in Nodes : Consumer(m)
  <2>1. PICK m \in Nodes : Consumer(m)
    BY <1>6
  <2>2. answered' = answered
    BY <2>1, ConsumerKeeps
  <2>3. CASE m # n
    <3>1. /\ cpc'[n] = cpc[n] /\ held'[n] = held[n] /\ at'[n] = at[n]
          /\ owed'[n] = owed[n] /\ tracked'[n] = tracked[n]
      BY <2>1, <2>3, ConsumerKeeps
    <3> QED BY <1>3, <1>6, <2>2, <3>1, OwedAtKept
  <2>4. CASE Track(n)
    BY <2>4, TrackCounted
  <2>5. CASE Route(n)
    BY <2>5, RouteCounted
  <2>6. CASE TakeSlot(n)
    <3>1. /\ cpc'[n] = cpc[n] /\ held'[n] = held[n] /\ at'[n] = at[n]
          /\ owed'[n] = owed[n] /\ tracked'[n] = tracked[n]
      BY <2>6 DEF TakeSlot, T!Reserve, consumerVars
    <3> QED BY <1>3, <1>6, <2>2, <3>1, OwedAtKept
  <2>7. CASE Receive(n) \/ TrackRefused(n) \/ FilterOut(n)
    <3>1. cpc[n] # "write" /\ cpc'[n] # "write"
      <4>1. cpc \in [Nodes -> {"next", "track", "route", "write", "done"}]
        BY DEF Types
      <4> QED BY <2>7, <4>1 DEF Receive, TrackRefused, FilterOut
    <3>2. owed' = owed
      BY <2>7 DEF Receive, TrackRefused, FilterOut
    <3>3. tracked' = tracked
      BY <2>7, CompleteFacts DEF Receive, TrackRefused, FilterOut, T!Refuse, Consumed, trackerVars
    <3> QED BY <1>3, <1>6, <2>2, <3>1, <3>2, <3>3, OwedAtKept
  <2> QED BY <1>6, <2>1, <2>3, <2>4, <2>5, <2>6, <2>7 DEF Consumer
<1>7. CASE ~ WriteCopy(n) /\ (~ \E m \in Nodes : Consumer(m)) /\ UNCHANGED <<owed, finished, tracked, answered>>
  <2>1. \/ cpc'[n] = cpc[n] /\ held'[n] = held[n] /\ at'[n] = at[n]
        \/ cpc[n] # "write" /\ cpc'[n] # "write"
    <3>1. CASE UNCHANGED <<cpc, held, at, tracked, caller>>
      BY <3>1
    <3>2. CASE /\ UNCHANGED <<held, at, tracked, caller, source, sent>>
               /\ \E m \in Nodes : cpc[m] = "next" /\ cpc' = [cpc EXCEPT ![m] = "done"]
      <4>1. cpc \in [Nodes -> {"next", "track", "route", "write", "done"}]
        BY DEF Types
      <4> QED BY <3>2, <4>1
    <3> QED BY <1>7, <3>1, <3>2, StepCases
  <2> QED BY <1>3, <1>7, <2>1, OwedAtKept
<1> QED BY <1>4, <1>5, <1>6, <1>7, OwedCases

\* An answer changes no record's number of parts.
LEMMA AnswerLengths ==
    ASSUME TP!IndInv, Types, CopiesAreRecords, AnswersFollow, OwedIsOutstanding, NEW s \in Shards, Answer(s),
           NEW n \in Nodes, NEW r \in 1..Len(tracked[n])
    PROVE  /\ Len(owed'[n][r]) = Len(owed[n][r])
           /\ owed[n][r] \in Seq(Int) /\ owed'[n][r] \in Seq(Int)
<1> DEFINE c == sent[s][answered[s] + 1]
<1>1. owed' = owed \/ (c.node \in Nodes /\ Decremented(owed', owed, c.node, c.record, c.part))
  BY CallbackFacts, Zenon
<1> HIDE DEF c
<1>2. owed[n] \in Seq(Seq(Int)) /\ Len(owed[n]) = Len(tracked[n]) /\ Len(tracked[n]) \in Nat
  BY TrackerTypes, LenProperties DEF Types, OwedIsOutstanding
<1>3. owed'[n] \in Seq(Seq(Int)) /\ Len(owed'[n]) = Len(owed[n])
  BY <1>1, <1>2 DEF Decremented
<1>4. owed[n][r] \in Seq(Int) /\ owed'[n][r] \in Seq(Int)
  BY <1>2, <1>3, ElementOfSeq
<1>5. Len(owed'[n][r]) = Len(owed[n][r])
  BY <1>1, <1>2 DEF Decremented
<1> QED BY <1>4, <1>5

\* The record of the item a consumer is at, once it has called Track.
LEMMA HeldRecord ==
    ASSUME TP!IndInv, Types, HeldIsRead, TrackedInOrder, NEW n \in Nodes, held[n].off >= 0,
           cpc[n] \in {"route", "write"}
    PROVE  held[n].off + 1 = Len(tracked[n]) /\ held[n].off + 1 \in 1..Len(tracked[n]) /\ held[n].off \in Int
<1>1. caller[n] # "refused"
  BY DEF HeldIsRead, HeldAt
<1>2. Len(tracked[n]) = held[n].off + 1 /\ held[n].off \in Int
  BY <1>1, TrackedFacts
<1> QED BY <1>2

\* The record of the item a consumer is at has no parts before SplitCompletion, and
\* those of the command after it.
LEMMA PartsStep ==
    ASSUME Inv, [Next]_vars
    PROVE  OwedHasParts'
<1> USE DEF Inv, OrderInv, CopyInv, OwedInv
<1>1. TP!IndInv /\ Types /\ HeldIsRead /\ TrackedInOrder /\ WritePosition /\ AnswersFollow /\ CopiesAreRecords
  OBVIOUS
<1>2. OwedIsOutstanding /\ OwedHasParts
  OBVIOUS
<1> USE <1>1, <1>2
<1> HIDE DEF Inv, OrderInv, CopyInv, OwedInv
<1> SUFFICES ASSUME NEW n \in Nodes, held'[n].off >= 0
             PROVE  /\ cpc'[n] = "route" => owed'[n][held'[n].off + 1] = <<>>
                    /\ cpc'[n] = "write" => Len(owed'[n][held'[n].off + 1]) = Len(Parts(n)')
  BY DEF OwedHasParts
<1> DEFINE r == held[n].off + 1
<1>3. cpc[n] \in {"next", "track", "route", "write", "done"} /\ cpc \in [Nodes -> {"next", "track", "route", "write", "done"}]
  BY DEF Types
<1>4. CASE \E s \in Shards : Answer(s) /\ UNCHANGED <<cpc, held, at, tracked, caller, source, sent, ran>>
  <2>1. PICK s \in Shards : Answer(s) /\ UNCHANGED <<cpc, held>>
    BY <1>4
  <2>2. ASSUME cpc[n] \in {"route", "write"} PROVE Len(owed'[n][r]) = Len(owed[n][r]) /\ owed'[n][r] \in Seq(Int)
    <3>1. r \in 1..Len(tracked[n])
      BY <2>1, <2>2, HeldRecord
    <3> HIDE DEF r
    <3> QED BY <2>1, <3>1, AnswerLengths
  <2>3. CASE cpc[n] = "route"
    <3>1. owed[n][r] = <<>>
      BY <2>1, <2>3 DEF OwedHasParts
    <3>2. owed'[n][r] = <<>>
      BY <2>2, <2>3, <3>1, EmptySeq
    <3> QED BY <2>1, <2>3, <3>2
  <2>4. CASE cpc[n] = "write"
    <3>1. Len(owed[n][r]) = Len(Parts(n))
      BY <2>1, <2>4 DEF OwedHasParts
    <3> QED BY <2>1, <2>2, <2>4, <3>1 DEF Parts
  <2> QED BY <2>1, <2>3, <2>4
<1>5. ASSUME cpc'[n] = cpc[n] \/ cpc'[n] \notin {"route", "write"}, held'[n] = held[n], owed'[n] = owed[n]
      PROVE  /\ cpc'[n] = "route" => owed'[n][held'[n].off + 1] = <<>>
             /\ cpc'[n] = "write" => Len(owed'[n][held'[n].off + 1]) = Len(Parts(n)')
  <2>1. Parts(n)' = Parts(n)
    BY <1>5 DEF Parts
  <2> QED BY <1>5, <2>1 DEF OwedHasParts
<1>6. CASE \E m \in Nodes : Consumer(m)
  <2>1. PICK m \in Nodes : Consumer(m)
    BY <1>6
  <2>2. CASE m # n
    <3>1. cpc'[n] = cpc[n] /\ held'[n] = held[n] /\ owed'[n] = owed[n]
      BY <2>1, <2>2, ConsumerKeeps
    <3> QED BY <1>5, <3>1
  <2>3. CASE Receive(n)
    <3>1. /\ held' = [held EXCEPT ![n] = Head(chan[n])]
          /\ cpc' = [cpc EXCEPT ![n] = IF caller[n] = "refused" THEN "next"
                                       ELSE IF Head(chan[n]).off < 0 THEN "route" ELSE "track"]
      BY <2>3 DEF Receive
    <3>2. held'[n] = Head(chan[n])
      BY <3>1 DEF Types
    <3>3. held'[n].off \in Int
      BY <2>3, ReceivedIsNext DEF Inv, OrderInv
    <3>4. cpc'[n] # "write" /\ (cpc'[n] = "route" => held'[n].off < 0)
      BY <1>3, <3>1, <3>2
    <3>5. cpc'[n] # "route"
      BY <3>3, <3>4
    <3> QED BY <3>4, <3>5
  <2>4. CASE TakeSlot(n)
    BY <1>5, <2>4 DEF TakeSlot, consumerVars
  <2>5. CASE Track(n)
    <3>1. /\ cpc'[n] = "route" /\ held' = held /\ held[n].off \in Nat /\ Len(tracked[n]) = held[n].off
          /\ Len(owed[n]) = Len(tracked[n]) /\ owed'[n][Len(owed[n]) + 1] = <<>>
      BY <2>5, TrackFacts, Zenon
    <3> QED BY <3>1
  <2>6. CASE TrackRefused(n) \/ FilterOut(n)
    BY <1>3, <1>5, <2>6 DEF TrackRefused, FilterOut
  <2>7. CASE Route(n)
    <3>1. /\ held' = held /\ cpc'[n] = (IF Parts(n) = <<>> THEN "next" ELSE "write")
          /\ held[n].off >= 0 => owed'[n][held[n].off + 1] = [p \in 1..Len(Parts(n)) |-> Len(Parts(n)[p])]
      BY <2>7, RouteFacts, Zenon
    <3>2. Parts(n)' = Parts(n) /\ Parts(n) \in Seq(Seq(Shards) \ {<<>>})
      BY <3>1, ItemFacts DEF Parts, Types
    <3>3. Len(Parts(n)) \in Nat
      BY <3>2, LenProperties
    <3>4. owed'[n][held'[n].off + 1] = [p \in 1..Len(Parts(n)) |-> Len(Parts(n)[p])]
      BY <3>1
    <3>5. Len(owed'[n][held'[n].off + 1]) = Len(Parts(n))
      BY <3>3, <3>4
    <3> QED BY <3>1, <3>2, <3>5
  <2>8. CASE WriteCopy(n)
    <3>1. cpc[n] = "write" /\ owed' = owed /\ held' = held
      BY <2>8, Zenon DEF WriteCopy
    <3>2. cpc'[n] \in {"next", "write"}
      <4>1. PICK p, j, s, c : CopyWritten(n, p, j, s, c)
        BY <2>8, WriteCopyFacts
      <4>2. cpc'[n] = (IF j = Len(Parts(n)[p]) /\ p = Len(Parts(n)) THEN "next" ELSE "write")
        BY <4>1, Zenon DEF CopyWritten
      <4> QED BY <4>2
    <3> QED BY <1>5, <3>1, <3>2
  <2> QED BY <2>1, <2>2, <2>3, <2>4, <2>5, <2>6, <2>7, <2>8 DEF Consumer
<1>7. CASE (~ \E m \in Nodes : Consumer(m)) /\ UNCHANGED <<owed, finished, tracked, answered>>
  <2>1. held'[n] = held[n] /\ (cpc'[n] = cpc[n] \/ cpc'[n] \notin {"route", "write"})
    <3>1. CASE UNCHANGED <<cpc, held, at, tracked, caller>>
      BY <3>1
    <3>2. CASE /\ UNCHANGED <<held, at, tracked, caller, source, sent>>
               /\ \E m \in Nodes : cpc[m] = "next" /\ cpc' = [cpc EXCEPT ![m] = "done"]
      BY <1>3, <3>2
    <3> QED BY <1>7, <3>1, <3>2, StepCases
  <2> QED BY <1>5, <1>7, <2>1
<1> QED BY <1>4, <1>6, <1>7, OwedCases

\* The answer to the last copy of a record: no part of it is owed any more.
LastAnswer(s, n, r) ==
    /\ Answer(s) /\ UNCHANGED <<cpc, held, at, tracked, sent, ran, source>>
    /\ r \in 1..Len(tracked[n]) /\ DOMAIN owed[n][r] # {} /\ DOMAIN owed'[n][r] = DOMAIN owed[n][r]
    /\ \A p \in DOMAIN owed[n][r] : owed'[n][r][p] = 0

\* What an answer does to the record r of node n.
LEMMA AnswerFinishes ==
    ASSUME TP!IndInv, Types, CopiesAreRecords, AnswersFollow, OwedIsOutstanding, NEW s \in Shards, Answer(s),
           UNCHANGED <<cpc, held, at, tracked, sent, ran, source>>, NEW n \in Nodes, NEW r \in 1..Len(tracked[n])
    PROVE  \/ owed'[n][r] = owed[n][r] /\ (r \in finished'[n] <=> r \in finished[n])
           \/ finished' = finished /\ \E p \in DOMAIN owed'[n][r] : owed'[n][r][p] # 0
           \/ r \in finished'[n] /\ LastAnswer(s, n, r)
<1> DEFINE c == sent[s][answered[s] + 1]
<1>1. \/ c.record = 0 /\ UNCHANGED <<owed, trackerVars>>
      \/ /\ c.node \in Nodes /\ c.record \in 1..Len(owed[c.node])
         /\ owed[c.node][c.record] \in Seq(Int) /\ c.part \in 1..Len(owed[c.node][c.record])
         /\ Decremented(owed', owed, c.node, c.record, c.part)
         /\ \/ /\ \A p \in DOMAIN owed[c.node][c.record] : owed'[c.node][c.record][p] = 0
               /\ T!Complete(c.node, c.record)
            \/ /\ \E p \in DOMAIN owed[c.node][c.record] : owed'[c.node][c.record][p] # 0
               /\ UNCHANGED trackerVars
  BY CallbackFacts, Zenon
<1> HIDE DEF c
<1>2. Len(owed'[n][r]) = Len(owed[n][r]) /\ owed[n][r] \in Seq(Int) /\ owed'[n][r] \in Seq(Int)
  BY AnswerLengths
<1>3. DOMAIN owed'[n][r] = DOMAIN owed[n][r]
  BY <1>2, LenProperties
<1>4. finished \in [Nodes -> SUBSET Nat] /\ Len(owed[n]) = Len(tracked[n])
  BY TrackerTypes DEF OwedIsOutstanding
<1>5. CASE UNCHANGED <<owed, trackerVars>>
  BY <1>5 DEF trackerVars
<1>6. CASE /\ c.node \in Nodes /\ c.record \in 1..Len(owed[c.node]) /\ ~ (c.node = n /\ c.record = r)
           /\ Decremented(owed', owed, c.node, c.record, c.part)
           /\ T!Complete(c.node, c.record) \/ UNCHANGED trackerVars
  <2>1. owed'[n][r] = owed[n][r]
    BY <1>4, <1>6 DEF Decremented
  <2>2. finished' = finished \/ finished' = [finished EXCEPT ![c.node] = @ \cup {c.record}]
    BY <1>6, CompleteFacts DEF trackerVars
  <2>3. r \in finished'[n] <=> r \in finished[n]
    BY <1>4, <1>6, <2>2
  <2> QED BY <2>1, <2>3
<1>7. CASE /\ c.node = n /\ c.record = r /\ owed[n][r] \in Seq(Int) /\ c.part \in 1..Len(owed[n][r])
           /\ \A p \in DOMAIN owed[n][r] : owed'[n][r][p] = 0
           /\ T!Complete(n, r)
  <2>1. finished' = [finished EXCEPT ![n] = @ \cup {r}]
    BY <1>7, CompleteFacts
  <2>2. r \in finished'[n]
    BY <1>4, <2>1
  <2>3. DOMAIN owed[n][r] # {}
    <3>1. DOMAIN owed[n][r] = 1..Len(owed[n][r])
      BY <1>7, LenProperties
    <3> QED BY <1>7, <3>1
  <2> QED BY <1>3, <1>7, <2>2, <2>3 DEF LastAnswer
<1>8. CASE /\ c.node = n /\ c.record = r
           /\ \E p \in DOMAIN owed[n][r] : owed'[n][r][p] # 0
           /\ UNCHANGED trackerVars
  BY <1>3, <1>8 DEF trackerVars
<1>9. CASE c.node = n /\ c.record = r
  BY <1>1, <1>5, <1>7, <1>8, <1>9
<1>10. CASE ~ (c.node = n /\ c.record = r)
  BY <1>1, <1>5, <1>6, <1>10
<1> QED BY <1>9, <1>10

\* A record that is not done is either not yet split, or a part of it is owed.
LEMMA UnfinishedStep ==
    ASSUME Inv, [Next]_vars
    PROVE  UnfinishedIsOwed'
<1> USE DEF Inv, OrderInv, CopyInv, OwedInv
<1>1. TP!IndInv /\ Types /\ HeldIsRead /\ TrackedInOrder /\ WritePosition /\ AnswersFollow /\ CopiesAreRecords
  OBVIOUS
<1>2. OwedIsOutstanding /\ OwedHasParts /\ UnfinishedIsOwed
  OBVIOUS
<1> USE <1>1, <1>2
<1> HIDE DEF Inv, OrderInv, CopyInv, OwedInv
<1> SUFFICES ASSUME NEW n \in Nodes, NEW r \in 1..Len(tracked'[n]), r \notin finished'[n]
             PROVE  \/ cpc'[n] = "route" /\ held'[n].off = r - 1
                    \/ \E p \in DOMAIN owed'[n][r] : owed'[n][r][p] # 0
  BY DEF UnfinishedIsOwed
<1>3. cpc[n] \in {"next", "track", "route", "write", "done"} /\ cpc \in [Nodes -> {"next", "track", "route", "write", "done"}]
  BY DEF Types
<1>4. /\ Len(tracked[n]) \in Nat /\ held[n].off \in Int
      /\ r \in 1..Len(tracked[n]) /\ r \notin finished[n] =>
            \/ cpc[n] = "route" /\ held[n].off = r - 1
            \/ \E p \in DOMAIN owed[n][r] : owed[n][r][p] # 0
  BY TrackedFacts DEF UnfinishedIsOwed
<1>5. ASSUME tracked'[n] = tracked[n], r \notin finished[n], owed'[n][r] = owed[n][r],
             cpc[n] = "route" /\ held[n].off = r - 1 => cpc'[n] = "route" /\ held'[n] = held[n]
      PROVE  \/ cpc'[n] = "route" /\ held'[n].off = r - 1
             \/ \E p \in DOMAIN owed'[n][r] : owed'[n][r][p] # 0
  BY <1>4, <1>5
<1>6. CASE \E s \in Shards : Answer(s) /\ UNCHANGED <<cpc, held, at, tracked, caller, source, sent, ran>>
  <2>1. PICK s \in Shards : Answer(s) /\ UNCHANGED <<cpc, held, at, tracked, sent, ran, source>>
    BY <1>6
  <2>2. r \in 1..Len(tracked[n])
    BY <2>1
  <2>3. \/ owed'[n][r] = owed[n][r] /\ (r \in finished'[n] <=> r \in finished[n])
        \/ finished' = finished /\ \E p \in DOMAIN owed'[n][r] : owed'[n][r][p] # 0
        \/ r \in finished'[n]
    BY <2>1, <2>2, AnswerFinishes
  <2> QED BY <1>5, <2>1, <2>3
<1>7. CASE \E m \in Nodes : Consumer(m)
  <2>1. PICK m \in Nodes : Consumer(m)
    BY <1>7
  <2>2. CASE m # n
    <3>1. /\ cpc'[n] = cpc[n] /\ held'[n] = held[n] /\ owed'[n] = owed[n]
          /\ tracked'[n] = tracked[n] /\ finished'[n] = finished[n]
      BY <2>1, <2>2, ConsumerKeeps
    <3> QED BY <1>5, <3>1
  <2>3. CASE Receive(n) \/ TakeSlot(n) \/ TrackRefused(n)
    <3>1. cpc[n] # "route" /\ tracked' = tracked /\ finished' = finished /\ owed' = owed
      BY <2>3, Zenon DEF Receive, TakeSlot, TrackRefused, T!Reserve, T!Refuse, trackerVars
    <3> QED BY <1>5, <3>1
  <2>4. CASE Track(n)
    <3>1. /\ cpc[n] = "track" /\ cpc'[n] = "route" /\ held' = held /\ finished' = finished
          /\ held[n].off \in Nat /\ Len(tracked[n]) = held[n].off
          /\ Len(tracked'[n]) = Len(tracked[n]) + 1 /\ Len(owed[n]) = Len(tracked[n])
          /\ \A q \in 1..Len(owed[n]) : owed'[n][q] = owed[n][q]
      BY <2>4, TrackFacts, Zenon
    <3>2. CASE r = Len(tracked'[n])
      BY <3>1, <3>2
    <3>3. CASE r # Len(tracked'[n])
      <4>1. r \in 1..Len(tracked[n])
        BY <1>4, <3>1, <3>3
      <4>2. owed'[n][r] = owed[n][r]
        BY <3>1, <4>1
      <4> QED BY <1>4, <3>1, <4>1, <4>2
    <3> QED BY <3>2, <3>3
  <2>5. CASE FilterOut(n)
    <3>1. /\ cpc[n] = "route" /\ tracked' = tracked /\ owed' = owed
          /\ held[n].off < 0 => finished' = finished
          /\ held[n].off >= 0 => finished'[n] = finished[n] \cup {held[n].off + 1}
      BY <2>5, FilterFacts, Zenon
    <3>2. held[n].off # r - 1 /\ r \notin finished[n]
      BY <1>4, <3>1
    <3> QED BY <1>5, <3>1, <3>2
  <2>6. CASE Route(n)
    <3>1. /\ cpc[n] = "route" /\ tracked' = tracked /\ held[n].off \in Int
          /\ cpc'[n] = (IF Parts(n) = <<>> THEN "next" ELSE "write") /\ Len(owed[n]) = Len(tracked[n])
          /\ held[n].off < 0 => owed'[n] = owed[n] /\ finished' = finished
          /\ held[n].off >= 0 =>
                /\ \A q \in 1..Len(owed[n]) : q # held[n].off + 1 => owed'[n][q] = owed[n][q]
                /\ owed'[n][held[n].off + 1] = [p \in 1..Len(Parts(n)) |-> Len(Parts(n)[p])]
                /\ Parts(n) = <<>> => finished'[n] = finished[n] \cup {held[n].off + 1}
          /\ Parts(n) # <<>> => finished' = finished
      BY <2>6, RouteFacts, Zenon
    <3>2. CASE held[n].off < 0
      <4>1. held[n].off # r - 1
        BY <1>4, <3>1, <3>2
      <4> QED BY <1>5, <3>1, <3>2, <4>1
    <3>3. CASE held[n].off >= 0 /\ r # held[n].off + 1
      <4>1. held[n].off # r - 1 /\ r \in 1..Len(owed[n])
        BY <1>4, <3>1, <3>3
      <4>2. owed'[n][r] = owed[n][r] /\ r \notin finished[n]
        BY <3>1, <3>3, <4>1
      <4> QED BY <1>5, <3>1, <4>1, <4>2
    <3>4. CASE held[n].off >= 0 /\ r = held[n].off + 1
      <4>1. Parts(n) # <<>>
        BY <3>1, <3>4
      <4>2. Parts(n) \in Seq(Seq(Shards) \ {<<>>})
        BY ItemFacts DEF Types, Parts
      <4>3. Len(Parts(n)) \in Nat /\ Len(Parts(n)) # 0 /\ 1 \in 1..Len(Parts(n))
        <5>1. Len(Parts(n)) \in Nat /\ Len(Parts(n)) # 0
          BY <4>1, <4>2, LenProperties, EmptySeq
        <5> QED BY <5>1
      <4>4. Parts(n)[1] \in Seq(Shards) \ {<<>>}
        BY <4>2, <4>3, ElementOfSeq
      <4>5. Len(Parts(n)[1]) # 0
        BY <4>4, LenProperties, EmptySeq
      <4>6. owed'[n][r] = [p \in 1..Len(Parts(n)) |-> Len(Parts(n)[p])]
        BY <3>1, <3>4
      <4>7. 1 \in DOMAIN owed'[n][r] /\ owed'[n][r][1] # 0
        BY <4>3, <4>5, <4>6
      <4> QED BY <4>7
    <3> QED BY <3>1, <3>2, <3>3, <3>4
  <2>7. CASE WriteCopy(n)
    <3>1. cpc[n] = "write" /\ owed' = owed /\ tracked' = tracked /\ finished' = finished
      BY <2>7, Zenon DEF WriteCopy, trackerVars
    <3> QED BY <1>5, <3>1
  <2> QED BY <2>1, <2>2, <2>3, <2>4, <2>5, <2>6, <2>7 DEF Consumer
<1>8. CASE (~ \E m \in Nodes : Consumer(m)) /\ UNCHANGED <<owed, finished, tracked, answered>>
  <2>1. held'[n] = held[n] /\ (cpc[n] = "route" => cpc'[n] = "route")
    <3>1. CASE UNCHANGED <<cpc, held, at, tracked, caller>>
      BY <3>1
    <3>2. CASE /\ UNCHANGED <<held, at, tracked, caller, source, sent>>
               /\ \E m \in Nodes : cpc[m] = "next" /\ cpc' = [cpc EXCEPT ![m] = "done"]
      BY <1>3, <3>2
    <3> QED BY <1>8, <3>1, <3>2, StepCases
  <2> QED BY <1>5, <1>8, <2>1
<1> QED BY <1>6, <1>7, <1>8, OwedCases

\* What the shards have executed stays executed.
LEMMA AppliedStays ==
    ASSUME TP!IndInv, Types, HeldIsRead, TrackedInOrder, WritePosition, AnswersFollow, [Next]_vars,
           NEW item \in Item, NEW n, Applied(n, item)
    PROVE  Applied(n, item)'
<1> SUFFICES ASSUME item.cmd.pass, NEW p \in 1..Len(item.cmd.parts), NEW j \in 1..Len(item.cmd.parts[p])
             PROVE  \E k \in 1..ran'[item.cmd.parts[p][j]] :
                        /\ sent'[item.cmd.parts[p][j]][k].node = n /\ sent'[item.cmd.parts[p][j]][k].off = item.off
                        /\ sent'[item.cmd.parts[p][j]][k].part = p
  BY Zenon DEF Applied
<1>1. PICK s \in Shards : s = item.cmd.parts[p][j]
  BY ShardOf
<1>2. PICK k \in 1..ran[s] : sent[s][k].node = n /\ sent[s][k].off = item.off /\ sent[s][k].part = p
  BY <1>1, Zenon DEF Applied
<1>3. ran[s] \in Nat /\ ran'[s] \in Nat /\ ran[s] <= ran'[s] /\ ran[s] <= Len(sent[s]) /\ Len(sent[s]) \in Nat
  BY AnswersStep, SentKept DEF AnswersFollow
<1>4. k \in 1..Len(sent[s]) /\ k \in 1..ran'[s]
  BY <1>3
<1>5. sent'[s][k] = sent[s][k]
  BY <1>4, SentKept
<1>6. k \in 1..ran'[s] /\ sent'[s][k].node = n /\ sent'[s][k].off = item.off /\ sent'[s][k].part = p
  BY <1>2, <1>4, <1>5
<1> QED BY <1>1, <1>6, Zenon

\* A copy whose record has nothing outstanding after a step was answered.
LEMMA NotOutstanding ==
    ASSUME Types, Types', AnswersFollow', CopiesAreRecords, sent' = sent, NEW n, NEW off \in Int, off >= 0, NEW p,
           NEW s \in Shards, NEW k \in 1..Len(sent[s]), IsCopy(sent[s][k], n, off, p),
           OutstandingOf(sent', answered', n, off + 1, p) = {}
    PROVE  k <= ran'[s]
<1>1. /\ answered'[s] \in Nat /\ ran'[s] \in Nat /\ answered'[s] <= ran'[s] /\ Len(sent[s]) \in Nat /\ k \in Nat
  BY LenProperties DEF Types, AnswersFollow
<1>2. sent[s][k].node = n /\ sent[s][k].part = p /\ sent[s][k].record = off + 1
  <2>1. sent[s][k].node = n /\ sent[s][k].part = p /\ sent[s][k].off = off
    BY DEF IsCopy
  <2>2. sent[s][k].record = IF sent[s][k].off < 0 THEN 0 ELSE sent[s][k].off + 1
    BY Zenon DEF CopiesAreRecords
  <2> QED BY <2>1, <2>2
<1>3. <<s, k>> \notin OutstandingOf(sent, answered', n, off + 1, p)
  OBVIOUS
<1>4. ~ (k \in (answered'[s] + 1)..Len(sent[s]))
  BY <1>1, <1>2, <1>3 DEF OutstandingOf
<1> QED BY <1>1, <1>4

\* An item that was handed out and of which no copy is outstanding any more was executed.
LEMMA SentIsApplied ==
    ASSUME Types, Types', AnswersFollow', CopiesAreRecords, sent' = sent, NEW n, NEW item \in Item, item.off >= 0,
           Sent(n, item), \A p : OutstandingOf(sent', answered', n, item.off + 1, p) = {}
    PROVE  Applied(n, item)'
<1> SUFFICES ASSUME item.cmd.pass, NEW p \in 1..Len(item.cmd.parts), NEW j \in 1..Len(item.cmd.parts[p])
             PROVE  \E k \in 1..ran'[item.cmd.parts[p][j]] :
                        /\ sent'[item.cmd.parts[p][j]][k].node = n /\ sent'[item.cmd.parts[p][j]][k].off = item.off
                        /\ sent'[item.cmd.parts[p][j]][k].part = p
  BY Zenon DEF Applied
<1>1. PICK s \in Shards : s = item.cmd.parts[p][j]
  BY ShardOf
<1>2. HasCopy(s, n, item.off, p)
  BY <1>1, Zenon DEF Sent
<1>3. PICK k \in 1..Len(sent[s]) : IsCopy(sent[s][k], n, item.off, p)
  BY <1>2 DEF HasCopy
<1>4. item.off \in Int
  BY ItemFacts
<1>5. k <= ran'[s] /\ ran'[s] \in Nat
  BY <1>3, <1>4, NotOutstanding DEF Types
<1>6. k \in 1..ran'[s]
  BY <1>5
<1> QED BY <1>1, <1>3, <1>6, Zenon DEF IsCopy

\* When the last copy of a record is answered, the consumer is through with its item
\* and nothing of it is outstanding.
LEMMA LastAnswerLeavesNothing ==
    ASSUME Inv, [Next]_vars, NEW n \in Nodes, NEW r \in 1..Len(tracked[n]), NEW s \in Shards, LastAnswer(s, n, r)
    PROVE  Handled(n, r - 1) /\ \A p : OutstandingOf(sent', answered', n, r, p) = {}
<1> USE DEF Inv, OrderInv, CopyInv, OwedInv
<1>1. TP!IndInv /\ Types /\ HeldIsRead /\ TrackedInOrder /\ WritePosition /\ AnswersFollow /\ CopiesAreRecords
  OBVIOUS
<1>2. OwedIsOutstanding /\ OwedHasParts /\ Types' /\ OwedIsOutstanding' /\ CopiesAreRecords' /\ AnswersFollow'
  BY TypesStep, OwedStep, CopyStep
<1> USE <1>1, <1>2
<1> HIDE DEF Inv, OrderInv, CopyInv, OwedInv
<1>3. /\ UNCHANGED <<cpc, held, at, tracked, sent>>
      /\ DOMAIN owed[n][r] # {} /\ DOMAIN owed'[n][r] = DOMAIN owed[n][r]
      /\ \A p \in DOMAIN owed[n][r] : owed'[n][r][p] = 0
  BY DEF LastAnswer
<1>4. /\ Len(tracked[n]) \in Nat /\ held[n].off \in Int /\ r \in Int /\ r >= 1 /\ r # 0 /\ r <= Len(tracked[n])
      /\ Len(tracked[n]) <= held[n].off + 1
  BY TrackedFacts
<1>5. ASSUME NEW p \in DOMAIN owed[n][r]
      PROVE  /\ IsFiniteSet(OutstandingOf(sent', answered', n, r, p))
             /\ 0 = Cardinality(OutstandingOf(sent', answered', n, r, p)) + Unsent(n, r, p)
  <2>1. Counted(n, r, p)'
    BY <1>3 DEF OwedIsOutstanding
  <2>2. Unsent(n, r, p)' = Unsent(n, r, p)
    BY <1>3, UnsentKept
  <2>3. owed'[n][r][p] = 0
    BY <1>3
  <2> QED BY <2>1, <2>2, <2>3 DEF Counted, Outstanding
<1>6. ~ (cpc[n] = "write" /\ held[n].off = r - 1)
  <2> SUFFICES ASSUME cpc[n] = "write", held[n].off = r - 1 PROVE FALSE
    OBVIOUS
  <2>1. held[n].off >= 0 /\ held[n].off + 1 = r
    BY <1>4
  <2>2. Len(owed[n][r]) = Len(Parts(n))
    BY <2>1 DEF OwedHasParts
  <2>3. PICK p : p = at[n][1]
    OBVIOUS
  <2>4. PICK j : j = at[n][2]
    OBVIOUS
  <2>5. p \in 1..Len(Parts(n)) /\ j \in 1..Len(Parts(n)[p])
    BY <2>3, <2>4 DEF WritePosition, WriteAt
  <2>6. owed[n][r] \in Seq(Int)
    BY <1>3, AnswerLengths DEF LastAnswer
  <2>7. p \in DOMAIN owed[n][r]
    BY <2>2, <2>5, <2>6, LenProperties
  <2>8. Unsent(n, r, p) = Len(Parts(n)[p]) - j + 1
    <3>1. ~ (p < p)
      BY <2>5
    <3> QED BY <2>3, <2>4, <3>1 DEF Unsent
  <2>9. Len(Parts(n)[p]) \in Nat
    <3>1. Parts(n) \in Seq(Seq(Shards) \ {<<>>})
      BY ItemFacts DEF Types, Parts
    <3>2. Parts(n)[p] \in Seq(Shards)
      BY <2>5, <3>1, ElementOfSeq
    <3> QED BY <3>2, LenProperties
  <2>10. Cardinality(OutstandingOf(sent', answered', n, r, p)) \in Nat
    BY <1>5, <2>7, FS_CardinalityType
  <2>11. 0 = Cardinality(OutstandingOf(sent', answered', n, r, p)) + Unsent(n, r, p)
    BY <1>5, <2>7
  <2>12. Unsent(n, r, p) \in Nat /\ Unsent(n, r, p) >= 1
    <3>1. \A l \in Nat : \A i \in 1..l : l - i + 1 \in Nat /\ l - i + 1 >= 1
      OBVIOUS
    <3>2. Len(Parts(n)[p]) - j + 1 \in Nat /\ Len(Parts(n)[p]) - j + 1 >= 1
      BY <2>5, <2>9, <3>1
    <3> QED BY <2>8, <3>2, Zenon
  <2> QED BY <2>10, <2>11, <2>12
<1>7. ~ (cpc[n] = "route" /\ held[n].off = r - 1)
  <2> SUFFICES ASSUME cpc[n] = "route", held[n].off = r - 1 PROVE FALSE
    OBVIOUS
  <2>1. held[n].off >= 0 /\ held[n].off + 1 = r
    BY <1>4
  <2>2. owed[n][r] = <<>>
    BY <2>1 DEF OwedHasParts
  <2> QED BY <1>3, <2>2
<1>8. ~ (cpc[n] = "track" /\ held[n].off = r - 1)
  <2> SUFFICES ASSUME cpc[n] = "track", held[n].off = r - 1 PROVE FALSE
    OBVIOUS
  <2>1. Len(tracked[n]) = held[n].off
    BY <1>4 DEF TrackedInOrder, TrackedAt, HeldIsRead, HeldAt
  <2> QED BY <1>4, <2>1
<1>9. Handled(n, r - 1)
  <2>1. cpc[n] \in {"next", "track", "route", "write", "done"}
    BY DEF Types
  <2>2. r - 1 < held[n].off \/ (r - 1 = held[n].off /\ cpc[n] \in {"next", "done"})
    BY <1>4, <1>6, <1>7, <1>8, <2>1
  <2> QED BY <1>4, <2>2 DEF Handled
<1>10. ASSUME NEW p PROVE OutstandingOf(sent', answered', n, r, p) = {}
  <2>1. CASE p \in DOMAIN owed[n][r]
    <3>1. Unsent(n, r, p) = 0
      BY <1>6 DEF Unsent
    <3>2. Cardinality(OutstandingOf(sent', answered', n, r, p)) \in Nat
      BY <1>5, <2>1, FS_CardinalityType
    <3>3. Cardinality(OutstandingOf(sent', answered', n, r, p)) = 0
      BY <1>5, <2>1, <3>1, <3>2
    <3> QED BY <1>5, <2>1, <3>3, FS_EmptySet
  <2>2. CASE p \notin DOMAIN owed[n][r]
    <3>1. OutstandingOf(sent, answered, n, r, p) = {}
      BY <1>4, <2>2, NothingOutstanding
    <3>2. OutstandingOf(sent', answered', n, r, p) = OutstandingOf(sent, answered, n, r, p) \ {<<s, answered[s] + 1>>}
      BY AnsweredOutstanding DEF LastAnswer
    <3> QED BY <3>1, <3>2
  <2> QED BY <2>1, <2>2
<1> QED BY <1>9, <1>10

\* Which step marks a record as done.
LEMMA FinishedCases ==
    ASSUME TP!IndInv, Types, HeldIsRead, TrackedInOrder, WritePosition, AnswersFollow, CopiesAreRecords,
           OwedIsOutstanding, [Next]_vars, TP!IndInv', NEW n \in Nodes, NEW r \in finished'[n], r \notin finished[n]
    PROVE  \/ held[n].off = r - 1 /\ (~ held[n].cmd.pass \/ Parts(n) = <<>>)
           \/ \E s \in Shards : LastAnswer(s, n, r)
<1>1. finished \in [Nodes -> SUBSET Nat] /\ held[n].off \in Int /\ Len(tracked[n]) \in Nat
  BY TrackerTypes, TrackedFacts
<1>2. CASE \E m \in Nodes : Consumer(m)
  <2>1. PICK m \in Nodes : Consumer(m)
    BY <1>2
  <2>2. CASE m # n
    BY <2>1, <2>2, ConsumerKeeps
  <2>3. CASE Receive(n) \/ TakeSlot(n) \/ Track(n) \/ TrackRefused(n) \/ WriteCopy(n)
    <3>1. finished' = finished
      BY <2>3, Zenon DEF Receive, TakeSlot, Track, TrackRefused, WriteCopy, T!Reserve, T!Refuse, T!Register, trackerVars
    <3> QED BY <3>1
  <2>4. CASE FilterOut(n)
    <3>1. /\ ~ held[n].cmd.pass
          /\ held[n].off < 0 => finished' = finished
          /\ held[n].off >= 0 => finished'[n] = finished[n] \cup {held[n].off + 1}
      BY <2>4, FilterFacts, Zenon
    <3> QED BY <1>1, <3>1
  <2>5. CASE Route(n)
    <3>1. /\ held[n].off < 0 => finished' = finished
          /\ held[n].off >= 0 => (Parts(n) = <<>> => finished'[n] = finished[n] \cup {held[n].off + 1})
          /\ Parts(n) # <<>> => finished' = finished
      BY <2>5, RouteFacts, Zenon
    <3> QED BY <1>1, <3>1
  <2> QED BY <2>1, <2>2, <2>3, <2>4, <2>5 DEF Consumer
<1>3. CASE \E s \in Shards : Answer(s) /\ UNCHANGED <<cpc, held, at, tracked, caller, source, sent, ran>>
  <2>1. PICK s \in Shards : Answer(s) /\ UNCHANGED <<cpc, held, at, tracked, sent, ran, source>>
    BY <1>3
  <2>2. r \in 1..Len(tracked[n])
    <3>1. finished'[n] \subseteq 1..Len(tracked'[n])
      BY DEF TP!IndInv, TP!PassedIsFinished
    <3> QED BY <2>1, <3>1
  <2>3. \/ owed'[n][r] = owed[n][r] /\ (r \in finished'[n] <=> r \in finished[n])
        \/ finished' = finished
        \/ LastAnswer(s, n, r)
    BY <2>1, <2>2, AnswerFinishes
  <2> QED BY <2>3
<1>4. CASE UNCHANGED <<owed, finished, tracked, answered>>
  BY <1>4
<1> QED BY <1>2, <1>3, <1>4, OwedCases

\* Every step keeps what is done executed.
LEMMA FinishedStep ==
    ASSUME Inv, [Next]_vars
    PROVE  FinishedIsApplied'
<1> USE DEF Inv, OrderInv, CopyInv, OwedInv
<1>1. TP!IndInv /\ Types /\ HeldIsRead /\ TrackedInOrder /\ WritePosition /\ AnswersFollow /\ CopiesAreRecords
  OBVIOUS
<1>2. /\ OwedIsOutstanding /\ FinishedIsApplied /\ HandledIsSent /\ SourceGrows
      /\ Types' /\ AnswersFollow' /\ SourceGrows'
  BY TypesStep, CopyStep, OrderStep
<1>3. TP!IndInv'
  <2>1. [T!Next]_(T!vars)
    BY <1>1, <1>2, TrackerStep
  <2> QED BY <1>1, <2>1, TrackerInvStep
<1> USE <1>1, <1>2, <1>3
<1> HIDE DEF Inv, OrderInv, CopyInv, OwedInv
<1> SUFFICES ASSUME NEW n \in Nodes, NEW r \in finished'[n], NEW i \in Positions(n)', source'[n][i].off = r - 1
             PROVE  \A item : item = source'[n][i] => Applied(n, item)'
  BY Zenon DEF FinishedIsApplied
<1>4. /\ r \in 1..Len(tracked'[n]) /\ Len(tracked[n]) \in Nat /\ held[n].off \in Int /\ Len(tracked'[n]) \in Nat
      /\ Len(tracked[n]) <= held[n].off + 1 \/ Len(tracked[n]) = 0
  <2>1. finished'[n] \subseteq 1..Len(tracked'[n]) /\ tracked'[n] \in Seq(Offsets)
    BY DEF TP!IndInv, TP!PassedIsFinished, TP!TypeOK
  <2> QED BY <2>1, TrackedFacts, LenProperties
<1>5. CASE i \notin Positions(n)
  <2>1. source'[n][i].off > held[n].off /\ source'[n][i].off \in Int
    BY <1>5, NewIsBehind
  <2>2. tracked' = tracked
    <3>1. ~ \E m \in Nodes : Consumer(m)
      BY <1>5, ConsumerKeeps DEF Positions
    <3> QED BY <3>1, StepCases
  <2> QED BY <1>4, <2>1, <2>2
<1>6. CASE i \in Positions(n)
  <2>1. PICK item : item = source[n][i]
    OBVIOUS
  <2>2. source'[n][i] = item /\ item.off = r - 1 /\ item \in Item
    <3>1. source'[n][i] = item
      BY <1>6, <2>1, SourceKept
    <3>2. item \in Item
      BY <1>6, <2>1, ElementOfSeq DEF Types, Positions
    <3> QED BY <3>1, <3>2
  <2>3. CASE r \in finished[n]
    <3>1. Applied(n, item)
      BY <1>6, <2>1, <2>2, <2>3 DEF FinishedIsApplied
    <3>2. Applied(n, item)'
      BY <2>2, <3>1, AppliedStays
    <3> QED BY <2>2, <3>2
  <2>4. CASE r \notin finished[n] /\ held[n].off = r - 1 /\ (~ held[n].cmd.pass \/ Parts(n) = <<>>)
    <3>1. item = held[n]
      BY <1>6, <2>1, <2>2, <2>4, HeldIsUnique
    <3>2. ~ item.cmd.pass \/ item.cmd.parts = <<>>
      BY <2>4, <3>1 DEF Parts
    <3>3. Applied(n, item)'
      BY <3>2 DEF Applied
    <3> QED BY <2>2, <3>3
  <2>5. ASSUME NEW s \in Shards, LastAnswer(s, n, r) PROVE Applied(n, item)'
    <3>1. sent' = sent /\ r \in 1..Len(tracked[n])
      BY <2>5 DEF LastAnswer
    <3>2. Handled(n, r - 1) /\ \A p : OutstandingOf(sent', answered', n, r, p) = {}
      BY <2>5, <3>1, LastAnswerLeavesNothing
    <3>3. Sent(n, item)
      BY <1>6, <2>1, <2>2, <3>2 DEF HandledIsSent, HandledAt
    <3>4. item.off >= 0 /\ item.off + 1 = r
      BY <2>2, <3>1
    <3>5. \A p : OutstandingOf(sent', answered', n, item.off + 1, p) = {}
      BY <3>2, <3>4
    <3> QED BY <2>2, <3>1, <3>3, <3>4, <3>5, SentIsApplied
  <2>6. CASE r \notin finished[n]
    <3>1. \/ held[n].off = r - 1 /\ (~ held[n].cmd.pass \/ Parts(n) = <<>>)
          \/ \E s \in Shards : LastAnswer(s, n, r)
      BY <2>6, FinishedCases
    <3>2. CASE \E s \in Shards : LastAnswer(s, n, r)
      BY <2>2, <2>5, <3>2
    <3> QED BY <2>4, <2>6, <3>1, <3>2
  <2> QED BY <2>3, <2>6
<1> QED BY <1>5, <1>6

-----------------------------------------------------------------------------
(***************************************************************************)
(* The end of the process, and the recorder.                               *)
(***************************************************************************)
\* Who moves the main goroutine and the recorder, and who the shown offsets.
LEMMA MainCases ==
    ASSUME [Next]_vars
    PROVE  \/ mpc # "exited" /\ (\E n \in Nodes : Consumer(n)) /\ UNCHANGED <<mainVars, recorderVars>>
           \/ mpc # "exited" /\ (\E s \in Shards : Answer(s)) /\ UNCHANGED <<mainVars, recorderVars, cpc, sent>>
           \/ mpc # "exited" /\ Main /\ UNCHANGED <<known, offset, recorderVars, answered>>
           \/ mpc # "exited" /\ Recorder /\ UNCHANGED <<known, offset, cpc, sent, answered>>
           \/ UNCHANGED <<known, offset, cpc, sent, answered, mainVars, recorderVars>>
<1> USE DEF consumerVars, targetVars, trackerVars
<1>1. ASSUME NEW n \in Nodes, Consumer(n) PROVE UNCHANGED <<mainVars, recorderVars>>
  BY <1>1, Zenon DEF Consumer, Receive, TakeSlot, Track, TrackRefused, FilterOut, Route, WriteCopy
<1>2. ASSUME NEW s \in Shards, Answer(s) PROVE UNCHANGED <<mainVars, recorderVars, cpc, sent>>
  BY <1>2, Zenon DEF Answer
<1>3. ASSUME Main PROVE UNCHANGED <<known, offset, recorderVars, answered>>
  BY <1>3, Zenon DEF Main, StartPing, WritePing, CloseWriter, ReaderDone
<1>4. ASSUME Recorder PROVE UNCHANGED <<known, offset, cpc, sent, answered>>
  BY <1>4, Zenon DEF Recorder, StartFlush, StartLastFlush, Sample, Commit, CommitError, EndFlush
<1>5. ASSUME NEW n \in Nodes, Reader(n) PROVE UNCHANGED <<known, offset, cpc, sent, answered, mainVars, recorderVars>>
  BY <1>5, Zenon DEF Reader, SendSnapshot, EndSnapshot, SendFence, SkipFence, ReadCommand, SendCommand, SkipProgress,
                     StopReading
<1>6. ASSUME Cancel \/ Die \/ UNCHANGED vars \/ \E s \in Shards : Execute(s)
      PROVE  UNCHANGED <<known, offset, cpc, sent, answered, mainVars, recorderVars>>
  BY <1>6, Zenon DEF Cancel, Die, vars, Execute, T!Cancel
<1> HIDE DEF consumerVars, targetVars, trackerVars
<1>7. CASE UNCHANGED vars
  BY <1>6, <1>7
<1>8. CASE Next
  BY <1>1, <1>2, <1>3, <1>4, <1>5, <1>6, <1>8, Zenon DEF Next
<1> QED BY <1>7, <1>8

\* Once every consumer is done none of them takes a step, and once every copy is
\* answered there is no answer to come.
LEMMA NothingLeft ==
    ASSUME Types, AnswersFollow, EndInv
    PROVE  /\ mpc \in {"close", "stopflush", "exited"} => ~ \E n \in Nodes : Consumer(n)
           /\ mpc \in {"stopflush", "exited"} => ~ \E s \in Shards : Answer(s)
<1>1. ASSUME NEW n \in Nodes, Consumer(n) PROVE cpc[n] # "done"
  BY <1>1, Zenon DEF Consumer, Receive, TakeSlot, Track, TrackRefused, FilterOut, Route, WriteCopy
<1>2. ASSUME NEW s \in Shards, Answer(s) PROVE answered[s] # Len(sent[s])
  <2>1. answered[s] < ran[s]
    BY <1>2 DEF Answer
  <2> QED BY <2>1, LenProperties DEF Types, AnswersFollow
<1> QED BY <1>1, <1>2 DEF EndInv

\* What the steps of the main goroutine do to it.
LEMMA MainSteps ==
    ASSUME Types, Main
    PROVE  \/ mpc \in {"loop", "ping"} /\ mpc' \in {"loop", "ping"}
           \/ mpc = "loop" /\ mpc' = "close" /\ \A n \in Nodes : cpc'[n] = "done"
           \/ mpc = "close" /\ mpc' = "stopflush" /\ UNCHANGED <<cpc, sent>> /\ \A s \in Shards : answered[s] = Len(sent[s])
<1>1. CASE StartPing \/ WritePing
  BY <1>1 DEF StartPing, WritePing
<1>2. CASE CloseWriter
  BY <1>2 DEF CloseWriter, consumerVars, targetVars
<1>3. ASSUME NEW n \in Nodes, ReaderDone(n)
      PROVE  \/ mpc \in {"loop", "ping"} /\ mpc' \in {"loop", "ping"}
             \/ mpc = "loop" /\ mpc' = "close" /\ \A m \in Nodes : cpc'[m] = "done"
  <2>1. /\ mpc = "loop" /\ cpc' = [cpc EXCEPT ![n] = "done"]
        /\ mpc' = IF \A m \in Nodes \ {n} : cpc[m] = "done" THEN "close" ELSE "loop"
    BY <1>3 DEF ReaderDone
  <2>2. \A m \in Nodes : cpc'[m] = IF m = n THEN "done" ELSE cpc[m]
    BY <2>1 DEF Types
  <2> QED BY <2>1, <2>2
<1> QED BY <1>1, <1>2, <1>3 DEF Main

\* What the steps of the recorder do to the main goroutine.
LEMMA RecorderSteps ==
    ASSUME Recorder
    PROVE  \/ EndFlush /\ (Commit \/ CommitError)
           \/ UNCHANGED <<mpc, saved, table, flushOk>> /\ fpc' # "returned" /\ fpc # "returned" /\ (StartFlush \/ StartLastFlush)
           \/ UNCHANGED <<mpc, saved, table, flushOk, fpc>> /\ \E n \in Nodes : Sample(n)
BY Zenon DEF Recorder, StartFlush, StartLastFlush, Sample, Commit, CommitError, mainVars

\* The main goroutine closes the writer when all consumers are done, and goes on when
\* every copy is answered.
LEMMA EndStep ==
    ASSUME Inv, [Next]_vars
    PROVE  EndInv'
<1>1. Types /\ AnswersFollow /\ EndInv /\ RecorderInv
  BY DEF Inv, CopyInv
<1>2. /\ mpc \in {"close", "stopflush", "exited"} => \A n \in Nodes : cpc[n] = "done"
      /\ mpc \in {"stopflush", "exited"} => \A s \in Shards : answered[s] = Len(sent[s])
      /\ fpc = "last" => mpc = "stopflush"
  BY <1>1 DEF EndInv, RecorderInv
<1>3. /\ mpc \in {"close", "stopflush", "exited"} => ~ \E n \in Nodes : Consumer(n)
      /\ mpc \in {"stopflush", "exited"} => ~ \E s \in Shards : Answer(s)
  BY <1>1, NothingLeft
<1>4. CASE (\E n \in Nodes : Consumer(n)) /\ UNCHANGED <<mainVars, recorderVars>>
  BY <1>3, <1>4 DEF EndInv, mainVars
<1>5. CASE (\E s \in Shards : Answer(s)) /\ UNCHANGED <<mainVars, recorderVars, cpc, sent>>
  BY <1>2, <1>3, <1>5 DEF EndInv, mainVars
<1>6. CASE Main /\ UNCHANGED <<known, offset, recorderVars, answered>>
  <2>1. \/ mpc \in {"loop", "ping"} /\ mpc' \in {"loop", "ping"}
        \/ mpc = "loop" /\ mpc' = "close" /\ \A n \in Nodes : cpc'[n] = "done"
        \/ mpc = "close" /\ mpc' = "stopflush" /\ UNCHANGED <<cpc, sent>> /\ \A s \in Shards : answered[s] = Len(sent[s])
    BY <1>1, <1>6, MainSteps
  <2>2. CASE mpc \in {"loop", "ping"} /\ mpc' \in {"loop", "ping"}
    BY <2>2 DEF EndInv
  <2>3. CASE mpc = "loop" /\ mpc' = "close" /\ \A n \in Nodes : cpc'[n] = "done"
    BY <2>3 DEF EndInv
  <2>4. CASE mpc = "close" /\ mpc' = "stopflush" /\ UNCHANGED <<cpc, sent>> /\ \A s \in Shards : answered[s] = Len(sent[s])
    BY <1>2, <1>6, <2>4 DEF EndInv
  <2> QED BY <2>1, <2>2, <2>3, <2>4
<1>7. CASE Recorder /\ UNCHANGED <<known, offset, cpc, sent, answered>>
  <2>1. mpc' = mpc \/ (fpc = "last" /\ mpc' = "exited")
    BY <1>7, RecorderSteps DEF EndFlush
  <2> QED BY <1>2, <1>7, <2>1 DEF EndInv
<1>8. CASE UNCHANGED <<known, offset, cpc, sent, answered, mainVars, recorderVars>>
  BY <1>2, <1>8 DEF EndInv, mainVars
<1> QED BY <1>4, <1>5, <1>6, <1>7, <1>8, MainCases

\* No shown offset moves back, so a row that was shown stays shown.
LEMMA RowStaysShown ==
    ASSUME \A n \in Nodes : known[n] => known'[n] /\ offset[n] <= offset'[n],
           offset \in [Nodes -> Offsets], offset' \in [Nodes -> Offsets], NEW row \in Row, RowIsShown(row)
    PROVE  RowIsShown(row)'
<1> SUFFICES ASSUME NEW n \in Nodes, row[n] # None PROVE known'[n] /\ row[n] <= offset'[n]
  BY DEF RowIsShown
<1>1. known[n] /\ row[n] <= offset[n] /\ known'[n] /\ offset[n] <= offset'[n]
  BY DEF RowIsShown
<1>2. row[n] \in Int /\ offset[n] \in Int /\ offset'[n] \in Int
  BY BoundsAssumption DEF Row, Offsets, None
<1> QED BY <1>1, <1>2

\* The rows of a commit.
LEMMA CommittedRow ==
    ASSUME Types, saved = table, RowIsShown(table), RowIsShown(batch), NEW n \in Nodes
    PROVE  /\ Updated(table)[n] = (IF batch[n] # None THEN batch[n] ELSE table[n])
           /\ Updated(table)[n] # None => known[n] /\ Updated(table)[n] <= offset[n]
<1>1. Updated(table)[n] = IF batch[n] # None /\ table[n] # batch[n] THEN batch[n] ELSE table[n]
  BY DEF Updated
<1>2. Updated(table)[n] = IF batch[n] # None THEN batch[n] ELSE table[n]
  BY <1>1
<1> QED BY <1>2 DEF RowIsShown

\* After the end of the writer the shown offsets are final.
LEMMA FinalOffsets ==
    ASSUME Inv, [Next]_vars, mpc \in {"stopflush", "exited"}
    PROVE  UNCHANGED <<known, offset>>
<1>1. Types /\ AnswersFollow /\ EndInv
  BY DEF Inv, CopyInv
<1>2. (~ \E n \in Nodes : Consumer(n)) /\ (~ \E s \in Shards : Answer(s))
  BY <1>1, NothingLeft
<1> QED BY <1>2, MainCases

\* The recorder samples, commits and fails without showing more than the tracker.
LEMMA RecorderStep ==
    ASSUME Inv, [Next]_vars
    PROVE  RecorderInv'
<1>1. TP!IndInv /\ Types /\ RecorderInv /\ Types'
  BY TypesStep DEF Inv
<1>2. TP!IndInv' /\ \A n \in Nodes : known[n] => known'[n] /\ offset[n] <= offset'[n]
  <2>1. [T!Next]_(T!vars)
    BY TrackerStep DEF Inv, OrderInv, CopyInv, OwedInv
  <2> QED BY <1>1, <2>1, TrackerInvStep
<1>3. /\ saved = table /\ RowIsShown(table) /\ RowIsShown(batch)
      /\ fpc = "last" => mpc = "stopflush" /\ \A n \in Nodes \ unread : batch[n] = Shown(n)
      /\ fpc = "returned" <=> mpc = "exited"
      /\ mpc = "exited" /\ flushOk => \A n \in Nodes : table[n] = Shown(n)
  BY <1>1 DEF RecorderInv
<1>4. /\ offset \in [Nodes -> Offsets] /\ offset' \in [Nodes -> Offsets] /\ known \in [Nodes -> BOOLEAN]
      /\ table \in Row /\ batch \in Row
  <2>1. Offsets \cup {0} = Offsets
    BY BoundsAssumption DEF Offsets
  <2>2. /\ offset \in [Nodes -> Offsets \cup {0}] /\ offset' \in [Nodes -> Offsets \cup {0}]
        /\ known \in [Nodes -> BOOLEAN]
    BY <1>1, <1>2, Zenon DEF TP!IndInv, TP!TypeOK
  <2>3. table \in Row /\ batch \in Row
    BY <1>1 DEF Types
  <2> QED BY <2>1, <2>2, <2>3
<1>5. ASSUME NEW row \in Row, RowIsShown(row) PROVE RowIsShown(row)'
  BY <1>2, <1>4, <1>5, RowStaysShown
<1>6. ASSUME mpc \in {"stopflush", "exited"} PROVE \A n \in Nodes : Shown(n)' = Shown(n)
  BY <1>6, FinalOffsets DEF Shown
<1>7. ASSUME UNCHANGED recorderVars, mpc' # "exited", mpc # "exited", mpc = "stopflush" => mpc' = "stopflush"
      PROVE  RecorderInv'
  <2>1. UNCHANGED <<fpc, unread, batch, saved, table, flushOk>>
    BY <1>7 DEF recorderVars
  <2>2. RowIsShown(table)' /\ RowIsShown(batch)'
    <3>1. \A row : row = table => RowIsShown(row)'
      BY <1>3, <1>4, <1>5
    <3>2. \A row : row = batch => RowIsShown(row)'
      BY <1>3, <1>4, <1>5
    <3> QED BY <2>1, <3>1, <3>2 DEF RowIsShown
  <2>3. fpc' = "last" => mpc' = "stopflush" /\ \A n \in Nodes \ unread' : batch'[n] = Shown(n)'
    BY <1>3, <1>6, <1>7, <2>1
  <2>4. fpc' = "returned" <=> mpc' = "exited"
    BY <1>3, <1>7, <2>1
  <2> QED BY <1>3, <1>7, <2>1, <2>2, <2>3, <2>4 DEF RecorderInv
<1>8. CASE UNCHANGED <<known, offset, cpc, sent, answered, mainVars, recorderVars>>
  <2>1. UNCHANGED <<fpc, unread, batch, saved, table, flushOk, mpc, known, offset>>
    BY <1>8 DEF recorderVars, mainVars
  <2>2. \A n \in Nodes : Shown(n)' = Shown(n)
    BY <2>1 DEF Shown
  <2> QED BY <1>3, <2>1, <2>2 DEF RecorderInv, RowIsShown
<1>9. CASE mpc # "exited" /\ UNCHANGED <<mainVars, recorderVars>>
  BY <1>7, <1>9 DEF mainVars
<1>10. CASE mpc # "exited" /\ Main /\ UNCHANGED recorderVars
  BY <1>1, <1>7, <1>10, MainSteps
<1>11. CASE Recorder /\ mpc # "exited" /\ UNCHANGED <<known, offset, cpc, sent, answered>>
  <2>1. \A n \in Nodes : Shown(n)' = Shown(n)
    BY <1>11 DEF Shown
  <2>2. CASE EndFlush /\ (Commit \/ CommitError)
    <3>1. /\ fpc \in {"flush", "last"} /\ unread = {} /\ batch' = [n \in Nodes |-> None]
          /\ fpc' = (IF fpc = "last" THEN "returned" ELSE "idle") /\ mpc' = (IF fpc = "last" THEN "exited" ELSE mpc)
      BY <2>2 DEF EndFlush
    <3>2. RowIsShown(batch)'
      BY <3>1 DEF RowIsShown
    <3>3. saved' = table' /\ (flushOk' => table' = Updated(table)) /\ (table' = table \/ table' = Updated(table))
      BY <1>3, <2>2 DEF Commit, CommitError
    <3>4. ASSUME NEW n \in Nodes
          PROVE  /\ Updated(table)[n] = (IF batch[n] # None THEN batch[n] ELSE table[n])
                 /\ Updated(table)[n] # None => known[n] /\ Updated(table)[n] <= offset[n]
      BY <1>1, <1>3, CommittedRow
    <3>5. RowIsShown(table)'
      BY <1>3, <1>11, <3>3, <3>4 DEF RowIsShown
    <3>6. ASSUME mpc' = "exited", flushOk', NEW n \in Nodes PROVE table'[n] = Shown(n)
      <4>1. fpc = "last" /\ batch[n] = Shown(n)
        BY <1>3, <1>11, <3>1, <3>6
      <4>2. table'[n] = IF batch[n] # None THEN batch[n] ELSE table[n]
        BY <3>3, <3>4, <3>6
      <4>3. CASE known[n]
        <5>1. offset[n] # None
          BY <1>4, BoundsAssumption DEF Offsets, None
        <5> QED BY <4>1, <4>2, <4>3, <5>1 DEF Shown
      <4>4. CASE ~ known[n]
        <5>1. table[n] = None
          BY <1>3, <4>4 DEF RowIsShown
        <5> QED BY <4>1, <4>2, <4>4, <5>1 DEF Shown
      <4> QED BY <4>3, <4>4
    <3>7. fpc' = "returned" <=> mpc' = "exited"
      BY <1>11, <3>1
    <3> QED BY <2>1, <3>1, <3>2, <3>3, <3>5, <3>6, <3>7 DEF RecorderInv
  <2>3. CASE UNCHANGED <<mpc, saved, table, flushOk>> /\ fpc' # "returned" /\ fpc # "returned" /\ (StartFlush \/ StartLastFlush)
    <3>1. UNCHANGED <<batch, mpc, known, offset>> /\ unread' = Nodes /\ (fpc' = "last" => mpc = "stopflush")
      BY <1>11, <2>3 DEF StartFlush, StartLastFlush, mainVars
    <3>2. RowIsShown(table)' /\ RowIsShown(batch)'
      BY <1>3, <2>3, <3>1 DEF RowIsShown
    <3>3. fpc' = "last" => mpc' = "stopflush" /\ \A n \in Nodes \ unread' : batch'[n] = Shown(n)'
      BY <3>1
    <3> QED BY <1>3, <1>11, <2>3, <3>1, <3>2, <3>3 DEF RecorderInv
  <2>4. CASE UNCHANGED <<mpc, saved, table, flushOk, fpc>> /\ \E n \in Nodes : Sample(n)
    <3>1. PICK n \in Nodes : unread' = unread \ {n} /\ batch' = [batch EXCEPT ![n] = IF known[n] THEN offset[n] ELSE None]
      BY <2>4 DEF Sample
    <3>2. \A m \in Nodes : batch'[m] = IF m = n THEN Shown(n) ELSE batch[m]
      BY <1>4, <3>1 DEF Shown, Row
    <3>3. RowIsShown(table)'
      BY <1>3, <1>11, <2>4 DEF RowIsShown
    <3>4. RowIsShown(batch)'
      <4> SUFFICES ASSUME NEW m \in Nodes, batch'[m] # None PROVE known[m] /\ batch'[m] <= offset[m]
        BY <1>11 DEF RowIsShown
      <4>1. CASE m = n
        <5>1. known[n] /\ batch'[n] = offset[n]
          BY <3>2, <4>1 DEF Shown
        <5>2. offset[n] \in Int
          BY <1>4, BoundsAssumption DEF Offsets
        <5> QED BY <4>1, <5>1, <5>2
      <4>2. CASE m # n
        BY <1>3, <3>2, <4>2 DEF RowIsShown
      <4> QED BY <4>1, <4>2
    <3>5. fpc' = "last" => mpc' = "stopflush" /\ \A m \in Nodes \ unread' : batch'[m] = Shown(m)'
      <4>1. ASSUME fpc' = "last", NEW m \in Nodes \ unread' PROVE batch'[m] = Shown(m)'
        BY <1>3, <2>1, <2>4, <3>1, <3>2, <4>1
      <4> QED BY <1>3, <2>4, <4>1
    <3> QED BY <1>3, <1>11, <2>4, <3>3, <3>4, <3>5 DEF RecorderInv
  <2> QED BY <1>11, <2>2, <2>3, <2>4, RecorderSteps
<1> QED BY <1>8, <1>9, <1>10, <1>11, MainCases

-----------------------------------------------------------------------------
(***************************************************************************)
(* The theorems.                                                           *)
(***************************************************************************)
LEMMA InitInv == Init => Inv
<1> SUFFICES ASSUME Init PROVE Inv
  OBVIOUS
<1>1. /\ tracked = [n \in Nodes |-> <<>>] /\ finished = [n \in Nodes |-> {}] /\ known = [n \in Nodes |-> FALSE]
      /\ caller = [n \in Nodes |-> "idle"] /\ cancelled = FALSE
  BY DEF Init, T!Init
<1>2. TP!IndInv
  <2>1. TP!Init
    BY Zenon DEF Init, T!Init, TP!Init
  <2> QED BY <2>1, TP!InitIndInv, TrackerAssumptions
<1>3. /\ rpc = [n \in Nodes |-> "rdb"] /\ source = [n \in Nodes |-> <<>>] /\ chan = [n \in Nodes |-> <<>>]
      /\ cpc = [n \in Nodes |-> "next"] /\ held = [n \in Nodes |-> NoItem] /\ at = [n \in Nodes |-> <<1, 1>>]
      /\ owed = [n \in Nodes |-> <<>>] /\ sent = [s \in Shards |-> <<>>] /\ ran = [s \in Shards |-> 0]
      /\ answered = [s \in Shards |-> 0] /\ mpc = "loop" /\ pings = 0 /\ mat = 1 /\ fpc = "idle" /\ unread = {}
      /\ batch = [n \in Nodes |-> None] /\ saved = [n \in Nodes |-> None] /\ table = [n \in Nodes |-> None]
      /\ flushOk = TRUE /\ alive = TRUE
  BY Zenon DEF Init
<1>4. None \in Int /\ None < 0 /\ NoItem.off = None /\ NoItem.cmd = Progress
  BY BoundsAssumption DEF None, NoItem
<1>5. \A n \in Nodes : /\ source[n] = <<>> /\ chan[n] = <<>> /\ held[n] = NoItem /\ cpc[n] = "next" /\ rpc[n] = "rdb"
                       /\ tracked[n] = <<>> /\ owed[n] = <<>> /\ caller[n] = "idle" /\ finished[n] = {}
  BY <1>1, <1>3
<1>6. \A s \in Shards : sent[s] = <<>> /\ ran[s] = 0 /\ answered[s] = 0
  BY <1>3
<1>7. Types
  BY <1>3, BoundsAssumption DEF Types, Row
<1>8. OrderInv
  <2>1. SourceGrows /\ SourceIsDense /\ ChannelIsNext
    BY <1>5 DEF SourceGrows, SourceIsDense, ChannelIsNext, ChannelAt, Positions
  <2>2. ReaderIsNext
    BY <1>4, <1>5 DEF ReaderIsNext, ReaderAt, LastPut, LastOff
  <2>3. HeldIsRead
    BY <1>5 DEF HeldIsRead, HeldAt
  <2>4. TrackedInOrder
    BY <1>4, <1>5 DEF TrackedInOrder, TrackedAt
  <2> QED BY <2>1, <2>2, <2>3, <2>4 DEF OrderInv
<1>9. CopyInv
  <2>1. AnswersFollow
    BY <1>6 DEF AnswersFollow
  <2>2. WritePosition /\ WrittenIsSent
    BY <1>5 DEF WritePosition, WriteAt, WrittenIsSent, WrittenAt
  <2>3. HandledIsSent
    BY <1>5 DEF HandledIsSent, HandledAt, Positions
  <2>4. \A s \in Shards : 1..Len(sent[s]) = {}
    BY <1>6
  <2>5. CopiesAreRecords /\ SnapshotIsFirst
    BY <2>4, Zenon DEF CopiesAreRecords, SnapshotIsFirst
  <2> QED BY <2>1, <2>2, <2>3, <2>5 DEF CopyInv
<1>10. OwedInv
  <2>1. OwedIsOutstanding /\ UnfinishedIsOwed /\ FinishedIsApplied
    BY <1>5 DEF OwedIsOutstanding, UnfinishedIsOwed, FinishedIsApplied
  <2>2. OwedHasParts
    BY <1>4, <1>5 DEF OwedHasParts
  <2> QED BY <2>1, <2>2 DEF OwedInv
<1>11. EndInv /\ RecorderInv
  BY <1>3 DEF EndInv, RecorderInv, RowIsShown
<1> QED BY <1>2, <1>7, <1>8, <1>9, <1>10, <1>11 DEF Inv

\* Every step of a task keeps the invariant.
LEMMA NextInv == Inv /\ [Next]_vars => Inv'
<1> SUFFICES ASSUME Inv, [Next]_vars PROVE Inv'
  OBVIOUS
<1>1. TP!IndInv'
  <2>1. [T!Next]_(T!vars)
    BY TrackerStep DEF Inv, OrderInv, CopyInv, OwedInv
  <2> QED BY <2>1, TrackerInvStep DEF Inv
<1>2. OwedInv'
  BY OwedStep, PartsStep, UnfinishedStep, FinishedStep DEF OwedInv
<1>3. Types' /\ OrderInv' /\ CopyInv' /\ EndInv' /\ RecorderInv'
  BY TypesStep, OrderStep, CopyStep, EndStep, RecorderStep
<1> QED BY <1>1, <1>2, <1>3 DEF Inv

\* Items are handled in order and once, every copy is accounted for by a counter of
\* SplitCompletion, and the recorder's rows hold shown offsets, in every state of a task.
THEOREM PipelineInductive == Spec => []Inv
<1>1. Init => Inv
  BY InitInv
<1>2. Inv /\ [Next]_vars => Inv'
  BY NextInv
<1> QED BY <1>1, <1>2, PTL DEF Spec

\* The consumers, the callbacks and the stop signal of a task use the tracker as its
\* specification allows (kernel/run.go and SplitCompletion call Track and the callback).
THEOREM PipelineUsesTracker == Spec => UsesTracker
<1>1. Init => T!Init
  BY DEF Init
<1>2. Inv /\ [Next]_vars => [T!Next]_(T!vars)
  BY TrackerStep DEF Inv, OrderInv, CopyInv, OwedInv
<1> QED BY <1>1, <1>2, PipelineInductive, PTL DEF Spec, UsesTracker, T!Spec

\* A sequence with elements of a smaller set.
LEMMA SmallerSeq ==
    ASSUME NEW S, NEW U, NEW q \in Seq(S), \A i \in 1..Len(q) : q[i] \in U
    PROVE  q \in Seq(U)
<1>1. Len(q) \in Nat /\ q \in [1..Len(q) -> S]
  BY LenProperties
<1>2. q \in [1..Len(q) -> U]
  BY <1>1
<1> QED BY <1>1, <1>2, SeqDef

\* No counter is ever negative: no callback runs twice.
LEMMA CountersType ==
    ASSUME Inv
    PROVE  owed \in [Nodes -> Seq(Seq(Nat))]
<1>1. Types /\ WritePosition /\ OwedIsOutstanding /\ OwedHasParts /\ TP!IndInv
  BY DEF Inv, CopyInv, OwedInv
<1>2. ASSUME NEW n \in Nodes, NEW r \in 1..Len(owed[n]), NEW p \in 1..Len(owed[n][r])
      PROVE  owed[n][r][p] \in Nat
  <2>1. owed[n] \in Seq(Seq(Int)) /\ Len(owed[n]) = Len(tracked[n]) /\ Len(owed[n]) \in Nat
    BY <1>1, LenProperties DEF Types, OwedIsOutstanding
  <2>2. owed[n][r] \in Seq(Int)
    BY <2>1, ElementOfSeq
  <2>3. p \in DOMAIN owed[n][r] /\ r \in 1..Len(tracked[n]) /\ p \in Int /\ p >= 1 /\ r \in Int /\ r >= 1
        /\ p <= Len(owed[n][r])
    BY <2>1, <2>2, LenProperties
  <2>4. Counted(n, r, p)
    BY <1>1, <2>3 DEF OwedIsOutstanding
  <2>5. Unsent(n, r, p) \in Nat
    <3>1. CASE cpc[n] = "write" /\ held[n].off = r - 1
      <4>1. r - 1 >= 0 /\ r - 1 + 1 = r
        BY <2>3
      <4>2. Len(owed[n][r]) = Len(Parts(n))
        BY <1>1, <3>1, <4>1 DEF OwedHasParts
      <4> QED BY <1>1, <2>3, <4>2, UnsentType
    <3>2. CASE ~ (cpc[n] = "write" /\ held[n].off = r - 1)
      BY <3>2 DEF Unsent
    <3> QED BY <3>1, <3>2
  <2>6. IsFiniteSet(Outstanding(n, r, p)) /\ owed[n][r][p] = Cardinality(Outstanding(n, r, p)) + Unsent(n, r, p)
    BY <2>4 DEF Counted
  <2>7. Cardinality(Outstanding(n, r, p)) \in Nat
    BY <2>6, FS_CardinalityType
  <2> QED BY <2>5, <2>6, <2>7
<1>3. ASSUME NEW n \in Nodes PROVE owed[n] \in Seq(Seq(Nat))
  <2>1. owed[n] \in Seq(Seq(Int))
    BY <1>1 DEF Types
  <2>2. ASSUME NEW r \in 1..Len(owed[n]) PROVE owed[n][r] \in Seq(Nat)
    <3>1. owed[n][r] \in Seq(Int)
      BY <2>1, ElementOfSeq
    <3>2. \A p \in 1..Len(owed[n][r]) : owed[n][r][p] \in Nat
      BY <1>2
    <3> QED BY <3>1, <3>2, SmallerSeq
  <2> QED BY <2>1, <2>2, SmallerSeq
<1>4. owed \in [Nodes -> Seq(Seq(Int))]
  BY <1>1 DEF Types
<1> QED BY <1>3, <1>4

\* The task's variables have their types; in particular no counter of SplitCompletion is
\* negative, so no callback runs once too often.
THEOREM PipelineTypes == Spec => []TypeOK
<1>1. Inv => TypeOK
  <2> SUFFICES ASSUME Inv PROVE TypeOK
    OBVIOUS
  <2>1. T!TypeOK
    BY Zenon DEF Inv, TP!IndInv, TP!TypeOK, T!TypeOK
  <2>2. owed \in [Nodes -> Seq(Seq(Nat))]
    BY CountersType
  <2>3. Types
    BY DEF Inv
  <2> QED BY <2>1, <2>2, <2>3, Zenon DEF TypeOK, Types
<1> QED BY <1>1, PipelineInductive, PTL

\* What is behind a shown offset: the records up to it are done, record 1 among them,
\* and the item the consumer holds is behind the snapshot.
LEMMA ShownFacts ==
    ASSUME Inv, NEW n \in Nodes, known[n]
    PROVE  /\ 1 \in finished[n] /\ held[n].off >= 0 /\ held[n].off \in Int
           /\ offset[n] \in Int
           /\ \A r \in Int : r >= 1 /\ r - 1 <= offset[n] => r \in finished[n]
<1>1. TP!IndInv /\ Types /\ TrackedInOrder
  BY DEF Inv, OrderInv
<1>2. PICK k : k = TP!Passed(n)
  OBVIOUS
<1>3. /\ k > 0 /\ offset[n] = tracked[n][k] /\ 1..k \subseteq finished[n] /\ k = Len(tracked[n]) - Len(queue[n])
      /\ queue[n] \in Seq(Nat) /\ tracked[n] \in Seq(Offsets)
  BY <1>1, <1>2 DEF TP!IndInv, TP!ShownIsLastPassed, TP!PassedIsFinished, TP!Passed, TP!TypeOK
<1>4. Len(tracked[n]) \in Nat /\ Len(queue[n]) \in Nat
  BY <1>3, LenProperties
<1>5. k \in Int /\ k \in 1..Len(tracked[n])
  <2>1. \A a, b \in Nat : a - b > 0 => a - b \in Int /\ a - b \in 1..a
    OBVIOUS
  <2> QED BY <1>3, <1>4, <2>1, Zenon
<1>6. offset[n] = k - 1
  BY <1>1, <1>3, <1>5 DEF TrackedInOrder, TrackedAt
<1>7. 1 \in finished[n]
  <2>1. 1 \in 1..k
    BY <1>4, <1>5
  <2> QED BY <1>3, <2>1
<1>8. held[n].off >= 0 /\ held[n].off \in Int
  <2>1. Len(tracked[n]) > 0
    BY <1>4, <1>5
  <2> QED BY <1>1, <2>1, TrackedFacts
<1>9. ASSUME NEW r \in Int, r >= 1, r - 1 <= offset[n] PROVE r \in finished[n]
  <2>1. r \in 1..k
    BY <1>5, <1>6, <1>9
  <2> QED BY <1>3, <2>1
<1> QED BY <1>5, <1>6, <1>7, <1>8, <1>9

\* The node's progress entry behind the snapshot was taken and executed by every shard.
LEMMA FenceIsApplied ==
    ASSUME Inv, NEW n \in Nodes, known[n], NEW s \in Shards
    PROVE  \E k \in 1..ran[s] : IsCopy(sent[s][k], n, 0, 1)
<1>1. Types /\ SourceIsDense /\ HeldIsRead /\ FinishedIsApplied
  BY DEF Inv, OrderInv, OwedInv
<1>2. 1 \in finished[n] /\ held[n].off >= 0 /\ held[n].off \in Int
  BY ShownFacts
<1>3. \E j \in Positions(n) : source[n][j].off = 0
  <2>1. held[n] # NoItem
    BY <1>2, BoundsAssumption DEF NoItem, None
  <2>2. PICK j \in Positions(n) : held[n] = source[n][j]
    BY <1>1, <2>1 DEF HeldIsRead, HeldAt
  <2> QED BY <1>1, <1>2, <2>2 DEF SourceIsDense
<1>4. PICK i \in Positions(n) : source[n][i].off = 0
  BY <1>3
<1>5. PICK item : item = source[n][i]
  OBVIOUS
<1>6. item.off = 0 /\ item.cmd = Progress
  BY <1>1, <1>4, <1>5 DEF SourceIsDense
<1>7. Applied(n, item)
  <2>1. item.off = 1 - 1
    BY <1>6
  <2> QED BY <1>1, <1>2, <1>4, <1>5, <2>1 DEF FinishedIsApplied
<1>8. /\ item.cmd.pass /\ item.cmd.parts = <<Broadcast>>
  BY <1>6 DEF Progress
<1>9. 1 \in 1..Len(item.cmd.parts) /\ item.cmd.parts[1] = Broadcast
  BY <1>8
<1>10. Len(Broadcast) = NumShards /\ s \in 1..Len(Broadcast) /\ Broadcast[s] = s
  BY BoundsAssumption DEF Broadcast, Shards
<1>11. \E k \in 1..ran[s] : sent[s][k].node = n /\ sent[s][k].off = item.off /\ sent[s][k].part = 1
  <2>1. \A p \in 1..Len(item.cmd.parts) : \A j \in 1..Len(item.cmd.parts[p]) :
            \E k \in 1..ran[item.cmd.parts[p][j]] :
                /\ sent[item.cmd.parts[p][j]][k].node = n /\ sent[item.cmd.parts[p][j]][k].off = item.off
                /\ sent[item.cmd.parts[p][j]][k].part = p
    BY <1>7, <1>8, Zenon DEF Applied
  <2>2. s \in 1..Len(item.cmd.parts[1]) /\ item.cmd.parts[1][s] = s
    BY <1>9, <1>10
  <2>3. \E k \in 1..ran[item.cmd.parts[1][s]] :
            /\ sent[item.cmd.parts[1][s]][k].node = n /\ sent[item.cmd.parts[1][s]][k].off = item.off
            /\ sent[item.cmd.parts[1][s]][k].part = 1
    BY <1>9, <2>1, <2>2
  <2> QED BY <2>2, <2>3
<1> QED BY <1>6, <1>11 DEF IsCopy

\* So the shards have executed the whole snapshot the reader has taken.
LEMMA SnapshotIsApplied ==
    ASSUME Inv, NEW n \in Nodes, known[n], NEW i \in Positions(n), source[n][i].off < 0
    PROVE  Applied(n, source[n][i])
<1>1. Types /\ AnswersFollow /\ CopiesAreRecords /\ SnapshotIsFirst
  BY DEF Inv, CopyInv
<1>2. PICK item : item = source[n][i]
  OBVIOUS
<1>3. item \in Item
  BY <1>1, <1>2, ElementOfSeq DEF Types, Positions
<1> SUFFICES Applied(n, item)
  BY <1>2
<1> SUFFICES ASSUME item.cmd.pass, NEW p \in 1..Len(item.cmd.parts), NEW j \in 1..Len(item.cmd.parts[p])
             PROVE  \E k \in 1..ran[item.cmd.parts[p][j]] :
                        /\ sent[item.cmd.parts[p][j]][k].node = n /\ sent[item.cmd.parts[p][j]][k].off = item.off
                        /\ sent[item.cmd.parts[p][j]][k].part = p
  BY Zenon DEF Applied
<1>4. PICK s \in Shards : s = item.cmd.parts[p][j]
  BY <1>3, ShardOf
<1>5. PICK k \in 1..ran[s] : IsCopy(sent[s][k], n, 0, 1)
  BY FenceIsApplied
<1>6. ran[s] \in Nat /\ ran[s] <= Len(sent[s]) /\ Len(sent[s]) \in Nat
  BY <1>1, LenProperties DEF Types, AnswersFollow
<1>7. k \in 1..Len(sent[s]) /\ k \in Int /\ k <= ran[s]
  BY <1>6
<1>8. sent[s][k].node = n /\ sent[s][k].record # 0
  <2>1. sent[s][k].node = n /\ sent[s][k].off = 0
    BY <1>5 DEF IsCopy
  <2>2. sent[s][k].record = IF sent[s][k].off < 0 THEN 0 ELSE sent[s][k].off + 1
    BY <1>1, <1>7, Zenon DEF CopiesAreRecords
  <2> QED BY <2>1, <2>2
<1>9. PICK l \in 1..k : IsCopy(sent[s][l], n, item.off, p)
  <2> DEFINE Front(m, x) == x.off < 0 /\ x.cmd.pass =>
                \A q \in 1..Len(x.cmd.parts) : \A t \in 1..Len(x.cmd.parts[q]) :
                    x.cmd.parts[q][t] = s => \E l \in 1..k : IsCopy(sent[s][l], m, x.off, q)
  <2>1. i \in Positions(sent[s][k].node)
    BY <1>8
  <2>2. Front(sent[s][k].node, source[sent[s][k].node][i])
    BY <1>1, <1>7, <1>8, <2>1 DEF SnapshotIsFirst
  <2>3. Front(n, item)
    <3>1. source[sent[s][k].node][i] = item /\ sent[s][k].node = n
      BY <1>2, <1>8
    <3> HIDE DEF Front
    <3> QED BY <2>2, <3>1, Zenon
  <2> QED BY <1>2, <1>4, <2>3
<1>10. l \in 1..ran[s]
  BY <1>6, <1>7
<1>11. sent[s][l].node = n /\ sent[s][l].off = item.off /\ sent[s][l].part = p
  BY <1>9 DEF IsCopy
<1> QED BY <1>4, <1>10, <1>11, Zenon

\* A saved offset is at most a shown one, whose commands were applied.
LEMMA SavedFollows == Inv => SavedIsApplied
<1> SUFFICES ASSUME Inv, NEW n \in Nodes, NEW i \in 1..Len(source[n]), source[n][i].off <= table[n]
             PROVE  Applied(n, source[n][i])
  BY DEF SavedIsApplied
<1>1. Types /\ RowIsShown(table) /\ FinishedIsApplied
  BY DEF Inv, OwedInv, RecorderInv
<1>2. i \in Positions(n) /\ source[n][i] \in Item
  BY <1>1, ElementOfSeq DEF Types, Positions
<1>3. source[n][i].off \in Int /\ source[n][i].off > None /\ table[n] \in Int
  <2>1. source[n][i].off \in (-RdbCount)..MaxCmds
    BY <1>2 DEF Item
  <2>2. table[n] \in {None} \cup Offsets
    BY <1>1 DEF Types, Row
  <2> QED BY <2>1, <2>2, BoundsAssumption DEF None, Offsets
<1>4. table[n] # None
  <2>1. None \in Int
    BY BoundsAssumption DEF None
  <2> QED BY <1>3, <2>1
<1>5. known[n] /\ table[n] <= offset[n]
  BY <1>1, <1>4 DEF RowIsShown
<1>6. CASE source[n][i].off < 0
  BY <1>2, <1>5, <1>6, SnapshotIsApplied
<1>7. CASE source[n][i].off >= 0
  <2>1. offset[n] \in Int /\ \A r \in Int : r >= 1 /\ r - 1 <= offset[n] => r \in finished[n]
    BY <1>5, ShownFacts
  <2>2. PICK r \in Int : r = source[n][i].off + 1
    BY <1>3
  <2>3. r \in finished[n] /\ source[n][i].off = r - 1
    <3>1. r >= 1 /\ r - 1 = source[n][i].off
      BY <1>3, <1>7, <2>2
    <3>2. source[n][i].off <= offset[n]
      BY <1>3, <1>5, <2>1
    <3> QED BY <2>1, <3>1, <3>2
  <2> QED BY <1>1, <1>2, <2>3 DEF FinishedIsApplied
<1> QED BY <1>3, <1>6, <1>7

\* An offset in run_offsets never covers a command that a shard has not executed,
\* whatever was filtered, split, cancelled or killed in between: the chain from the
\* reader over Track, SplitCompletion and the writers' callbacks to the recorder.
THEOREM SavedOffsetsAreApplied == Spec => []SavedIsApplied
BY PipelineInductive, SavedFollows, PTL

\* Whoever saved an offset had the fence answered by every shard, behind the snapshot.
LEMMA FencedFollows == Inv => SnapshotFencedWhileRunning
<1> SUFFICES ASSUME Inv, ~ cancelled, NEW n \in Nodes, table[n] # None, NEW k \in 1..RdbCount
             PROVE  \E i \in 1..Len(source[n]) : source[n][i].off = -k /\ Applied(n, source[n][i])
  BY DEF SnapshotFencedWhileRunning, SnapshotApplied
<1>1. Types /\ RowIsShown(table) /\ HeldIsRead /\ SourceIsDense
  BY DEF Inv, OrderInv, RecorderInv
<1>2. known[n]
  BY <1>1 DEF RowIsShown
<1>3. held[n].off >= 0 /\ held[n].off \in Int
  BY <1>2, ShownFacts
<1>4. held[n] # NoItem
  BY <1>3, BoundsAssumption DEF NoItem, None
<1>5. PICK j \in Positions(n) : held[n] = source[n][j]
  BY <1>1, <1>4 DEF HeldIsRead, HeldAt
<1>6. \A i \in Positions(n) : source[n][i].off = None + i
  BY <1>1 DEF SourceIsDense
<1>7. Len(source[n]) \in Nat /\ j \in Int /\ j <= Len(source[n])
  BY <1>1, LenProperties DEF Types, Positions
<1>8. j >= RdbCount + 1
  <2>1. None + j >= 0
    BY <1>3, <1>5, <1>6
  <2> QED BY <1>7, <2>1, BoundsAssumption DEF None
<1>9. PICK i \in Int : i = RdbCount + 1 - k
  BY BoundsAssumption
<1>10. i \in Positions(n) /\ None + i = -k /\ -k < 0
  BY <1>7, <1>8, <1>9, BoundsAssumption DEF Positions, None
<1>11. source[n][i].off = -k /\ source[n][i].off < 0
  BY <1>6, <1>10
<1>12. Applied(n, source[n][i])
  BY <1>2, <1>10, <1>11, SnapshotIsApplied
<1> QED BY <1>10, <1>11, <1>12 DEF Positions

\* Until the task is told to stop, a saved offset means that the whole snapshot of the
\* node was executed, on every shard: the PING of sendProgress reaches all of them.
THEOREM SnapshotIsFenced == Spec => []SnapshotFencedWhileRunning
BY PipelineInductive, FencedFollows, PTL

\* The main goroutine leaves after the replies of all copies and the last flush.
LEMMA ExitFollows == Inv => CleanExit
<1> SUFFICES ASSUME Inv, mpc = "exited"
             PROVE  /\ \A n \in Nodes : finished[n] = 1..Len(tracked[n])
                    /\ flushOk => \A n \in Nodes : table[n] = IF known[n] THEN offset[n] ELSE None
  BY DEF CleanExit
<1>1. TP!IndInv /\ Types /\ OwedIsOutstanding /\ UnfinishedIsOwed /\ EndInv /\ RecorderInv
  BY DEF Inv, OwedInv
<1>2. (\A n \in Nodes : cpc[n] = "done") /\ \A s \in Shards : answered[s] = Len(sent[s])
  BY <1>1 DEF EndInv
<1>3. ASSUME NEW n \in Nodes, NEW r \in 1..Len(tracked[n]) PROVE r \in finished[n]
  <2> SUFFICES ASSUME r \notin finished[n] PROVE FALSE
    OBVIOUS
  <2>1. PICK p \in DOMAIN owed[n][r] : owed[n][r][p] # 0
    BY <1>1, <1>2 DEF UnfinishedIsOwed
  <2>2. Counted(n, r, p)
    BY <1>1, <2>1 DEF OwedIsOutstanding
  <2>3. Outstanding(n, r, p) = {}
    <3>1. \A s \in Shards : (answered[s] + 1)..Len(sent[s]) = {}
      <4>1. ASSUME NEW s \in Shards PROVE answered[s] \in Nat /\ answered[s] = Len(sent[s])
        BY <1>1, <1>2 DEF Types
      <4> QED BY <4>1
    <3> QED BY <3>1 DEF Outstanding, OutstandingOf
  <2>4. Unsent(n, r, p) = 0
    BY <1>2 DEF Unsent
  <2>5. Cardinality({}) = 0
    BY FS_EmptySet
  <2> QED BY <2>1, <2>2, <2>3, <2>4, <2>5 DEF Counted
<1>4. ASSUME NEW n \in Nodes PROVE finished[n] = 1..Len(tracked[n])
  <2>1. finished[n] \subseteq 1..Len(tracked[n])
    BY <1>1 DEF TP!IndInv, TP!PassedIsFinished
  <2> QED BY <1>3, <2>1
<1>5. flushOk => \A n \in Nodes : table[n] = IF known[n] THEN offset[n] ELSE None
  BY <1>1 DEF RecorderInv, Shown
<1> QED BY <1>4, <1>5

\* A task that ends by itself has had every tracked command acknowledged, and unless
\* its last flush failed the database holds the final offsets (Close waits for the
\* replies, and stopFlush runs the recorder once more).
THEOREM ExitIsClean == Spec => []CleanExit
BY PipelineInductive, ExitFollows, PTL

\* What a flush has sampled is not behind the row it may replace.
BatchIsNewer == \A n \in Nodes : batch[n] # None => table[n] <= batch[n]

\* No flush moves a row of run_offsets back or removes it: None is below every offset.
SavedNeverRegresses == [][\A n \in Nodes : table[n] <= table'[n]]_vars

\* A sample is the offset shown, and a row is never ahead of that.
LEMMA BatchStep ==
    ASSUME Inv, [Next]_vars, BatchIsNewer
    PROVE  BatchIsNewer' /\ \A n \in Nodes : table[n] <= table'[n]
<1>1. Types /\ RecorderInv
  BY DEF Inv
<1>2. saved = table /\ RowIsShown(table) /\ RowIsShown(batch)
  BY <1>1 DEF RecorderInv
<1>3. /\ table \in Row /\ batch \in Row /\ None \in Int
      /\ \A n \in Nodes : table[n] \in Int /\ batch[n] \in Int /\ None <= table[n]
  <2>1. table \in Row /\ batch \in Row
    BY <1>1 DEF Types
  <2>2. None \in Int /\ \A x \in {None} \cup Offsets : x \in Int /\ None <= x
    BY BoundsAssumption DEF None, Offsets
  <2> HIDE DEF None, Offsets
  <2> QED BY <2>1, <2>2 DEF Row
<1>4. ASSUME UNCHANGED <<batch, table>> PROVE BatchIsNewer' /\ \A n \in Nodes : table[n] <= table'[n]
  BY <1>3, <1>4 DEF BatchIsNewer
<1>5. CASE UNCHANGED recorderVars
  BY <1>4, <1>5 DEF recorderVars
<1>6. CASE EndFlush /\ (Commit \/ CommitError)
  <2>1. batch' = [n \in Nodes |-> None]
    BY <1>6 DEF EndFlush
  <2>2. BatchIsNewer'
    BY <2>1 DEF BatchIsNewer
  <2>3. table' = table \/ table' = Updated(table)
    BY <1>6 DEF Commit, CommitError
  <2>4. ASSUME NEW n \in Nodes PROVE table[n] <= table'[n]
    <3>1. Updated(table)[n] = IF batch[n] # None THEN batch[n] ELSE table[n]
      BY <1>1, <1>2, CommittedRow
    <3>2. table'[n] = table[n] \/ (batch[n] # None /\ table'[n] = batch[n])
      BY <2>3, <3>1
    <3> QED BY <1>3, <3>2 DEF BatchIsNewer
  <2> QED BY <2>2, <2>4
<1>7. CASE UNCHANGED table /\ (StartFlush \/ StartLastFlush)
  BY <1>4, <1>7 DEF StartFlush, StartLastFlush
<1>8. CASE UNCHANGED table /\ \E n \in Nodes : Sample(n)
  <2>1. PICK n \in Nodes : batch' = [batch EXCEPT ![n] = IF known[n] THEN offset[n] ELSE None]
    BY <1>8 DEF Sample
  <2>2. ASSUME NEW m \in Nodes, batch'[m] # None PROVE table[m] <= batch'[m]
    <3>1. CASE m = n
      <4>1. known[n] /\ batch'[n] = offset[n]
        BY <1>3, <2>1, <2>2, <3>1 DEF Row
      <4>2. table[n] # None => table[n] <= offset[n]
        BY <1>2 DEF RowIsShown
      <4>3. offset[n] \in Int /\ None <= offset[n]
        <5>1. offset \in [Nodes -> Offsets \cup {0}]
          BY Zenon DEF Inv, TP!IndInv, TP!TypeOK
        <5>2. \A x \in Offsets \cup {0} : x \in Int /\ None <= x
          BY BoundsAssumption DEF None, Offsets
        <5> QED BY <5>1, <5>2
      <4> QED BY <3>1, <4>1, <4>2, <4>3
    <3>2. CASE m # n
      <4>1. batch'[m] = batch[m]
        BY <1>3, <2>1, <3>2 DEF Row
      <4> QED BY <2>2, <4>1 DEF BatchIsNewer
    <3> QED BY <3>1, <3>2
  <2> QED BY <1>3, <1>8, <2>2 DEF BatchIsNewer
<1>9. CASE Recorder
  BY <1>6, <1>7, <1>8, <1>9, RecorderSteps
<1> QED BY <1>5, <1>9, MainCases

\* Whatever fails in between: an offset in run_offsets is never withdrawn and never moves back while the task
\* lives (the recorder writes what it sampled, and samples after the commit before).
THEOREM SavedOffsetsNeverRegress == Spec => SavedNeverRegresses
<1>1. Init => BatchIsNewer
  BY DEF Init, BatchIsNewer
<1>2. Inv /\ BatchIsNewer /\ [Next]_vars => BatchIsNewer'
  BY BatchStep
<1>3. Inv /\ BatchIsNewer /\ [Next]_vars => [\A n \in Nodes : table[n] <= table'[n]]_vars
  BY BatchStep
<1> QED BY <1>1, <1>2, <1>3, PipelineInductive, PTL DEF Spec, SavedNeverRegresses

\* A shard as the writer's specification describes it (RedisWriter implements the same one).
Shard(s) == INSTANCE FifoTarget WITH
    Entries <- Copy, sent <- sent[s], ran <- ran[s], answered <- answered[s], failed <- ~ alive

\* What a step may do to what a shard has been sent.
Handed(s) == sent'[s] = sent[s] \/ \E e : sent'[s] = Append(sent[s], e)

\* Only a Write hands something to a shard, and nothing else of it changes then.
LEMMA WritesAppend ==
    ASSUME Types, (\E n \in Nodes : WriteCopy(n)) \/ WritePing, NEW s \in Shards
    PROVE  Handed(s) /\ UNCHANGED <<ran, answered, alive>>
<1>1. sent \in [Shards -> Seq(Copy)]
  BY DEF Types
<1>2. CASE WritePing
  BY <1>1, <1>2 DEF WritePing, Handed
<1>3. ASSUME NEW n \in Nodes, WriteCopy(n) PROVE Handed(s) /\ UNCHANGED <<ran, answered, alive>>
  <2> DEFINE to == held[n].cmd.parts[at[n][1]][at[n][2]]
  <2> DEFINE copy == [node |-> n, off |-> held[n].off, part |-> at[n][1],
                      record |-> IF held[n].off < 0 THEN 0 ELSE Len(tracked[n])]
  <2>1. sent' = [sent EXCEPT ![to] = Append(@, copy)] /\ UNCHANGED <<ran, answered, alive>>
    BY <1>3 DEF WriteCopy
  <2> HIDE DEF to, copy
  <2> QED BY <1>1, <2>1 DEF Handed
<1> QED BY <1>2, <1>3

\* Every other step of the task leaves the shards alone, or is one of a shard's own.
LEMMA ShardCases ==
    ASSUME [Next]_vars
    PROVE  \/ alive /\ ((\E n \in Nodes : WriteCopy(n)) \/ WritePing)
           \/ alive /\ \E s \in Shards : Answer(s)
           \/ \E s \in Shards : Execute(s)
           \/ alive /\ Die
           \/ UNCHANGED <<sent, ran, answered, alive>>
<1> DEFINE Same == UNCHANGED <<sent, ran, answered, alive>>
<1>1. ASSUME NEW n \in Nodes, Reader(n) PROVE Same
  BY <1>1, Zenon DEF Reader, SendSnapshot, EndSnapshot, SendFence, SkipFence, ReadCommand, SendCommand, SkipProgress,
                     StopReading, targetVars
<1>2. ASSUME NEW n \in Nodes, Consumer(n) PROVE Same \/ WriteCopy(n)
  BY <1>2, Zenon DEF Consumer, Receive, TakeSlot, Track, TrackRefused, FilterOut, Route, targetVars
<1>3. ASSUME Main PROVE Same \/ WritePing
  BY <1>3, Zenon DEF Main, StartPing, CloseWriter, ReaderDone, targetVars
<1>4. ASSUME Recorder PROVE Same
  BY <1>4, Zenon DEF Recorder, StartFlush, StartLastFlush, Sample, Commit, CommitError, EndFlush, targetVars
<1>5. ASSUME Cancel \/ UNCHANGED vars PROVE Same
  BY <1>5, Zenon DEF Cancel, vars, targetVars
<1> HIDE DEF Same
<1>6. Same => UNCHANGED <<sent, ran, answered, alive>>
  BY DEF Same
<1> QED BY <1>1, <1>2, <1>3, <1>4, <1>5, <1>6, Zenon DEF Next

\* A step of the task is one of the shard, or changes nothing there.
LEMMA ShardStep ==
    ASSUME Inv, [Next]_vars, NEW s \in Shards
    PROVE  [Shard(s)!FNext]_(Shard(s)!fvars)
<1>1. Types /\ Types'
  BY TypesStep DEF Inv
<1>2. /\ sent \in [Shards -> Seq(Copy)] /\ ran \in [Shards -> Nat] /\ answered \in [Shards -> Nat] /\ alive \in BOOLEAN
      /\ sent' \in [Shards -> Seq(Copy)]
  BY <1>1 DEF Types
<1>3. CASE UNCHANGED <<sent, ran, answered, alive>>
  BY <1>3 DEF Shard!fvars
<1>4. CASE alive /\ ((\E n \in Nodes : WriteCopy(n)) \/ WritePing)
  <2>1. Handed(s) /\ UNCHANGED <<ran, answered, alive>>
    BY <1>1, <1>4, WritesAppend
  <2>2. CASE sent'[s] = sent[s]
    BY <2>1, <2>2 DEF Shard!fvars
  <2>3. CASE sent'[s] # sent[s]
    <3>1. PICK e : sent'[s] = Append(sent[s], e)
      BY <2>1, <2>3 DEF Handed
    <3>2. e \in Copy
      <4> DEFINE q == sent[s]
      <4>1. q \in Seq(Copy) /\ Append(q, e) \in Seq(Copy)
        BY <1>2, <3>1
      <4> HIDE DEF q
      <4>2. Append(q, e)[Len(q) + 1] = e /\ Len(q) + 1 \in 1..Len(Append(q, e))
        BY <4>1
      <4> QED BY <4>1, <4>2
    <3>3. Shard(s)!FWrite(e)
      BY <1>4, <2>1, <3>1 DEF Shard!FWrite
    <3> QED BY <3>2, <3>3 DEF Shard!FNext
  <2> QED BY <2>2, <2>3
<1>5. CASE alive /\ \E t \in Shards : Answer(t)
  <2>1. PICK t \in Shards : Answer(t)
    BY <1>5
  <2>2. /\ answered[t] < ran[t] /\ answered' = [answered EXCEPT ![t] = @ + 1] /\ UNCHANGED <<sent, ran, alive>>
    BY <2>1 DEF Answer
  <2>3. CASE t = s
    <3>1. Shard(s)!FAnswer
      BY <1>2, <1>5, <2>2, <2>3 DEF Shard!FAnswer
    <3> QED BY <3>1 DEF Shard!FNext
  <2>4. CASE t # s
    BY <1>2, <2>2, <2>4 DEF Shard!fvars
  <2> QED BY <2>3, <2>4
<1>6. CASE \E t \in Shards : Execute(t)
  <2>1. PICK t \in Shards : Execute(t)
    BY <1>6
  <2>2. /\ ran[t] < Len(sent[t]) /\ ran' = [ran EXCEPT ![t] = @ + 1] /\ UNCHANGED <<sent, answered, alive>>
    BY <2>1 DEF Execute
  <2>3. CASE t = s
    <3>1. Shard(s)!FExecute
      BY <1>2, <2>2, <2>3 DEF Shard!FExecute
    <3> QED BY <3>1 DEF Shard!FNext
  <2>4. CASE t # s
    BY <1>2, <2>2, <2>4 DEF Shard!fvars
  <2> QED BY <2>3, <2>4
<1>7. CASE alive /\ Die
  <2>1. alive' = FALSE /\ UNCHANGED <<sent, ran, answered>>
    BY <1>7 DEF Die, targetVars
  <2>2. Shard(s)!FFail
    BY <1>7, <2>1 DEF Shard!FFail
  <2> QED BY <2>2 DEF Shard!FNext
<1> QED BY <1>3, <1>4, <1>5, <1>6, <1>7, ShardCases

\* What the task process uses of a shard is what RedisWriter implements: entries are executed and
\* answered in the order of Write, and the instance goes on when the process is gone.
THEOREM ShardsAreFifoTargets == \A s \in Shards : Spec => Shard(s)!FSpec
<1> SUFFICES ASSUME NEW s \in Shards PROVE Spec => Shard(s)!FSpec
  OBVIOUS
<1>1. Init => Shard(s)!FInit
  BY DEF Init, Shard!FInit
<1>2. Inv /\ [Next]_vars => [Shard(s)!FNext]_(Shard(s)!fvars)
  BY ShardStep
<1> QED BY <1>1, <1>2, PipelineInductive, PTL DEF Spec, Shard!FSpec
=============================================================================
