-------------------------- MODULE RedisWriterProofs --------------------------
(***************************************************************************)
(* Proofs about RedisWriter, for any databases, sizes, channel capacity,   *)
(* buffer size, query limit and number of entries.                         *)
(***************************************************************************)
EXTENDS RedisWriter, SequenceTheorems, FiniteSetTheorems, TLAPS

(***************************************************************************)
(* Two views of the commands on their way.  Waiting is what processReply   *)
(* holds and what is announced to it, with the select that is sent and not *)
(* yet announced; Pipe is what the target has not executed.                *)
(***************************************************************************)
Holding == IF rpc = "receive" THEN <<held>> ELSE <<>>
Selecting == IF wpc = "announceSelect" THEN <<0>> ELSE <<>>
Waiting == (Holding \o chWaitReply) \o Selecting
Pipe == wire \o buffer

\* Commands that were executed and are still awaited; the reply that ended the
\* process was taken and is awaited for ever.
Got == Len(replies) + (IF dead THEN 1 ELSE 0)
\* The last entry that was announced, and the last one whose reply was read.
LastAnnounced == IF wpc \in {"loop", "done", "account", "send"} THEN cur ELSE cur - 1
LastRead == Len(acked) + (IF rpc = "notify" THEN 1 ELSE 0)
Sending == wpc \in {"account", "send"}

(***************************************************************************)
(* The inductive invariant.                                                *)
(***************************************************************************)
\* The types, but for UnansweredBytes: that it is never negative takes the whole
\* account of bytes below.
Types ==
    /\ log \in Seq(Entry) /\ ch \in Seq(Nat \ {0})
    /\ wpc \in {"loop", "select", "announceSelect", "wait", "announce", "blocked",
                "account", "send", "done"}
    /\ cur \in Nat /\ dbId \in DBs
    /\ buffer \in Seq(Command) /\ buffered \in 0..BufSize /\ wire \in Seq(Command)
    /\ targetDb \in DBs /\ executed \in Seq((Nat \ {0}) \X DBs) /\ replies \in Seq(Outcomes)
    /\ chWaitReply \in Seq(Nat) /\ rpc \in {"range", "receive", "notify", "done"}
    /\ held \in Nat /\ acked \in Seq(Nat \ {0})
    /\ closing \in {"open", "entries", "replies", "closed"} /\ dead \in BOOLEAN

\* The entry channel holds the entries behind the one processWrite has taken.
ChannelIsSuffix ==
    /\ cur <= Len(log) /\ Len(ch) = Len(log) - cur
    /\ \A i \in 1..Len(ch) : ch[i] = cur + i
    /\ wpc \notin {"loop", "done"} => cur > 0
    /\ wpc = "done" => ch = <<>> /\ closing # "open"

\* OnWritten has run for the entries in order.
AckedInOrder == \A i \in 1..Len(acked) : acked[i] = i

\* What is awaited are the announced entries without reply, each once and in order.
Bounded ==
    /\ LastRead <= LastAnnounced
    /\ \A j \in 1..Len(Waiting) : Waiting[j] = 0 \/ Waiting[j] \in (LastRead + 1)..LastAnnounced
Complete == \A e \in (LastRead + 1)..LastAnnounced : \E j \in 1..Len(Waiting) : Waiting[j] = e
Sorted ==
    \A i, j \in 1..Len(Waiting) :
        i < j /\ Waiting[i] # 0 /\ Waiting[j] # 0 => Waiting[i] < Waiting[j]
WaitingIsOrdered == Bounded /\ Complete /\ Sorted /\ (rpc = "notify" => held = LastRead)

\* The n-th outstanding reply answers the n-th awaited command.
PipeIsAwaited ==
    /\ Len(Waiting) = Got + Len(Pipe) + (IF Sending THEN 1 ELSE 0)
    /\ \A j \in 1..Len(Pipe) : Pipe[j].id = Waiting[Got + j]
    /\ Sending => Waiting[Len(Waiting)] = cur

\* The awaited entries in front of the pipe are the executed ones.
ExecutedIsPrefix ==
    /\ LastRead <= Len(executed) /\ Len(executed) <= LastAnnounced
    /\ \A j \in 1..Len(Waiting) :
          Waiting[j] # 0 => (j <= Got <=> Waiting[j] <= Len(executed))

\* The target has refused a command, so the process ends with its reply.
Refused == "error" \in Upto(replies) \/ dead

\* Every command runs in the database that the command before it has left selected.
DbBefore(j) == IF j = 1 THEN targetDb ELSE Pipe[j - 1].db
DatabasesFollow ==
    Refused \/ (/\ dbId = DbBefore(Len(Pipe) + 1)
                /\ \A j \in 1..Len(Pipe) : Pipe[j].id # 0 =>
                      Pipe[j].db = log[Pipe[j].id].db /\ Pipe[j].db = DbBefore(j))

\* processWrite has selected the database of the entry it holds.
SelectedForCur == wpc \notin {"loop", "done", "select"} => dbId = log[cur].db

OrderInv ==
    /\ Types /\ ChannelIsSuffix /\ AckedInOrder /\ WaitingIsOrdered /\ PipeIsAwaited
    /\ ExecutedIsPrefix /\ SelectedForCur /\ DatabasesFollow /\ ExecutedInOrderInOwnDb

\* Close goes through its stages behind the two goroutines.
StagesAreOrdered ==
    /\ closing \in {"replies", "closed"} => wpc = "done"
    /\ rpc = "done" => closing \in {"replies", "closed"} /\ chWaitReply = <<>>
    /\ closing = "closed" => rpc = "done"

\* UnansweredBytes is a difference of sums of sizes, from the entries replied to up to
\* the entries accounted for.
Accounted == IF wpc \in {"loop", "done", "send"} THEN cur ELSE cur - 1
Sums(S) ==
    /\ S \in [0..Len(log) -> Nat]
    /\ \A i \in 1..Len(log) : S[i] = S[i - 1] + log[i].size
    /\ \A i, j \in 0..Len(log) : i < j => S[i] < S[j]
BytesOfUnread(S) == Sums(S) /\ unanswered = S[Accounted] - S[LastRead]

\* The wait of processWrite keeps the count within the limit, but for a single entry.
NeverOver ==
    /\ wpc \in {"announce", "blocked", "account"} =>
          unanswered = 0 \/ unanswered + log[cur].size <= MaxQuery
    /\ unanswered > MaxQuery => Accounted = LastRead + 1

BytesAreCounted == (\E S : BytesOfUnread(S)) /\ NeverOver

Inv == OrderInv /\ StagesAreOrdered /\ BytesAreCounted
-----------------------------------------------------------------------------

(***************************************************************************)
(* Sequences.                                                              *)
(***************************************************************************)
\* A buffer that is flushed keeps its place behind what was sent before.
LEMMA TailOfConcat ==
    ASSUME NEW X, NEW s \in Seq(X), NEW t \in Seq(X), s # <<>>
    PROVE  /\ Tail(s) \o t = Tail(s \o t)
           /\ Head(s) = (s \o t)[1] /\ Len(s \o t) > 0
<1>1. /\ Tail(s) \in Seq(X) /\ Len(Tail(s)) = Len(s) - 1 /\ Len(s) \in Nat \ {0}
      /\ \A i \in 1..Len(Tail(s)) : Tail(s)[i] = s[i + 1]
  BY HeadTailProperties, EmptySeq
<1>2. /\ s \o t \in Seq(X) /\ Len(s \o t) = Len(s) + Len(t) /\ Len(t) \in Nat
      /\ \A i \in 1..(Len(s) + Len(t)) : (s \o t)[i] = IF i <= Len(s) THEN s[i] ELSE t[i - Len(s)]
  BY ConcatProperties, LenProperties
<1>3. s \o t # <<>>
  BY <1>1, <1>2
<1>4. /\ Tail(s \o t) \in Seq(X) /\ Len(Tail(s \o t)) = Len(s \o t) - 1
      /\ \A i \in 1..Len(Tail(s \o t)) : Tail(s \o t)[i] = (s \o t)[i + 1]
  BY <1>2, <1>3, HeadTailProperties
<1>5. /\ Tail(s) \o t \in Seq(X) /\ Len(Tail(s) \o t) = Len(Tail(s)) + Len(t)
      /\ \A i \in 1..(Len(Tail(s)) + Len(t)) :
            (Tail(s) \o t)[i] = IF i <= Len(Tail(s)) THEN Tail(s)[i] ELSE t[i - Len(Tail(s))]
  BY <1>1, ConcatProperties
<1>6. \A i \in 1..Len(Tail(s) \o t) : (Tail(s) \o t)[i] = Tail(s \o t)[i]
  BY <1>1, <1>2, <1>4, <1>5
<1>7. Len(Tail(s) \o t) = Len(Tail(s \o t))
  BY <1>1, <1>2, <1>4, <1>5
<1> QED BY <1>1, <1>2, <1>4, <1>5, <1>6, <1>7, SeqEqual

\* Appending to the second of two sequences appends to both.
LEMMA AppendOfConcat ==
    ASSUME NEW X, NEW s \in Seq(X), NEW t \in Seq(X), NEW e \in X
    PROVE  s \o Append(t, e) = Append(s \o t, e)
<1>1. s \o t \in Seq(X) /\ <<e>> \in Seq(X)
  BY ConcatProperties
<1> QED BY <1>1, AppendIsConcat, ConcatAssociative

(***************************************************************************)
(* What the actions do to the two views.                                   *)
(***************************************************************************)
LEMMA ViewTypes == ASSUME Types PROVE Waiting \in Seq(Nat) /\ Pipe \in Seq(Command) /\ Got \in Nat
<1>1. Holding \in Seq(Nat) /\ Selecting \in Seq(Nat)
  BY DEF Types, Holding, Selecting
<1>2. Holding \o chWaitReply \in Seq(Nat)
  BY <1>1, ConcatProperties DEF Types
<1> QED BY <1>1, <1>2, ConcatProperties DEF Waiting, Pipe, Got, Types


\* The entry processWrite holds is one of the log.
LEMMA CurType ==
    ASSUME Types, ChannelIsSuffix, cur > 0
    PROVE  /\ cur \in 1..Len(log) /\ log[cur] \in Entry
           /\ log[cur].db \in DBs /\ log[cur].size \in Nat \ {0}
<1>1. cur \in 1..Len(log) /\ log \in Seq(Entry)
  BY DEF Types, ChannelIsSuffix
<1>2. log[cur] \in Entry
  BY <1>1, ElementOfSeq
<1> QED BY <1>1, <1>2, SizesAssumption DEF Entry

\* processWrite takes the entries from the channel in the order of the Write calls.
LEMMA ChannelStep ==
    ASSUME Types, ChannelIsSuffix, Next PROVE ChannelIsSuffix'
<1> USE DEF wvars, tvars, rvars, Types, ChannelIsSuffix
<1>1. ASSUME NEW e \in Kinds, Write(e) PROVE ChannelIsSuffix'
  <2>0. /\ e \in Entry /\ log \in Seq(Entry) /\ ch \in Seq(Nat \ {0}) /\ cur \in Nat
        /\ Len(log) \in Nat /\ Len(log) + 1 \in Nat \ {0} /\ Len(ch) \in Nat
    BY KindsAssumption
  <2>00. /\ cur <= Len(log) /\ Len(ch) = Len(log) - cur
         /\ \A i \in 1..Len(ch) : ch[i] = cur + i
    OBVIOUS
  <2> HIDE DEF Types, ChannelIsSuffix
  <2>1. Len(log') = Len(log) + 1
    BY <1>1, <2>0, AppendProperties DEF Write
  <2>2. /\ Len(ch') = Len(ch) + 1 /\ ch'[Len(ch) + 1] = Len(log) + 1
        /\ \A i \in 1..Len(ch) : ch'[i] = ch[i]
    BY <1>1, <2>0, AppendProperties DEF Write
  <2>3. \A i \in 1..Len(ch') : ch'[i] = cur + i
    <3> TAKE i \in 1..Len(ch')
    <3>1. i \in 1..Len(ch) \/ i = Len(ch) + 1
      BY <2>0, <2>2
    <3> QED BY <2>0, <2>00, <2>2, <3>1
  <2>4. UNCHANGED <<cur, wpc, closing>> /\ closing = "open"
    BY <1>1 DEF Write
  <2> QED BY <2>0, <2>00, <2>1, <2>2, <2>3, <2>4 DEF ChannelIsSuffix
<1>2. ASSUME Tick PROVE ChannelIsSuffix'
  BY <1>2 DEF Tick, Flushed
<1>3. ASSUME Take PROVE ChannelIsSuffix'
  <2>1. /\ Len(ch') = Len(ch) - 1 /\ cur' = ch[1] /\ Len(ch) > 0 /\ Len(ch) \in Nat
        /\ \A i \in 1..Len(ch') : ch'[i] = ch[i + 1]
    BY <1>3, HeadTailProperties DEF Take
  <2>2. cur' = cur + 1
    BY <2>1
  <2>3. \A i \in 1..Len(ch') : ch'[i] = cur' + i
    BY <2>1, <2>2
  <2>4. UNCHANGED <<log, closing>> /\ wpc' \in {"select", "wait"}
    BY <1>3 DEF Take
  <2> QED BY <2>1, <2>2, <2>3, <2>4
<1>4. ASSUME SendSelect PROVE ChannelIsSuffix'
  BY <1>4 DEF SendSelect
<1>5. ASSUME AnnounceSelect PROVE ChannelIsSuffix'
  BY <1>5 DEF AnnounceSelect
<1>6. ASSUME PassWait PROVE ChannelIsSuffix'
  BY <1>6 DEF PassWait, MustWait
<1>7. ASSUME Announce PROVE ChannelIsSuffix'
  BY <1>7 DEF Announce, Announced
<1>8. ASSUME AnnounceFull PROVE ChannelIsSuffix'
  BY <1>8 DEF AnnounceFull, Flushed
<1>9. ASSUME AnnounceBlocked PROVE ChannelIsSuffix'
  BY <1>9 DEF AnnounceBlocked, Announced
<1>10. ASSUME Account PROVE ChannelIsSuffix'
  BY <1>10 DEF Account
<1>11. ASSUME Send PROVE ChannelIsSuffix'
  BY <1>11 DEF Send, SendBytesBuff
<1>12. ASSUME ExitWrite PROVE ChannelIsSuffix'
  BY <1>12 DEF ExitWrite, Flushed
<1>13. ASSUME NEW o \in Outcomes, Execute(o) PROVE ChannelIsSuffix'
  BY <1>13 DEF Execute
<1>14. ASSUME Await PROVE ChannelIsSuffix'
  BY <1>14 DEF Await
<1>15. ASSUME Receive PROVE ChannelIsSuffix'
  BY <1>15 DEF Receive, Fatal
<1>16. ASSUME Notify PROVE ChannelIsSuffix'
  BY <1>16 DEF Notify
<1>17. ASSUME ExitReply PROVE ChannelIsSuffix'
  BY <1>17 DEF ExitReply
<1>18. ASSUME CloseCh PROVE ChannelIsSuffix'
  BY <1>18 DEF CloseCh
<1>19. ASSUME CloseWaitReply PROVE ChannelIsSuffix'
  BY <1>19 DEF CloseWaitReply
<1>20. ASSUME CloseReturn PROVE ChannelIsSuffix'
  BY <1>20 DEF CloseReturn
<1> QED BY <1>1, <1>2, <1>3, <1>4, <1>5, <1>6, <1>7, <1>8, <1>9, <1>10, <1>11, <1>12, <1>13, <1>14, <1>15, <1>16, <1>17, <1>18, <1>19, <1>20 DEF Next, Writer, Replier, Closer

\* The types of everything but UnansweredBytes.
LEMMA TypesStep ==
    ASSUME Types, ChannelIsSuffix, WaitingIsOrdered, Next PROVE Types'
<1> USE DBsAssumption, SizesAssumption, LimitsAssumption, KindsAssumption, OutcomesAssumption DEF wvars, tvars, rvars, Types, ChannelIsSuffix, Entry, Command
<1>1. ASSUME NEW e \in Kinds, Write(e) PROVE Types'
  BY <1>1 DEF Write
<1>2. ASSUME Tick PROVE Types'
  BY <1>2 DEF Tick, Flushed
<1>3. ASSUME Take PROVE Types'
  BY <1>3 DEF Take
<1>4. ASSUME SendSelect PROVE Types'
  <2>1. [id |-> 0, db |-> log[cur].db] \in Command /\ log[cur].db \in DBs
    BY <1>4, CurType DEF SendSelect
  <2>2. wire' \in Seq(Command)
    BY <1>4, <2>1, ConcatProperties DEF SendSelect
  <2>3. buffer' \in Seq(Command)
    BY <1>4 DEF SendSelect
  <2> HIDE DEF Command
  <2> QED BY <1>4, <2>1, <2>2, <2>3 DEF SendSelect
<1>5. ASSUME AnnounceSelect PROVE Types'
  BY <1>5 DEF AnnounceSelect
<1>6. ASSUME PassWait PROVE Types'
  BY <1>6 DEF PassWait, MustWait
<1>7. ASSUME Announce PROVE Types'
  BY <1>7 DEF Announce, Announced
<1>8. ASSUME AnnounceFull PROVE Types'
  BY <1>8 DEF AnnounceFull, Flushed
<1>9. ASSUME AnnounceBlocked PROVE Types'
  BY <1>9 DEF AnnounceBlocked, Announced
<1>10. ASSUME Account PROVE Types'
  BY <1>10 DEF Account
<1>11. ASSUME Send PROVE Types'
  <2> DEFINE size == log[cur].size
             rest == size - (BufSize - buffered)
             left == IF buffered = 0 \/ rest > BufSize THEN 0 ELSE rest
             command == [id |-> cur, db |-> log[cur].db]
  <2>1. command \in Command /\ size \in Nat /\ BufSize \in Nat /\ buffered \in 0..BufSize
    BY <1>11, CurType DEF Send
  <2>2. UNCHANGED <<log, ch, cur, dbId, targetDb, executed, replies, chWaitReply, rvars,
                    unanswered, closing, dead>> /\ wpc' = "loop"
    BY <1>11 DEF Send
  <2>3. CASE buffered + size <= BufSize
    <3>1. buffer' = Append(buffer, command) /\ buffered' = buffered + size /\ wire' = wire
      BY <1>11, <2>3 DEF Send, SendBytesBuff
    <3>2. buffer' \in Seq(Command)
      BY <2>1, <3>1, AppendProperties
    <3>3. buffered' \in 0..BufSize
      <4> HIDE DEF Types, ChannelIsSuffix, Command
      <4> QED BY <2>1, <2>3, <3>1
    <3> HIDE DEF command, Command
    <3> QED BY <2>2, <3>1, <3>2, <3>3
  <2>4. CASE ~ (buffered + size <= BufSize)
    <3>1. /\ buffered' = left
          /\ buffer' = IF left = 0 THEN <<>> ELSE <<command>>
          /\ wire' = wire \o (IF left = 0 THEN Append(buffer, command) ELSE buffer)
      BY <1>11, <2>4 DEF Send, SendBytesBuff
    <3>2. left \in 0..BufSize
      <4> HIDE DEF Types, ChannelIsSuffix, Command, size
      <4> QED BY <2>1, <2>4
    <3> HIDE DEF left, command, Command
    <3>3. buffer' \in Seq(Command) /\ wire' \in Seq(Command)
      BY <2>1, <3>1, AppendProperties, ConcatProperties
    <3> QED BY <2>2, <3>1, <3>2, <3>3
  <2> QED BY <2>3, <2>4
<1>12. ASSUME ExitWrite PROVE Types'
  BY <1>12 DEF ExitWrite, Flushed
<1>13. ASSUME NEW o \in Outcomes, Execute(o) PROVE Types'
  <2> DEFINE command == Head(wire)
  <2>1. command \in Command /\ wire' \in Seq(Command)
    BY <1>13, HeadTailProperties DEF Execute
  <2>2. replies' \in Seq(Outcomes)
    BY <1>13, AppendProperties DEF Execute
  <2>3. targetDb' \in DBs
    BY <1>13, <2>1 DEF Execute
  <2>4. executed' \in Seq((Nat \ {0}) \X DBs)
    <3>1. CASE command.id = 0
      BY <1>13, <3>1 DEF Execute
    <3>2. CASE command.id # 0
      <4>1. <<command.id, targetDb>> \in (Nat \ {0}) \X DBs
        BY <2>1, <3>2
      <4>2. executed' = Append(executed, <<command.id, targetDb>>)
        BY <1>13, <3>2 DEF Execute
      <4> QED BY <4>1, <4>2, AppendProperties
    <3> QED BY <3>1, <3>2
  <2> HIDE DEF Command
  <2> QED BY <1>13, <2>1, <2>2, <2>3, <2>4 DEF Execute
<1>14. ASSUME Await PROVE Types'
  BY <1>14, SMTT(30) DEF Await
<1>15. ASSUME Receive PROVE Types'
  <2>1. replies' \in Seq(Outcomes)
    BY <1>15, HeadTailProperties DEF Receive
  <2>2. dead' \in BOOLEAN
    <3>1. CASE Fatal(Head(replies))
      BY <1>15, <3>1 DEF Receive
    <3>2. CASE ~ Fatal(Head(replies))
      BY <1>15, <3>2 DEF Receive
    <3> QED BY <3>1, <3>2
  <2>3. rpc' \in {"receive", "range", "notify"}
    BY <1>15 DEF Receive
  <2>4. UNCHANGED <<log, ch, wvars, wire, targetDb, executed, chWaitReply, held, acked, closing>>
    BY <1>15 DEF Receive
  <2> HIDE DEF Command
  <2> QED BY <2>1, <2>2, <2>3, <2>4
<1>16. ASSUME Notify PROVE Types'
  <2>1. held \in Nat \ {0}
    BY <1>16 DEF Notify, WaitingIsOrdered, LastRead
  <2>2. acked' \in Seq(Nat \ {0})
    BY <1>16, <2>1, AppendProperties DEF Notify
  <2> QED BY <1>16, <2>2 DEF Notify
<1>17. ASSUME ExitReply PROVE Types'
  BY <1>17 DEF ExitReply
<1>18. ASSUME CloseCh PROVE Types'
  BY <1>18 DEF CloseCh
<1>19. ASSUME CloseWaitReply PROVE Types'
  BY <1>19 DEF CloseWaitReply
<1>20. ASSUME CloseReturn PROVE Types'
  BY <1>20 DEF CloseReturn
<1> QED BY <1>1, <1>2, <1>3, <1>4, <1>5, <1>6, <1>7, <1>8, <1>9, <1>10, <1>11, <1>12, <1>13, <1>14, <1>15, <1>16, <1>17, <1>18, <1>19, <1>20 DEF Next, Writer, Replier, Closer

\* Only four steps change what is awaited: a select or an entry joins at the end, and
\* the reply that is read takes the first one away.
LEMMA WaitingStep ==
    ASSUME Types, ChannelIsSuffix, Next
    PROVE  \/ SendSelect /\ Waiting' = Append(Waiting, 0)
           \/ (Announce \/ AnnounceBlocked) /\ Waiting' = Append(Waiting, cur)
           \/ /\ Receive /\ ~ Fatal(Head(replies))
              /\ Waiting # <<>> /\ Waiting[1] = held /\ Waiting' = Tail(Waiting)
           \/ /\ ~ SendSelect /\ ~ Announce /\ ~ AnnounceBlocked
              /\ Receive => Fatal(Head(replies))
              /\ Waiting' = Waiting
<1> USE DEF wvars, tvars, rvars
<1> DEFINE Front == Holding \o chWaitReply
<1>0. /\ Holding \in Seq(Nat) /\ Selecting \in Seq(Nat) /\ chWaitReply \in Seq(Nat)
      /\ held \in Nat /\ cur \in Nat /\ Front \in Seq(Nat)
  <2>1. Holding \in Seq(Nat) /\ Selecting \in Seq(Nat) /\ chWaitReply \in Seq(Nat) /\ held \in Nat /\ cur \in Nat
    BY DEF Holding, Selecting, Types
  <2> QED BY <2>1, ConcatProperties
<1>00. Waiting = Front \o Selecting
  BY DEF Waiting
<1>1. CASE SendSelect
  <2>1. Holding' = Holding /\ chWaitReply' = chWaitReply /\ Selecting = <<>> /\ Selecting' = <<0>>
    BY <1>1 DEF SendSelect, Holding, Selecting
  <2>2. Waiting = Front /\ Waiting' = Front \o <<0>>
    BY <1>0, <2>1, ConcatEmptySeq DEF Waiting
  <2> HIDE DEF Front
  <2> QED BY <1>0, <1>1, <2>2, AppendIsConcat
<1>2. CASE Announce \/ AnnounceBlocked
  <2>1. /\ Holding' = Holding /\ chWaitReply' = Append(chWaitReply, cur)
        /\ Selecting = <<>> /\ Selecting' = <<>>
    BY <1>2 DEF Announce, AnnounceBlocked, Announced, Holding, Selecting
  <2>2. Waiting = Front /\ Waiting' = Holding \o Append(chWaitReply, cur)
    <3>1. Append(chWaitReply, cur) \in Seq(Nat)
      BY <1>0, AppendProperties
    <3>2. Holding \o Append(chWaitReply, cur) \in Seq(Nat)
      BY <1>0, <3>1, ConcatProperties
    <3> QED BY <1>0, <2>1, <3>2, ConcatEmptySeq DEF Waiting
  <2>3. Waiting' = Append(Front, cur)
    BY <1>0, <2>2, AppendOfConcat
  <2> QED BY <1>2, <2>2, <2>3
<1>3. CASE Receive /\ ~ Fatal(Head(replies))
  <2>1. /\ Holding = <<held>> /\ Holding' = <<>> /\ chWaitReply' = chWaitReply
        /\ Selecting' = Selecting
    BY <1>3 DEF Receive, Holding, Selecting
  <2>2. Tail(<<held>>) = <<>> /\ Head(<<held>>) = held /\ <<held>> \in Seq(Nat) /\ <<held>> # <<>>
    BY <1>0
  <2>3. Front # <<>> /\ Tail(Front) = chWaitReply /\ Front[1] = held
    BY <1>0, <2>1, <2>2, TailOfConcat, ConcatEmptySeq
  <2> HIDE DEF Front
  <2>4. Waiting' = chWaitReply \o Selecting
    BY <1>0, <2>1, ConcatEmptySeq DEF Waiting
  <2>5. Tail(Waiting) = Tail(Front) \o Selecting /\ Waiting[1] = Head(Front) /\ Len(Waiting) > 0
    BY <1>0, <1>00, <2>3, TailOfConcat
  <2>6. Head(Front) = Front[1] /\ Waiting # <<>>
    BY <1>0, <2>3, <2>5
  <2> QED BY <1>3, <2>3, <2>4, <2>5, <2>6
<1>4. CASE Receive /\ Fatal(Head(replies))
  <2>1. Waiting' = Waiting
    BY <1>4 DEF Receive, Waiting, Holding, Selecting
  <2>2. wpc' = wpc
    BY <1>4 DEF Receive
  <2>3. ~ SendSelect /\ ~ Announce /\ ~ AnnounceBlocked
    BY <2>2 DEF SendSelect, Announce, AnnounceBlocked, Announced
  <2> QED BY <1>4, <2>1, <2>3
<1>5. CASE Await
  <2>1. /\ Holding = <<>> /\ Holding' = <<Head(chWaitReply)>> /\ chWaitReply # <<>>
        /\ chWaitReply' = Tail(chWaitReply) /\ Selecting' = Selecting
    BY <1>5 DEF Await, Holding, Selecting
  <2>2. Holding \o chWaitReply = chWaitReply
    BY <1>0, <2>1, ConcatEmptySeq
  <2>3. <<Head(chWaitReply)>> \o Tail(chWaitReply) = chWaitReply
    <3>1. /\ Head(chWaitReply) \in Nat /\ Tail(chWaitReply) \in Seq(Nat) /\ Len(chWaitReply) \in Nat \ {0}
          /\ Len(Tail(chWaitReply)) = Len(chWaitReply) - 1
          /\ \A i \in 1..Len(Tail(chWaitReply)) : Tail(chWaitReply)[i] = chWaitReply[i + 1]
      BY <1>0, <2>1, HeadTailProperties, EmptySeq
    <3> DEFINE h == <<Head(chWaitReply)>>
    <3>2. h \in Seq(Nat) /\ Len(h) = 1 /\ h[1] = chWaitReply[1]
      BY <1>0, <2>1, <3>1
    <3> HIDE DEF h
    <3>22. Len(h) + Len(Tail(chWaitReply)) = Len(chWaitReply)
      BY <3>1, <3>2
    <3> DEFINE t == Tail(chWaitReply)
    <3>3. /\ h \o t \in Seq(Nat)
          /\ Len(h \o t) = Len(h) + Len(t)
          /\ \A i \in 1..(Len(h) + Len(t)) : (h \o t)[i] = IF i <= Len(h) THEN h[i] ELSE t[i - Len(h)]
      <4>1. t \in Seq(Nat)
        BY <3>1
      <4> HIDE DEF t
      <4> QED BY <3>2, <4>1, ConcatProperties
    <3>4. \A i \in 1..Len(chWaitReply) : (h \o Tail(chWaitReply))[i] = chWaitReply[i]
      BY <3>1, <3>2, <3>22, <3>3, SMTT(30)
    <3>5. h \o Tail(chWaitReply) = chWaitReply
      BY <1>0, <3>22, <3>3, <3>4, SeqEqual
    <3> QED BY <3>5 DEF h
  <2>4. Waiting' = Waiting
    BY <2>1, <2>2, <2>3 DEF Waiting
  <2> QED BY <1>5, <2>4 DEF Await, SendSelect, Receive, Announce, AnnounceBlocked, Announced
<1>6. CASE AnnounceSelect
  <2>1. /\ Holding' = Holding /\ chWaitReply' = Append(chWaitReply, 0)
        /\ Selecting = <<0>> /\ Selecting' = <<>>
    BY <1>6 DEF AnnounceSelect, Holding, Selecting
  <2>2. Append(chWaitReply, 0) \in Seq(Nat) /\ Holding \o Append(chWaitReply, 0) = Append(Front, 0)
    BY <1>0, AppendOfConcat, AppendProperties
  <2>3. Append(Front, 0) \in Seq(Nat) /\ Append(Front, 0) = Front \o <<0>>
    BY <1>0, AppendProperties, AppendIsConcat
  <2>4. Waiting' = Append(Front, 0) \o <<>>
    BY <2>1, <2>2 DEF Waiting
  <2> HIDE DEF Front
  <2>5. Waiting' = Waiting
    BY <1>00, <2>1, <2>3, <2>4, ConcatEmptySeq
  <2> QED BY <1>6, <2>5 DEF AnnounceSelect, SendSelect, Receive, Announce, AnnounceBlocked
<1>7. ASSUME UNCHANGED <<rpc, held, chWaitReply>>, wpc # "announceSelect", wpc' # "announceSelect"
      PROVE  Waiting' = Waiting
  BY <1>7 DEF Waiting, Holding, Selecting
<1>8. ASSUME UNCHANGED <<rpc, held, chWaitReply, wpc>> PROVE Waiting' = Waiting
  BY <1>8 DEF Waiting, Holding, Selecting
<1> DEFINE Quiet == Waiting' = Waiting /\ ~ SendSelect /\ ~ Announce /\ ~ AnnounceBlocked /\ ~ Receive
<1>9. ASSUME NEW e \in Kinds, Write(e) PROVE Quiet
  BY <1>9, <1>8 DEF Write, SendSelect, Announce, AnnounceBlocked, Announced, Receive
<1>10. ASSUME Tick PROVE Quiet
  BY <1>10, <1>7 DEF Tick, SendSelect, Announce, AnnounceBlocked, Announced, Receive
<1>11. ASSUME Take PROVE Quiet
  BY <1>11, <1>7 DEF Take, SendSelect, Announce, AnnounceBlocked, Announced, Receive
<1>12. ASSUME PassWait PROVE Quiet
  BY <1>12, <1>7 DEF PassWait, SendSelect, Announce, AnnounceBlocked, Announced, Receive
<1>13. ASSUME AnnounceFull PROVE Quiet
  BY <1>13, <1>7 DEF AnnounceFull, SendSelect, Announce, AnnounceBlocked, Announced, Receive
<1>14. ASSUME Account PROVE Quiet
  BY <1>14, <1>7 DEF Account, SendSelect, Announce, AnnounceBlocked, Announced, Receive
<1>15. ASSUME Send PROVE Quiet
  BY <1>15, <1>7 DEF Send, SendSelect, Announce, AnnounceBlocked, Announced, Receive
<1>16. ASSUME ExitWrite PROVE Quiet
  BY <1>16, <1>7 DEF ExitWrite, SendSelect, Announce, AnnounceBlocked, Announced, Receive
<1>17. ASSUME NEW o \in Outcomes, Execute(o) PROVE Quiet
  BY <1>17, <1>8 DEF Execute, SendSelect, Announce, AnnounceBlocked, Announced, Receive
<1>18. ASSUME Notify PROVE Quiet
  BY <1>18 DEF Waiting, Holding, Selecting, Notify, SendSelect, Announce, AnnounceBlocked, Announced, Receive
<1>19. ASSUME ExitReply PROVE Quiet
  BY <1>19 DEF Waiting, Holding, Selecting, ExitReply, SendSelect, Announce, AnnounceBlocked, Announced, Receive
<1>20. ASSUME CloseCh PROVE Quiet
  BY <1>20, <1>8 DEF CloseCh, SendSelect, Announce, AnnounceBlocked, Announced, Receive
<1>21. ASSUME CloseWaitReply PROVE Quiet
  BY <1>21, <1>8 DEF CloseWaitReply, SendSelect, Announce, AnnounceBlocked, Announced, Receive
<1>22. ASSUME CloseReturn PROVE Quiet
  BY <1>22, <1>8 DEF CloseReturn, SendSelect, Announce, AnnounceBlocked, Announced, Receive
<1> QED BY <1>1, <1>2, <1>3, <1>4, <1>5, <1>6, <1>9, <1>10, <1>11, <1>12, <1>13, <1>14, <1>15, <1>16, <1>17, <1>18, <1>19, <1>20, <1>21, <1>22 DEF Next, Writer, Replier, Closer

\* Flushes leave the pipe as it is: only a select, an entry and the target change it.
LEMMA PipeStep ==
    ASSUME Types, ChannelIsSuffix, Next
    PROVE  \/ SendSelect /\ Pipe' = Append(Pipe, [id |-> 0, db |-> log[cur].db])
           \/ Send /\ Pipe' = Append(Pipe, [id |-> cur, db |-> log[cur].db])
           \/ /\ \E o \in Outcomes : Execute(o)
              /\ Pipe # <<>> /\ Pipe[1] = Head(wire) /\ Pipe' = Tail(Pipe)
           \/ /\ ~ SendSelect /\ ~ Send /\ ~ (\E o \in Outcomes : Execute(o))
              /\ Pipe' = Pipe
<1> USE DEF wvars, tvars, rvars
<1>0. wire \in Seq(Command) /\ buffer \in Seq(Command) /\ Pipe = wire \o buffer /\ Pipe \in Seq(Command)
  <2>1. wire \in Seq(Command) /\ buffer \in Seq(Command) /\ Pipe = wire \o buffer
    BY DEF Types, Pipe
  <2> QED BY <2>1, ConcatProperties
<1>00. ASSUME cur > 0, NEW n \in Nat PROVE [id |-> n, db |-> log[cur].db] \in Command
  BY <1>00, CurType DEF Command
<1>1. CASE SendSelect
  <2> DEFINE c == [id |-> 0, db |-> log[cur].db]
  <2>1. wire' = (wire \o buffer) \o <<c>> /\ buffer' = <<>> /\ cur > 0
    BY <1>1 DEF SendSelect, ChannelIsSuffix
  <2>2. c \in Command
    BY <1>00, <2>1
  <2> HIDE DEF c
  <2>3. Append(Pipe, c) = Pipe \o <<c>> /\ Append(Pipe, c) \in Seq(Command)
    BY <1>0, <2>2, AppendIsConcat, AppendProperties
  <2>4. Pipe' = Append(Pipe, c)
    BY <1>0, <2>1, <2>3, ConcatEmptySeq DEF Pipe
  <2> QED BY <1>1, <2>4 DEF c
<1>2. CASE Send
  <2> DEFINE c == [id |-> cur, db |-> log[cur].db]
             size == log[cur].size
             rest == size - (BufSize - buffered)
             left == IF buffered = 0 \/ rest > BufSize THEN 0 ELSE rest
  <2>1. c \in Command
    BY <1>2, <1>00 DEF Send, ChannelIsSuffix, Types
  <2>2. CASE buffered + size <= BufSize
    <3>1. buffer' = Append(buffer, c) /\ wire' = wire
      BY <1>2, <2>2 DEF Send, SendBytesBuff
    <3> HIDE DEF c
    <3>2. Pipe' = Append(Pipe, c)
      BY <1>0, <2>1, <3>1, AppendOfConcat DEF Pipe
    <3> QED BY <1>2, <3>2 DEF c
  <2>3. CASE ~ (buffered + size <= BufSize)
    <3>1. /\ buffer' = IF left = 0 THEN <<>> ELSE <<c>>
          /\ wire' = wire \o (IF left = 0 THEN Append(buffer, c) ELSE buffer)
      BY <1>2, <2>3 DEF Send, SendBytesBuff
    <3> HIDE DEF c, left
    <3>2. wire \o Append(buffer, c) = Append(Pipe, c) /\ Append(Pipe, c) \in Seq(Command)
      BY <1>0, <2>1, AppendOfConcat, AppendProperties
    <3>3. Append(Pipe, c) = Pipe \o <<c>>
      BY <1>0, <2>1, AppendIsConcat
    <3>4. CASE left = 0
      <4>1. Pipe' = Append(Pipe, c)
        BY <3>1, <3>2, <3>4, ConcatEmptySeq DEF Pipe
      <4> QED BY <1>2, <4>1 DEF c
    <3>5. CASE left # 0
      <4>1. Pipe' = Append(Pipe, c)
        BY <1>0, <3>1, <3>3, <3>5 DEF Pipe
      <4> QED BY <1>2, <4>1 DEF c
    <3> QED BY <3>4, <3>5
  <2> QED BY <2>2, <2>3
<1>3. ASSUME NEW o \in Outcomes, Execute(o)
      PROVE  Pipe # <<>> /\ Pipe[1] = Head(wire) /\ Pipe' = Tail(Pipe)
  <2>1. wire # <<>> /\ wire' = Tail(wire) /\ buffer' = buffer
    BY <1>3 DEF Execute
  <2>2. Pipe' = Tail(Pipe) /\ Pipe[1] = Head(wire) /\ Len(Pipe) > 0
    BY <1>0, <2>1, TailOfConcat DEF Pipe
  <2> QED BY <1>0, <2>2
<1> DEFINE Quiet == ~ SendSelect /\ ~ Send /\ ~ (\E o \in Outcomes : Execute(o)) /\ Pipe' = Pipe
<1>4. ASSUME Flushed PROVE Pipe' = Pipe
  <2>1. wire' = Pipe /\ buffer' = <<>>
    BY <1>0, <1>4 DEF Flushed
  <2> QED BY <1>0, <2>1, ConcatEmptySeq DEF Pipe
<1>5. ASSUME NEW e \in Kinds, Write(e) PROVE Quiet
  <2>1. Pipe' = Pipe
    BY <1>5 DEF Write, Pipe
  <2> QED BY <1>5, <2>1 DEF Write, SendSelect, Send, Execute
<1>6. ASSUME Tick PROVE Quiet
  <2>1. Pipe' = Pipe
    BY <1>6, <1>4 DEF Tick
  <2> QED BY <1>6, <2>1 DEF Tick, SendSelect, Send, Execute
<1>7. ASSUME Take PROVE Quiet
  <2>1. Pipe' = Pipe
    BY <1>7 DEF Take, Pipe
  <2> QED BY <1>7, <2>1 DEF Take, SendSelect, Send, Execute
<1>8. ASSUME AnnounceSelect PROVE Quiet
  <2>1. Pipe' = Pipe
    BY <1>8 DEF AnnounceSelect, Pipe
  <2> QED BY <1>8, <2>1 DEF AnnounceSelect, SendSelect, Send, Execute
<1>9. ASSUME PassWait PROVE Quiet
  <2>1. Pipe' = Pipe
    BY <1>9 DEF PassWait, Pipe
  <2> QED BY <1>9, <2>1 DEF PassWait, SendSelect, Send, Execute
<1>10. ASSUME Announce PROVE Quiet
  <2>1. Pipe' = Pipe
    BY <1>10 DEF Announce, Pipe
  <2> QED BY <1>10, <2>1 DEF Announce, SendSelect, Send, Execute, Announced
<1>11. ASSUME AnnounceFull PROVE Quiet
  <2>1. Pipe' = Pipe
    BY <1>11, <1>4 DEF AnnounceFull
  <2> QED BY <1>11, <2>1 DEF AnnounceFull, SendSelect, Send, Execute
<1>12. ASSUME AnnounceBlocked PROVE Quiet
  <2>1. Pipe' = Pipe
    BY <1>12 DEF AnnounceBlocked, Pipe
  <2> QED BY <1>12, <2>1 DEF AnnounceBlocked, SendSelect, Send, Execute, Announced
<1>13. ASSUME Account PROVE Quiet
  <2>1. Pipe' = Pipe
    BY <1>13 DEF Account, Pipe
  <2> QED BY <1>13, <2>1 DEF Account, SendSelect, Send, Execute
<1>14. ASSUME ExitWrite PROVE Quiet
  <2>1. Pipe' = Pipe
    BY <1>14, <1>4 DEF ExitWrite
  <2> QED BY <1>14, <2>1 DEF ExitWrite, SendSelect, Send, Execute
<1>15. ASSUME Await PROVE Quiet
  <2>1. Pipe' = Pipe
    BY <1>15 DEF Await, Pipe
  <2> QED BY <1>15, <2>1 DEF Await, SendSelect, Send, Execute
<1>16. ASSUME Receive PROVE Quiet
  <2>1. Pipe' = Pipe
    BY <1>16 DEF Receive, Pipe
  <2> QED BY <1>16, <2>1 DEF Receive, SendSelect, Send, Execute
<1>17. ASSUME Notify PROVE Quiet
  <2>1. Pipe' = Pipe
    BY <1>17 DEF Notify, Pipe
  <2> QED BY <1>17, <2>1 DEF Notify, SendSelect, Send, Execute
<1>18. ASSUME ExitReply PROVE Quiet
  <2>1. Pipe' = Pipe
    BY <1>18 DEF ExitReply, Pipe
  <2> QED BY <1>18, <2>1 DEF ExitReply, SendSelect, Send, Execute
<1>19. ASSUME CloseCh PROVE Quiet
  <2>1. Pipe' = Pipe
    BY <1>19 DEF CloseCh, Pipe
  <2> QED BY <1>19, <2>1 DEF CloseCh, SendSelect, Send, Execute
<1>20. ASSUME CloseWaitReply PROVE Quiet
  <2>1. Pipe' = Pipe
    BY <1>20 DEF CloseWaitReply, Pipe
  <2> QED BY <1>20, <2>1 DEF CloseWaitReply, SendSelect, Send, Execute
<1>21. ASSUME CloseReturn PROVE Quiet
  <2>1. Pipe' = Pipe
    BY <1>21 DEF CloseReturn, Pipe
  <2> QED BY <1>21, <2>1 DEF CloseReturn, SendSelect, Send, Execute
<1> QED BY <1>1, <1>2, <1>3, <1>5, <1>6, <1>7, <1>8, <1>9, <1>10, <1>11, <1>12, <1>13, <1>14, <1>15, <1>16, <1>17, <1>18, <1>19, <1>20, <1>21 DEF Next, Writer, Replier, Closer

\* The counts of entries announced, of replies read and of commands executed.
Answers == Receive /\ ~ Fatal(Head(replies))
Executes == \E o \in Outcomes : Execute(o)
CountsMove ==
    /\ LastAnnounced' = (IF Announce \/ AnnounceBlocked THEN LastAnnounced + 1 ELSE LastAnnounced)
    /\ LastRead' = (IF Answers /\ held # 0 THEN LastRead + 1 ELSE LastRead)
    /\ Got' = (IF Executes THEN Got + 1 ELSE IF Answers THEN Got - 1 ELSE Got)
    /\ Executes \/ UNCHANGED <<executed, targetDb>>

\* The counts are natural numbers.
LEMMA CountTypes ==
    ASSUME Types, ChannelIsSuffix
    PROVE  LastAnnounced \in Nat /\ LastRead \in Nat /\ Got \in Nat /\ Len(executed) \in Nat
<1>1. cur \in Nat /\ (wpc \notin {"loop", "done"} => cur > 0) /\ Len(acked) \in Nat
      /\ Len(replies) \in Nat /\ Len(executed) \in Nat
  BY DEF Types, ChannelIsSuffix
<1> QED BY <1>1 DEF LastAnnounced, LastRead, Got

\* Only announcements, replies and executions move the counts.
LEMMA CountsStep == ASSUME Types, ChannelIsSuffix, Next PROVE CountsMove
<1> USE DEF wvars, tvars, rvars, CountsMove, Answers, Executes
<1>0. /\ cur \in Nat /\ (wpc \notin {"loop", "done"} => cur > 0) /\ acked \in Seq(Nat \ {0})
      /\ replies \in Seq(Outcomes) /\ held \in Nat /\ dead \in BOOLEAN /\ wire \in Seq(Command)
      /\ ch \in Seq(Nat \ {0}) /\ (ch # <<>> => ch[1] = cur + 1)
  BY DEF Types, ChannelIsSuffix
<1>1. ASSUME NEW o \in Outcomes, Execute(o) PROVE CountsMove
  <2>1. Len(replies') = Len(replies) + 1 /\ Len(replies) \in Nat /\ wpc' = wpc
        /\ UNCHANGED <<cur, acked, rpc, dead>> /\ wire' = Tail(wire) /\ wire # <<>>
    BY <1>0, <1>1, AppendProperties DEF Execute
  <2>2. ~ Announce /\ ~ AnnounceBlocked
    BY <2>1 DEF Announce, AnnounceBlocked, Announced
  <2>3. ~ Receive
    BY <1>0, <2>1 DEF Receive
  <2> QED BY <1>1, <2>1, <2>2, <2>3 DEF LastAnnounced, LastRead, Got
<1>2. CASE Receive
  <2>1. /\ Len(replies') = Len(replies) - 1 /\ Len(replies) \in Nat \ {0} /\ wpc' = wpc /\ wire' = wire
        /\ UNCHANGED <<cur, acked, executed, targetDb>> /\ dead = FALSE
    BY <1>0, <1>2, HeadTailProperties, EmptySeq DEF Receive
  <2>2. ~ Announce /\ ~ AnnounceBlocked
    BY <2>1 DEF Announce, AnnounceBlocked, Announced
  <2>3. ~ Executes
    BY <1>0, <2>1 DEF Execute
  <2>4. LastAnnounced' = LastAnnounced
    BY <2>1 DEF LastAnnounced
  <2>5. CASE Fatal(Head(replies))
    <3>1. dead' = TRUE /\ rpc' = rpc
      BY <1>2, <2>5 DEF Receive
    <3>2. LastRead' = LastRead /\ Got' = Got
      BY <2>1, <3>1 DEF LastRead, Got
    <3> QED BY <2>1, <2>2, <2>3, <2>4, <2>5, <3>2
  <2>6. CASE ~ Fatal(Head(replies))
    <3>1. dead' = FALSE /\ rpc = "receive" /\ rpc' = IF held = 0 THEN "range" ELSE "notify"
      BY <1>2, <2>1, <2>6 DEF Receive
    <3>2. LastRead' = (IF held # 0 THEN LastRead + 1 ELSE LastRead) /\ Got' = Got - 1
      BY <1>0, <2>1, <3>1 DEF LastRead, Got
    <3> QED BY <1>2, <2>1, <2>2, <2>3, <2>4, <2>6, <3>2
  <2> QED BY <2>5, <2>6
<1>3. CASE Announce \/ AnnounceBlocked
  <2>1. wpc \in {"announce", "blocked"} /\ wpc' = "account" /\ UNCHANGED <<cur, acked, replies, dead, rpc, executed, targetDb, wire>>
    BY <1>3 DEF Announce, AnnounceBlocked, Announced
  <2>2. ~ Receive /\ ~ Executes
    BY <1>0, <2>1 DEF Receive, Execute
  <2> QED BY <1>0, <1>3, <2>1, <2>2 DEF LastAnnounced, LastRead, Got
<1>4. CASE Notify
  <2>1. /\ Len(acked') = Len(acked) + 1 /\ Len(acked) \in Nat /\ rpc = "notify" /\ rpc' = "range"
        /\ UNCHANGED <<cur, wpc, replies, dead, executed, targetDb, wire>>
    BY <1>0, <1>4, AppendProperties DEF Notify
  <2>2. ~ Receive /\ ~ Executes /\ ~ Announce /\ ~ AnnounceBlocked
    BY <1>0, <2>1 DEF Receive, Execute, Announce, AnnounceBlocked, Announced
  <2> QED BY <2>1, <2>2 DEF LastAnnounced, LastRead, Got
<1>5. CASE Take
  <2>1. /\ cur' = cur + 1 /\ wpc = "loop" /\ wpc' \in {"select", "wait"}
        /\ UNCHANGED <<replies, dead, executed, targetDb, wire, acked, rpc>>
    BY <1>0, <1>5 DEF Take
  <2>2. ~ Receive /\ ~ Executes /\ ~ Announce /\ ~ AnnounceBlocked
    BY <1>0, <2>1 DEF Receive, Execute, Announce, AnnounceBlocked, Announced
  <2> QED BY <1>0, <2>1, <2>2 DEF LastAnnounced, LastRead, Got
<1> DEFINE Quiet == /\ LastAnnounced' = LastAnnounced /\ LastRead' = LastRead /\ UNCHANGED <<replies, dead, executed, targetDb>>
                    /\ ~ Announce /\ ~ AnnounceBlocked /\ ~ Executes
<1>6. ASSUME Quiet PROVE CountsMove
  <2>1. ~ Receive
    BY <1>0, <1>6 DEF Receive
  <2> QED BY <1>6, <2>1 DEF Got
<1>7. ASSUME NEW e \in Kinds, Write(e) PROVE Quiet
  <2>1. UNCHANGED <<replies, dead, executed, targetDb, cur, acked>>
    BY <1>7 DEF Write
  <2>2. LastAnnounced' = LastAnnounced /\ LastRead' = LastRead
    BY <1>7 DEF Write, LastAnnounced, LastRead
  <2>3. ~ Announce /\ ~ AnnounceBlocked
    BY <1>7 DEF Write, Announce, AnnounceBlocked, Announced
  <2>4. ~ Executes
    BY <1>0, <2>1, AppendProperties DEF Execute
  <2> QED BY <2>1, <2>2, <2>3, <2>4
<1>8. ASSUME Tick PROVE Quiet
  <2>1. UNCHANGED <<replies, dead, executed, targetDb, cur, acked>>
    BY <1>8 DEF Tick
  <2>2. LastAnnounced' = LastAnnounced /\ LastRead' = LastRead
    BY <1>8 DEF Tick, LastAnnounced, LastRead
  <2>3. ~ Announce /\ ~ AnnounceBlocked
    BY <1>8 DEF Tick, Announce, AnnounceBlocked, Announced
  <2>4. ~ Executes
    BY <1>0, <2>1, AppendProperties DEF Execute
  <2> QED BY <2>1, <2>2, <2>3, <2>4
<1>9. ASSUME SendSelect PROVE Quiet
  <2>1. UNCHANGED <<replies, dead, executed, targetDb, cur, acked>>
    BY <1>9 DEF SendSelect
  <2>2. LastAnnounced' = LastAnnounced /\ LastRead' = LastRead
    BY <1>9 DEF SendSelect, LastAnnounced, LastRead
  <2>3. ~ Announce /\ ~ AnnounceBlocked
    BY <1>9 DEF SendSelect, Announce, AnnounceBlocked, Announced
  <2>4. ~ Executes
    BY <1>0, <2>1, AppendProperties DEF Execute
  <2> QED BY <2>1, <2>2, <2>3, <2>4
<1>10. ASSUME AnnounceSelect PROVE Quiet
  <2>1. UNCHANGED <<replies, dead, executed, targetDb, cur, acked>>
    BY <1>10 DEF AnnounceSelect
  <2>2. LastAnnounced' = LastAnnounced /\ LastRead' = LastRead
    BY <1>10 DEF AnnounceSelect, LastAnnounced, LastRead
  <2>3. ~ Announce /\ ~ AnnounceBlocked
    BY <1>10 DEF AnnounceSelect, Announce, AnnounceBlocked, Announced
  <2>4. ~ Executes
    BY <1>0, <2>1, AppendProperties DEF Execute
  <2> QED BY <2>1, <2>2, <2>3, <2>4
<1>11. ASSUME PassWait PROVE Quiet
  <2>1. UNCHANGED <<replies, dead, executed, targetDb, cur, acked>>
    BY <1>11 DEF PassWait
  <2>2. LastAnnounced' = LastAnnounced /\ LastRead' = LastRead
    BY <1>11 DEF PassWait, LastAnnounced, LastRead
  <2>3. ~ Announce /\ ~ AnnounceBlocked
    BY <1>11 DEF PassWait, Announce, AnnounceBlocked, Announced
  <2>4. ~ Executes
    BY <1>0, <2>1, AppendProperties DEF Execute
  <2> QED BY <2>1, <2>2, <2>3, <2>4
<1>12. ASSUME AnnounceFull PROVE Quiet
  <2>1. UNCHANGED <<replies, dead, executed, targetDb, cur, acked>>
    BY <1>12 DEF AnnounceFull
  <2>2. LastAnnounced' = LastAnnounced /\ LastRead' = LastRead
    BY <1>12 DEF AnnounceFull, LastAnnounced, LastRead
  <2>3. ~ Announce /\ ~ AnnounceBlocked
    BY <1>12 DEF AnnounceFull, Announce, AnnounceBlocked, Announced
  <2>4. ~ Executes
    BY <1>0, <2>1, AppendProperties DEF Execute
  <2> QED BY <2>1, <2>2, <2>3, <2>4
<1>13. ASSUME Account PROVE Quiet
  <2>1. UNCHANGED <<replies, dead, executed, targetDb, cur, acked>>
    BY <1>13 DEF Account
  <2>2. LastAnnounced' = LastAnnounced /\ LastRead' = LastRead
    BY <1>13 DEF Account, LastAnnounced, LastRead
  <2>3. ~ Announce /\ ~ AnnounceBlocked
    BY <1>13 DEF Account, Announce, AnnounceBlocked, Announced
  <2>4. ~ Executes
    BY <1>0, <2>1, AppendProperties DEF Execute
  <2> QED BY <2>1, <2>2, <2>3, <2>4
<1>14. ASSUME Send PROVE Quiet
  <2>1. UNCHANGED <<replies, dead, executed, targetDb, cur, acked>>
    BY <1>14 DEF Send
  <2>2. LastAnnounced' = LastAnnounced /\ LastRead' = LastRead
    BY <1>14 DEF Send, LastAnnounced, LastRead
  <2>3. ~ Announce /\ ~ AnnounceBlocked
    BY <1>14 DEF Send, Announce, AnnounceBlocked, Announced
  <2>4. ~ Executes
    BY <1>0, <2>1, AppendProperties DEF Execute
  <2> QED BY <2>1, <2>2, <2>3, <2>4
<1>15. ASSUME ExitWrite PROVE Quiet
  <2>1. UNCHANGED <<replies, dead, executed, targetDb, cur, acked>>
    BY <1>15 DEF ExitWrite
  <2>2. LastAnnounced' = LastAnnounced /\ LastRead' = LastRead
    BY <1>15 DEF ExitWrite, LastAnnounced, LastRead
  <2>3. ~ Announce /\ ~ AnnounceBlocked
    BY <1>15 DEF ExitWrite, Announce, AnnounceBlocked, Announced
  <2>4. ~ Executes
    BY <1>0, <2>1, AppendProperties DEF Execute
  <2> QED BY <2>1, <2>2, <2>3, <2>4
<1>16. ASSUME Await PROVE Quiet
  <2>1. UNCHANGED <<replies, dead, executed, targetDb, cur, acked>>
    BY <1>16 DEF Await
  <2>2. LastAnnounced' = LastAnnounced /\ LastRead' = LastRead
    BY <1>16 DEF Await, LastAnnounced, LastRead
  <2>3. ~ Announce /\ ~ AnnounceBlocked
    BY <1>16 DEF Await, Announce, AnnounceBlocked, Announced
  <2>4. ~ Executes
    BY <1>0, <2>1, AppendProperties DEF Execute
  <2> QED BY <2>1, <2>2, <2>3, <2>4
<1>17. ASSUME ExitReply PROVE Quiet
  <2>1. UNCHANGED <<replies, dead, executed, targetDb, cur, acked>>
    BY <1>17 DEF ExitReply
  <2>2. LastAnnounced' = LastAnnounced /\ LastRead' = LastRead
    BY <1>17 DEF ExitReply, LastAnnounced, LastRead
  <2>3. ~ Announce /\ ~ AnnounceBlocked
    BY <1>17 DEF ExitReply, Announce, AnnounceBlocked, Announced
  <2>4. ~ Executes
    BY <1>0, <2>1, AppendProperties DEF Execute
  <2> QED BY <2>1, <2>2, <2>3, <2>4
<1>18. ASSUME CloseCh PROVE Quiet
  <2>1. UNCHANGED <<replies, dead, executed, targetDb, cur, acked>>
    BY <1>18 DEF CloseCh
  <2>2. LastAnnounced' = LastAnnounced /\ LastRead' = LastRead
    BY <1>18 DEF CloseCh, LastAnnounced, LastRead
  <2>3. ~ Announce /\ ~ AnnounceBlocked
    BY <1>18 DEF CloseCh, Announce, AnnounceBlocked, Announced
  <2>4. ~ Executes
    BY <1>0, <2>1, AppendProperties DEF Execute
  <2> QED BY <2>1, <2>2, <2>3, <2>4
<1>19. ASSUME CloseWaitReply PROVE Quiet
  <2>1. UNCHANGED <<replies, dead, executed, targetDb, cur, acked>>
    BY <1>19 DEF CloseWaitReply
  <2>2. LastAnnounced' = LastAnnounced /\ LastRead' = LastRead
    BY <1>19 DEF CloseWaitReply, LastAnnounced, LastRead
  <2>3. ~ Announce /\ ~ AnnounceBlocked
    BY <1>19 DEF CloseWaitReply, Announce, AnnounceBlocked, Announced
  <2>4. ~ Executes
    BY <1>0, <2>1, AppendProperties DEF Execute
  <2> QED BY <2>1, <2>2, <2>3, <2>4
<1>20. ASSUME CloseReturn PROVE Quiet
  <2>1. UNCHANGED <<replies, dead, executed, targetDb, cur, acked>>
    BY <1>20 DEF CloseReturn
  <2>2. LastAnnounced' = LastAnnounced /\ LastRead' = LastRead
    BY <1>20 DEF CloseReturn, LastAnnounced, LastRead
  <2>3. ~ Announce /\ ~ AnnounceBlocked
    BY <1>20 DEF CloseReturn, Announce, AnnounceBlocked, Announced
  <2>4. ~ Executes
    BY <1>0, <2>1, AppendProperties DEF Execute
  <2> QED BY <2>1, <2>2, <2>3, <2>4
<1> QED BY <1>1, <1>2, <1>3, <1>4, <1>5, <1>6, <1>7, <1>8, <1>9, <1>10, <1>11, <1>12, <1>13, <1>14, <1>15, <1>16, <1>17, <1>18, <1>19, <1>20 DEF Next, Writer, Replier, Closer

\* The three lemmas together: the steps that change the views, and what each does to
\* them.
ViewStep ==
    \/ /\ SendSelect
       /\ Waiting' = Append(Waiting, 0) /\ Pipe' = Append(Pipe, [id |-> 0, db |-> log[cur].db])
       /\ UNCHANGED <<LastAnnounced, LastRead, Got, executed, targetDb>>
    \/ /\ Announce \/ AnnounceBlocked
       /\ Waiting' = Append(Waiting, cur) /\ LastAnnounced' = LastAnnounced + 1
       /\ UNCHANGED <<Pipe, LastRead, Got, executed, targetDb>>
    \/ /\ Send
       /\ Pipe' = Append(Pipe, [id |-> cur, db |-> log[cur].db])
       /\ UNCHANGED <<Waiting, LastAnnounced, LastRead, Got, executed, targetDb>>
    \/ /\ Executes
       /\ Pipe # <<>> /\ Pipe[1] = Head(wire) /\ Pipe' = Tail(Pipe) /\ Got' = Got + 1
       /\ UNCHANGED <<Waiting, LastAnnounced, LastRead>>
    \/ /\ Answers
       /\ Waiting # <<>> /\ Waiting[1] = held /\ Waiting' = Tail(Waiting)
       /\ Got' = Got - 1 /\ LastRead' = (IF held # 0 THEN LastRead + 1 ELSE LastRead)
       /\ UNCHANGED <<Pipe, LastAnnounced, executed, targetDb>>
    \/ /\ ~ SendSelect /\ ~ Announce /\ ~ AnnounceBlocked /\ ~ Send /\ ~ Executes /\ ~ Answers
       /\ UNCHANGED <<Waiting, Pipe, LastAnnounced, LastRead, Got, executed, targetDb>>

\* Every step of the writer or the target is one of those.
LEMMA StepOfViews == ASSUME Types, ChannelIsSuffix, Next PROVE ViewStep
<1>1. ~ SendSelect \/ (~ Announce /\ ~ AnnounceBlocked /\ ~ Send)
  BY DEF SendSelect, Announce, AnnounceBlocked, Send
<1>2. ~ Send \/ (~ Announce /\ ~ AnnounceBlocked)
  BY DEF Announce, AnnounceBlocked, Send
<1>3. ASSUME Executes \/ Receive PROVE ~ SendSelect /\ ~ Announce /\ ~ AnnounceBlocked /\ ~ Send
  BY <1>3 DEF Executes, Execute, Receive, SendSelect, Announce, AnnounceBlocked, Announced, Send, wvars
<1>4. ~ Executes \/ ~ Receive
  <2>1. ASSUME Executes, Receive PROVE FALSE
    <3>1. wire # <<>> /\ wire' = Tail(wire) /\ wire' = wire /\ wire \in Seq(Command)
      BY <2>1 DEF Executes, Execute, Receive, Types
    <3> QED BY <3>1
  <2> QED BY <2>1
<1>5. Answers => Receive
  BY DEF Answers
<1>6. Receive /\ ~ Fatal(Head(replies)) => Answers
  BY DEF Answers
<1>7. CountsMove
  BY CountsStep
<1>8. CASE SendSelect
  <2>1. Waiting' = Append(Waiting, 0)
    BY <1>1, <1>3, <1>8, WaitingStep
  <2>2. Pipe' = Append(Pipe, [id |-> 0, db |-> log[cur].db])
    BY <1>1, <1>3, <1>8, PipeStep DEF Executes
  <2>3. UNCHANGED <<LastAnnounced, LastRead, Got, executed, targetDb>>
    BY <1>1, <1>3, <1>5, <1>7, <1>8 DEF CountsMove
  <2> QED BY <1>8, <2>1, <2>2, <2>3 DEF ViewStep
<1>9. CASE Announce \/ AnnounceBlocked
  <2>1. Waiting' = Append(Waiting, cur)
    BY <1>1, <1>3, <1>9, WaitingStep
  <2>2. Pipe' = Pipe
    BY <1>1, <1>2, <1>3, <1>9, PipeStep DEF Executes
  <2>3. UNCHANGED <<LastRead, Got, executed, targetDb>> /\ LastAnnounced' = LastAnnounced + 1
    BY <1>3, <1>5, <1>7, <1>9 DEF CountsMove
  <2> QED BY <1>9, <2>1, <2>2, <2>3 DEF ViewStep
<1>10. CASE Send
  <2>1. Waiting' = Waiting
    BY <1>1, <1>2, <1>3, <1>10, WaitingStep
  <2>2. Pipe' = Append(Pipe, [id |-> cur, db |-> log[cur].db])
    BY <1>1, <1>3, <1>10, PipeStep DEF Executes
  <2>3. UNCHANGED <<LastAnnounced, LastRead, Got, executed, targetDb>>
    BY <1>2, <1>3, <1>5, <1>7, <1>10 DEF CountsMove
  <2> QED BY <1>10, <2>1, <2>2, <2>3 DEF ViewStep
<1>11. CASE Executes
  <2>1. Waiting' = Waiting
    BY <1>3, <1>4, <1>11, WaitingStep
  <2>2. Pipe # <<>> /\ Pipe[1] = Head(wire) /\ Pipe' = Tail(Pipe)
    BY <1>3, <1>11, PipeStep DEF Executes
  <2>3. UNCHANGED <<LastAnnounced, LastRead>> /\ Got' = Got + 1
    BY <1>3, <1>4, <1>5, <1>7, <1>11 DEF CountsMove
  <2> QED BY <1>11, <2>1, <2>2, <2>3 DEF ViewStep
<1>12. CASE Answers
  <2>1. Waiting # <<>> /\ Waiting[1] = held /\ Waiting' = Tail(Waiting)
    BY <1>3, <1>5, <1>12, WaitingStep DEF Answers
  <2>2. Pipe' = Pipe
    BY <1>3, <1>4, <1>5, <1>12, PipeStep DEF Executes
  <2>3. /\ UNCHANGED <<LastAnnounced, executed, targetDb>>
        /\ Got' = Got - 1 /\ LastRead' = (IF held # 0 THEN LastRead + 1 ELSE LastRead)
    BY <1>3, <1>4, <1>5, <1>7, <1>12 DEF CountsMove
  <2> QED BY <1>12, <2>1, <2>2, <2>3 DEF ViewStep
<1>13. CASE ~ SendSelect /\ ~ Announce /\ ~ AnnounceBlocked /\ ~ Send /\ ~ Executes /\ ~ Answers
  <2>1. Waiting' = Waiting
    BY <1>6, <1>13, WaitingStep
  <2>2. Pipe' = Pipe
    BY <1>13, PipeStep DEF Executes
  <2>3. UNCHANGED <<LastAnnounced, LastRead, Got, executed, targetDb>>
    BY <1>7, <1>13 DEF CountsMove
  <2> QED BY <1>13, <2>1, <2>2, <2>3 DEF ViewStep
<1> QED BY <1>8, <1>9, <1>10, <1>11, <1>12, <1>13

\* The awaited entries stay ordered and complete: announcing adds the next one, and the
\* reply that is read belongs to the oldest one.
LEMMA WaitingOrderStep ==
    ASSUME Types, ChannelIsSuffix, WaitingIsOrdered, Next PROVE WaitingIsOrdered'
<1>0. /\ Waiting \in Seq(Nat) /\ LastAnnounced \in Nat /\ LastRead \in Nat /\ held \in Nat
      /\ cur \in Nat /\ Len(Waiting) \in Nat
  BY ViewTypes, CountTypes, LenProperties DEF Types
<1>1. Bounded /\ Complete /\ Sorted
  BY DEF WaitingIsOrdered
<1>10. ASSUME Answers, held # 0 PROVE held = LastRead + 1
  <2>1. Waiting # <<>> /\ Waiting[1] = held /\ Len(Waiting) \in Nat \ {0}
    <3>1. Waiting # <<>> /\ Waiting[1] = held
      BY <1>10, WaitingStep DEF Answers, Receive, SendSelect, Announce, AnnounceBlocked, Announced, wvars
    <3> QED BY <1>0, <3>1, EmptySeq
  <2>2. held \in (LastRead + 1)..LastAnnounced
    BY <1>0, <1>1, <1>10, <2>1 DEF Bounded
  <2>3. PICK j \in 1..Len(Waiting) : Waiting[j] = LastRead + 1
    <3>1. LastRead + 1 \in (LastRead + 1)..LastAnnounced
      BY <1>0, <2>2
    <3> QED BY <1>1, <3>1 DEF Complete
  <2>4. j > 1 => held < Waiting[j]
    <3>1. 1 \in 1..Len(Waiting) /\ Waiting[1] # 0 /\ Waiting[j] # 0
      BY <1>0, <1>10, <2>1, <2>3
    <3> QED BY <1>1, <2>1, <3>1 DEF Sorted
  <2> QED BY <1>0, <2>1, <2>2, <2>3, <2>4
<1>2. ASSUME Waiting' = Waiting, LastRead' = LastRead, LastAnnounced' = LastAnnounced
      PROVE  Bounded' /\ Complete' /\ Sorted'
  BY <1>1, <1>2 DEF Bounded, Complete, Sorted
<1>3. ASSUME SendSelect, Waiting' = Append(Waiting, 0), UNCHANGED <<LastAnnounced, LastRead>>
      PROVE  Bounded' /\ Complete' /\ Sorted'
  <2>1. /\ Len(Waiting') = Len(Waiting) + 1 /\ Waiting'[Len(Waiting) + 1] = 0
        /\ \A j \in 1..Len(Waiting) : Waiting'[j] = Waiting[j]
    BY <1>0, <1>3, AppendProperties
  <2>2. Bounded'
    BY <1>0, <1>1, <1>3, <2>1 DEF Bounded
  <2>3. Complete'
    BY <1>0, <1>1, <1>3, <2>1 DEF Complete
  <2>4. Sorted'
    <3> SUFFICES ASSUME NEW i \in 1..Len(Waiting'), NEW j \in 1..Len(Waiting'),
                        i < j, Waiting'[i] # 0, Waiting'[j] # 0
                 PROVE  Waiting'[i] < Waiting'[j]
      BY DEF Sorted
    <3>1. i \in 1..Len(Waiting) /\ j \in 1..Len(Waiting)
      BY <1>0, <2>1
    <3> QED BY <1>1, <2>1, <3>1 DEF Sorted
  <2> QED BY <2>2, <2>3, <2>4
<1>4. ASSUME Announce \/ AnnounceBlocked, Waiting' = Append(Waiting, cur),
             LastAnnounced' = LastAnnounced + 1, LastRead' = LastRead
      PROVE  Bounded' /\ Complete' /\ Sorted'
  <2>1. /\ Len(Waiting') = Len(Waiting) + 1 /\ Waiting'[Len(Waiting) + 1] = cur
        /\ \A j \in 1..Len(Waiting) : Waiting'[j] = Waiting[j]
    BY <1>0, <1>4, AppendProperties
  <2>2. cur = LastAnnounced + 1
    BY <1>0, <1>4 DEF Announce, AnnounceBlocked, LastAnnounced
  <2>3. Bounded'
    BY <1>0, <1>1, <1>4, <2>1, <2>2 DEF Bounded
  <2>4. Complete'
    <3> SUFFICES ASSUME NEW e \in (LastRead' + 1)..LastAnnounced'
                 PROVE  \E j \in 1..Len(Waiting') : Waiting'[j] = e
      BY DEF Complete
    <3>1. e \in (LastRead + 1)..LastAnnounced \/ e = cur
      BY <1>0, <1>4, <2>2
    <3> QED BY <1>0, <1>1, <2>1, <3>1 DEF Complete
  <2>5. Sorted'
    <3> SUFFICES ASSUME NEW i \in 1..Len(Waiting'), NEW j \in 1..Len(Waiting'),
                        i < j, Waiting'[i] # 0, Waiting'[j] # 0
                 PROVE  Waiting'[i] < Waiting'[j]
      BY DEF Sorted
    <3>1. i \in 1..Len(Waiting) /\ (j \in 1..Len(Waiting) \/ j = Len(Waiting) + 1)
      BY <1>0, <2>1
    <3>2. CASE j \in 1..Len(Waiting)
      BY <1>1, <2>1, <3>1, <3>2 DEF Sorted
    <3>3. CASE j = Len(Waiting) + 1
      <4>1. Waiting[i] \in (LastRead + 1)..LastAnnounced
        BY <1>1, <2>1, <3>1 DEF Bounded
      <4> QED BY <1>0, <2>1, <2>2, <3>1, <3>3, <4>1
    <3> QED BY <3>1, <3>2, <3>3
  <2> QED BY <2>3, <2>4, <2>5
<1>5. ASSUME Answers, Waiting # <<>>, Waiting[1] = held, Waiting' = Tail(Waiting),
             LastRead' = (IF held # 0 THEN LastRead + 1 ELSE LastRead),
             LastAnnounced' = LastAnnounced
      PROVE  Bounded' /\ Complete' /\ Sorted'
  <2>1. /\ Len(Waiting') = Len(Waiting) - 1 /\ Len(Waiting) \in Nat \ {0}
        /\ \A j \in 1..Len(Waiting') : Waiting'[j] = Waiting[j + 1]
    BY <1>0, <1>5, HeadTailProperties, EmptySeq
  <2>2. held # 0 => held = LastRead + 1
    BY <1>5, <1>10
  <2>3. \A j \in 1..Len(Waiting) : j > 1 /\ held # 0 /\ Waiting[j] # 0 => held < Waiting[j]
    <3>1. 1 \in 1..Len(Waiting) /\ Waiting[1] = held
      BY <1>5, <2>1
    <3> QED BY <1>1, <3>1 DEF Sorted
  <2>4. Bounded'
    <3>1. LastRead' <= LastAnnounced'
      BY <1>0, <1>1, <1>5, <2>1, <2>2 DEF Bounded
    <3>2. ASSUME NEW j \in 1..Len(Waiting')
          PROVE  Waiting'[j] = 0 \/ Waiting'[j] \in (LastRead' + 1)..LastAnnounced'
      <4>1. j + 1 \in 1..Len(Waiting) /\ j + 1 > 1 /\ Waiting'[j] = Waiting[j + 1]
        BY <2>1
      <4> QED BY <1>0, <1>1, <1>5, <2>2, <2>3, <4>1 DEF Bounded
    <3> QED BY <3>1, <3>2 DEF Bounded
  <2>5. Complete'
    <3> SUFFICES ASSUME NEW e \in (LastRead' + 1)..LastAnnounced'
                 PROVE  \E j \in 1..Len(Waiting') : Waiting'[j] = e
      BY DEF Complete
    <3>1. e \in (LastRead + 1)..LastAnnounced /\ e # held /\ e > 0
      BY <1>0, <1>5, <2>2
    <3>2. PICK j \in 1..Len(Waiting) : Waiting[j] = e
      BY <1>1, <3>1 DEF Complete
    <3>3. j # 1 /\ j - 1 \in 1..Len(Waiting')
      BY <1>5, <2>1, <3>1, <3>2
    <3>4. Waiting'[j - 1] = e
      BY <2>1, <3>2, <3>3
    <3> QED BY <3>3, <3>4 DEF Complete
  <2>6. Sorted'
    <3> SUFFICES ASSUME NEW i \in 1..Len(Waiting'), NEW j \in 1..Len(Waiting'),
                        i < j, Waiting'[i] # 0, Waiting'[j] # 0
                 PROVE  Waiting'[i] < Waiting'[j]
      BY DEF Sorted
    <3>1. /\ i + 1 \in 1..Len(Waiting) /\ j + 1 \in 1..Len(Waiting) /\ i + 1 < j + 1
          /\ Waiting'[i] = Waiting[i + 1] /\ Waiting'[j] = Waiting[j + 1]
      BY <2>1
    <3> QED BY <1>1, <3>1 DEF Sorted
  <2> QED BY <2>4, <2>5, <2>6
<1>6. Bounded' /\ Complete' /\ Sorted'
  BY <1>2, <1>3, <1>4, <1>5, StepOfViews DEF ViewStep
<1>7. (rpc = "notify" => held = LastRead)'
  <2>1. CASE Answers
    <3>1. rpc' = "notify" => held # 0 /\ held' = held
      BY <2>1 DEF Answers, Receive
    <3>2. LastRead' = (IF held # 0 THEN LastRead + 1 ELSE LastRead)
      BY <2>1, CountsStep DEF CountsMove
    <3> QED BY <1>10, <2>1, <3>1, <3>2
  <2>2. CASE ~ Answers
    <3>1. rpc' = "notify" => rpc = "notify" /\ held' = held
      <4>1. CASE Receive
        BY <2>2, <4>1 DEF Answers, Receive
      <4>2. CASE ~ Receive
        BY <4>2 DEF Next, Writer, Replier, Closer, Write, Tick, Take, SendSelect, AnnounceSelect, PassWait,
             Announce, AnnounceFull, AnnounceBlocked, Account, Send, ExitWrite, Execute, Await, Notify,
             ExitReply, CloseCh, CloseWaitReply, CloseReturn, rvars
      <4> QED BY <4>1, <4>2
    <3>2. LastRead' = LastRead
      BY <2>2, CountsStep DEF CountsMove
    <3> QED BY <3>1, <3>2 DEF WaitingIsOrdered
  <2> QED BY <2>1, <2>2
<1> QED BY <1>6, <1>7 DEF WaitingIsOrdered

\* Where processWrite stands between an announcement and its bytes.
LEMMA SendingStep ==
    ASSUME Next
    PROVE  /\ SendSelect => ~ Sending /\ ~ Sending'
           /\ Announce \/ AnnounceBlocked => ~ Sending /\ Sending' /\ cur' = cur
           /\ Send => Sending /\ ~ Sending' /\ cur' = cur
           /\ ~ SendSelect /\ ~ Announce /\ ~ AnnounceBlocked /\ ~ Send =>
                 Sending' = Sending /\ (Sending => cur' = cur)
<1>1. ASSUME SendSelect PROVE ~ Sending /\ ~ Sending'
  BY <1>1 DEF SendSelect, Sending
<1>2. ASSUME Announce \/ AnnounceBlocked PROVE ~ Sending /\ Sending' /\ cur' = cur
  BY <1>2 DEF Announce, AnnounceBlocked, Announced, Sending
<1>3. ASSUME Send PROVE Sending /\ ~ Sending' /\ cur' = cur
  BY <1>3 DEF Send, Sending
<1>4. ASSUME ~ SendSelect, ~ Announce, ~ AnnounceBlocked, ~ Send
      PROVE  Sending' = Sending /\ (Sending => cur' = cur)
  BY <1>4 DEF Next, Writer, Replier, Closer, Write, Tick, Take, AnnounceSelect, PassWait,
       AnnounceFull, Account, ExitWrite, Execute, Await, Receive, Notify, ExitReply, CloseCh,
       CloseWaitReply, CloseReturn, wvars, Sending
<1> QED BY <1>1, <1>2, <1>3, <1>4

\* The n-th reply stays the reply of the n-th command that is awaited.
LEMMA PipeAwaitStep ==
    ASSUME Types, ChannelIsSuffix, PipeIsAwaited, Next PROVE PipeIsAwaited'
<1> DEFINE W == Waiting
           P == Pipe
           Extra == IF Sending THEN 1 ELSE 0
<1>0. /\ W \in Seq(Nat) /\ P \in Seq(Command) /\ Got \in Nat /\ Len(W) \in Nat /\ Len(P) \in Nat
      /\ cur \in Nat
  BY ViewTypes, LenProperties DEF Types
<1>1. /\ Len(W) = Got + Len(P) + Extra
      /\ \A j \in 1..Len(P) : P[j].id = W[Got + j]
      /\ Sending => W[Len(W)] = cur
  BY DEF PipeIsAwaited
<1>2. ASSUME /\ Len(W') = Got' + Len(P') + Extra'
             /\ \A j \in 1..Len(P') : P'[j].id = W'[Got' + j]
             /\ Sending' => W'[Len(W')] = cur'
      PROVE  PipeIsAwaited'
  BY <1>2 DEF PipeIsAwaited
<1> HIDE DEF W, P
<1>3. ASSUME SendSelect, W' = Append(W, 0), P' = Append(P, [id |-> 0, db |-> log[cur].db]),
             Got' = Got
      PROVE  PipeIsAwaited'
  <2> DEFINE c == [id |-> 0, db |-> log[cur].db]
  <2>1. c \in Command /\ c.id = 0
    <3>1. log[cur].db \in DBs
      BY <1>3, CurType DEF SendSelect, ChannelIsSuffix
    <3> QED BY <3>1 DEF Command
  <2> HIDE DEF c
  <2>2. /\ Len(W') = Len(W) + 1 /\ W'[Len(W) + 1] = 0
        /\ \A j \in 1..Len(W) : W'[j] = W[j]
    BY <1>0, <1>3, AppendProperties
  <2>3. /\ Len(P') = Len(P) + 1 /\ P'[Len(P) + 1] = c
        /\ \A j \in 1..Len(P) : P'[j] = P[j]
    BY <1>0, <1>3, <2>1, AppendProperties DEF c
  <2>4. ~ Sending /\ ~ Sending'
    BY <1>3, SendingStep
  <2>5. ASSUME NEW j \in 1..Len(P') PROVE P'[j].id = W'[Got' + j]
    <3>1. CASE j \in 1..Len(P)
      BY <1>0, <1>1, <1>3, <2>2, <2>3, <2>4, <3>1, SMTT(30)
    <3>2. CASE j = Len(P) + 1
      BY <1>0, <1>1, <1>3, <2>1, <2>2, <2>3, <2>4, <3>2
    <3> QED BY <1>0, <2>3, <3>1, <3>2
  <2>6. Len(W') = Got' + Len(P') + Extra'
    BY <1>0, <1>1, <1>3, <2>2, <2>3, <2>4
  <2> QED BY <1>2, <2>4, <2>5, <2>6
<1>4. ASSUME Announce \/ AnnounceBlocked, W' = Append(W, cur), P' = P, Got' = Got
      PROVE  PipeIsAwaited'
  <2>1. /\ Len(W') = Len(W) + 1 /\ W'[Len(W) + 1] = cur
        /\ \A j \in 1..Len(W) : W'[j] = W[j]
    BY <1>0, <1>4, AppendProperties
  <2>2. ~ Sending /\ Sending' /\ cur' = cur
    BY <1>4, SendingStep
  <2>3. ASSUME NEW j \in 1..Len(P') PROVE P'[j].id = W'[Got' + j]
    BY <1>0, <1>1, <1>4, <2>1, <2>2, SMTT(30)
  <2> QED BY <1>0, <1>1, <1>2, <1>4, <2>1, <2>2, <2>3
<1>5. ASSUME Send, P' = Append(P, [id |-> cur, db |-> log[cur].db]), W' = W, Got' = Got
      PROVE  PipeIsAwaited'
  <2> DEFINE c == [id |-> cur, db |-> log[cur].db]
  <2>1. c \in Command /\ c.id = cur
    <3>1. log[cur].db \in DBs
      BY <1>5, CurType DEF Send, ChannelIsSuffix
    <3> QED BY <1>0, <3>1 DEF Command
  <2> HIDE DEF c
  <2>2. /\ Len(P') = Len(P) + 1 /\ P'[Len(P) + 1] = c
        /\ \A j \in 1..Len(P) : P'[j] = P[j]
    BY <1>0, <1>5, <2>1, AppendProperties DEF c
  <2>3. Sending /\ ~ Sending' /\ cur' = cur
    BY <1>5, SendingStep
  <2>4. ASSUME NEW j \in 1..Len(P') PROVE P'[j].id = W'[Got' + j]
    <3>1. CASE j \in 1..Len(P)
      BY <1>0, <1>1, <1>5, <2>2, <3>1
    <3>2. CASE j = Len(P) + 1
      BY <1>0, <1>1, <1>5, <2>1, <2>2, <2>3, <3>2
    <3> QED BY <1>0, <2>2, <3>1, <3>2
  <2>5. Len(W') = Got' + Len(P') + Extra'
    BY <1>0, <1>1, <1>5, <2>2, <2>3
  <2> QED BY <1>2, <2>3, <2>4, <2>5
<1>6. ASSUME Executes, P # <<>>, P' = Tail(P), Got' = Got + 1, W' = W PROVE PipeIsAwaited'
  <2>1. /\ Len(P') = Len(P) - 1 /\ Len(P) > 0
        /\ \A j \in 1..Len(P') : P'[j] = P[j + 1]
    BY <1>0, <1>6, HeadTailProperties, EmptySeq
  <2>2. Sending' = Sending /\ cur' = cur
    BY <1>6 DEF Executes, Execute, wvars, Sending
  <2>3. ASSUME NEW j \in 1..Len(P') PROVE P'[j].id = W'[Got' + j]
    <3>1. j + 1 \in 1..Len(P) /\ P'[j] = P[j + 1] /\ Got + (j + 1) = Got' + j
      BY <1>0, <1>6, <2>1
    <3> QED BY <1>1, <1>6, <3>1
  <2>4. Len(W') = Got' + Len(P') + Extra'
    <3>1. Extra' = Extra /\ Extra \in Nat
      BY <2>2
    <3>2. Len(W') = Len(W) /\ Got' = Got + 1
      BY <1>6
    <3> HIDE DEF Extra
    <3> QED BY <1>0, <1>1, <2>1, <3>1, <3>2
  <2>5. Sending' => W'[Len(W')] = cur'
    BY <1>1, <1>6, <2>2
  <2> QED BY <1>2, <2>3, <2>4, <2>5
<1>7. ASSUME Answers, W # <<>>, W' = Tail(W), Got' = Got - 1, P' = P PROVE PipeIsAwaited'
  <2>1. /\ Len(W') = Len(W) - 1 /\ Len(W) > 0
        /\ \A j \in 1..Len(W') : W'[j] = W[j + 1]
    BY <1>0, <1>7, HeadTailProperties, EmptySeq
  <2>2. Sending' = Sending /\ cur' = cur
    BY <1>7 DEF Answers, Receive, wvars, Sending
  <2>3. Got > 0
    BY <1>0, <1>7, EmptySeq DEF Answers, Receive, Got, Types
  <2>4. ASSUME NEW j \in 1..Len(P') PROVE P'[j].id = W'[Got' + j]
    <3>1. Got' + j \in 1..Len(W') /\ (Got' + j) + 1 = Got + j
      BY <1>0, <1>1, <1>7, <2>1, <2>3
    <3> QED BY <1>1, <1>7, <2>1, <3>1
  <2>5. Sending' => W'[Len(W')] = cur'
    <3> HAVE Sending'
    <3>1. Len(W') \in 1..Len(W') /\ Len(W') + 1 = Len(W)
      BY <1>0, <1>1, <2>1, <2>2, <2>3
    <3> QED BY <1>1, <2>1, <2>2, <3>1
  <2>6. Len(W') = Got' + Len(P') + Extra'
    BY <1>0, <1>1, <1>7, <2>1, <2>2
  <2> QED BY <1>2, <2>4, <2>5, <2>6
<1>8. ASSUME ~ SendSelect, ~ Announce, ~ AnnounceBlocked, ~ Send, W' = W, P' = P, Got' = Got
      PROVE  PipeIsAwaited'
  <2>1. Sending' = Sending /\ (Sending => cur' = cur)
    BY <1>8, SendingStep
  <2> QED BY <1>1, <1>2, <1>8, <2>1
<1> QED BY <1>3, <1>4, <1>5, <1>6, <1>7, <1>8, StepOfViews DEF ViewStep, W, P

\* The reply that is read answers a command the target has executed, and the next
\* entry to execute is the one behind the executed ones.
LEMMA NextExecuted ==
    ASSUME Types, ChannelIsSuffix, WaitingIsOrdered, PipeIsAwaited, ExecutedIsPrefix,
           Pipe # <<>>, Pipe[1].id # 0
    PROVE  Pipe[1].id = Len(executed) + 1 /\ Pipe[1].id <= LastAnnounced
<1>0. /\ Waiting \in Seq(Nat) /\ Pipe \in Seq(Command) /\ Got \in Nat /\ Len(Waiting) \in Nat
      /\ Len(Pipe) \in Nat \ {0} /\ LastAnnounced \in Nat /\ LastRead \in Nat /\ Len(executed) \in Nat
  BY ViewTypes, CountTypes, LenProperties, EmptySeq
<1>1. /\ Got + 1 \in 1..Len(Waiting) /\ Pipe[1].id = Waiting[Got + 1]
  <2>1. Len(Waiting) = Got + Len(Pipe) + (IF Sending THEN 1 ELSE 0)
    BY DEF PipeIsAwaited
  <2>2. 1 \in 1..Len(Pipe)
    BY <1>0
  <2> QED BY <1>0, <2>1, <2>2 DEF PipeIsAwaited
<1> DEFINE e == Waiting[Got + 1]
<1>2. e \in (LastRead + 1)..LastAnnounced /\ e > Len(executed)
  <2>1. e \in (LastRead + 1)..LastAnnounced
    BY <1>0, <1>1 DEF WaitingIsOrdered, Bounded
  <2>2. ~ (e <= Len(executed))
    BY <1>0, <1>1 DEF ExecutedIsPrefix
  <2> HIDE DEF e
  <2> QED BY <1>0, <2>1, <2>2
<1>3. Len(executed) + 1 \in (LastRead + 1)..LastAnnounced
  <2>1. LastRead <= Len(executed)
    BY DEF ExecutedIsPrefix
  <2> HIDE DEF e
  <2> QED BY <1>0, <1>2, <2>1
<1>4. PICK j \in 1..Len(Waiting) : Waiting[j] = Len(executed) + 1
  BY <1>3 DEF WaitingIsOrdered, Complete
<1>5. ~ (j <= Got)
  BY <1>0, <1>4 DEF ExecutedIsPrefix
<1>6. CASE j = Got + 1
  BY <1>0, <1>1, <1>2, <1>4, <1>6
<1>7. CASE j > Got + 1
  <2>1. e < Waiting[j]
    BY <1>0, <1>1, <1>2, <1>4, <1>7 DEF WaitingIsOrdered, Sorted
  <2> HIDE DEF e
  <2> QED BY <1>0, <1>2, <1>4, <2>1
<1> QED BY <1>0, <1>5, <1>6, <1>7

\* What the target executes for a command at the head of the pipe.
LEMMA ExecutesStep ==
    ASSUME Types, ChannelIsSuffix, Executes
    PROVE  /\ Pipe[1].id = 0 => executed' = executed
           /\ Pipe[1].id # 0 => /\ executed' = Append(executed, <<Pipe[1].id, targetDb>>)
                                /\ Len(executed') = Len(executed) + 1
<1>1. PICK o \in Outcomes : Execute(o)
  BY DEF Executes
<1>2. wire \in Seq(Command) /\ buffer \in Seq(Command) /\ wire # <<>> /\ targetDb \in DBs
      /\ executed \in Seq((Nat \ {0}) \X DBs)
  BY <1>1 DEF Types, Execute
<1>3. Pipe[1] = Head(wire) /\ Head(wire) \in Command
  BY <1>2, TailOfConcat, HeadTailProperties DEF Pipe
<1>4. Pipe[1].id # 0 => <<Pipe[1].id, targetDb>> \in (Nat \ {0}) \X DBs
  BY <1>2, <1>3 DEF Command
<1>5. /\ Pipe[1].id = 0 => executed' = executed
      /\ Pipe[1].id # 0 => executed' = Append(executed, <<Pipe[1].id, targetDb>>)
  BY <1>1, <1>3 DEF Execute
<1> QED BY <1>2, <1>4, <1>5, AppendProperties

\* The commands the target has executed stay the awaited ones in front.
LEMMA PrefixStep ==
    ASSUME Types, ChannelIsSuffix, WaitingIsOrdered, PipeIsAwaited, ExecutedIsPrefix, Next
    PROVE  ExecutedIsPrefix'
<1> DEFINE W == Waiting
           n == Len(executed)
<1>0. /\ W \in Seq(Nat) /\ Pipe \in Seq(Command) /\ Got \in Nat /\ Len(W) \in Nat
      /\ LastAnnounced \in Nat /\ LastRead \in Nat /\ n \in Nat /\ cur \in Nat
  BY ViewTypes, CountTypes, LenProperties DEF Types
<1>1. /\ LastRead <= n /\ n <= LastAnnounced
      /\ \A j \in 1..Len(W) : W[j] # 0 => (j <= Got <=> W[j] <= n)
  BY DEF ExecutedIsPrefix
<1>2. Got <= Len(W) /\ (Pipe # <<>> => Got + 1 \in 1..Len(W) /\ Pipe[1].id = W[Got + 1])
  <2>1. Len(W) = Got + Len(Pipe) + (IF Sending THEN 1 ELSE 0) /\ Len(Pipe) \in Nat
    BY <1>0, LenProperties DEF PipeIsAwaited
  <2>2. ASSUME Pipe # <<>> PROVE 1 \in 1..Len(Pipe)
    BY <1>0, <2>1, <2>2, EmptySeq
  <2> QED BY <1>0, <2>1, <2>2 DEF PipeIsAwaited
<1>3. ASSUME /\ LastRead' <= n' /\ n' <= LastAnnounced'
             /\ \A j \in 1..Len(W') : W'[j] # 0 => (j <= Got' <=> W'[j] <= n')
      PROVE  ExecutedIsPrefix'
  BY <1>3 DEF ExecutedIsPrefix
<1>4. \A j \in 1..Len(W) : W[j] = 0 \/ W[j] \in (LastRead + 1)..LastAnnounced
  BY DEF WaitingIsOrdered, Bounded
<1>5. ASSUME Executes, Pipe # <<>>, Got' = Got + 1, UNCHANGED <<W, LastAnnounced, LastRead>>
      PROVE  ExecutedIsPrefix'
  <2>1. CASE Pipe[1].id = 0
    <3>1. n' = n
      BY <1>5, <2>1, ExecutesStep
    <3> HIDE DEF W, n
    <3>2. ASSUME NEW j \in 1..Len(W), W[j] # 0 PROVE j <= Got + 1 <=> W[j] <= n
      <4>1. j # Got + 1
        BY <1>2, <1>5, <2>1, <3>2
      <4> QED BY <1>0, <1>1, <3>2, <4>1
    <3> QED BY <1>0, <1>1, <1>3, <1>5, <3>1, <3>2
  <2>2. CASE Pipe[1].id # 0
    <3>1. n' = n + 1
      BY <1>5, <2>2, ExecutesStep
    <3>2. W[Got + 1] = n + 1 /\ n + 1 <= LastAnnounced
      BY <1>2, <1>5, <2>2, NextExecuted
    <3>22. \A i, j \in 1..Len(W) : i < j /\ W[i] # 0 /\ W[j] # 0 => W[i] < W[j]
      BY DEF WaitingIsOrdered, Sorted
    <3> HIDE DEF W, n
    <3>3. ASSUME NEW j \in 1..Len(W), W[j] # 0 PROVE j <= Got + 1 <=> W[j] <= n + 1
      <4>1. CASE j <= Got
        BY <1>0, <1>1, <3>3, <4>1
      <4>2. CASE j = Got + 1
        BY <1>0, <3>2, <4>2
      <4>3. CASE j > Got + 1
        <5>1. W[Got + 1] < W[j]
          BY <1>0, <1>2, <1>5, <3>2, <3>22, <3>3, <4>3
        <5> QED BY <1>0, <3>2, <4>3, <5>1
      <4> QED BY <1>0, <4>1, <4>2, <4>3
    <3> QED BY <1>0, <1>1, <1>3, <1>5, <3>1, <3>2, <3>3
  <2> QED BY <2>1, <2>2
<1>6. ASSUME Answers, W # <<>>, W[1] = held, W' = Tail(W), Got' = Got - 1,
             LastRead' = (IF held # 0 THEN LastRead + 1 ELSE LastRead),
             UNCHANGED <<LastAnnounced, executed>>
      PROVE  ExecutedIsPrefix'
  <2>1. /\ Len(W') = Len(W) - 1 /\ Len(W) \in Nat \ {0}
        /\ \A j \in 1..Len(W') : W'[j] = W[j + 1]
    BY <1>0, <1>6, HeadTailProperties, EmptySeq
  <2>2. Got > 0
    BY <1>0, <1>6, EmptySeq DEF Answers, Receive, Got, Types
  <2>3. n' = n
    BY <1>6
  <2> HIDE DEF W, n
  <2>4. LastRead' <= n
    <3>1. CASE held = 0
      BY <1>1, <1>6, <3>1
    <3>2. CASE held # 0
      <4>1. 1 \in 1..Len(W) /\ 1 <= Got
        BY <1>0, <2>1, <2>2
      <4>2. held <= n
        BY <1>1, <1>6, <3>2, <4>1
      <4>3. held \in (LastRead + 1)..LastAnnounced
        BY <1>4, <1>6, <3>2, <4>1
      <4> QED BY <1>0, <1>6, <3>2, <4>2, <4>3
    <3> QED BY <3>1, <3>2
  <2>5. ASSUME NEW j \in 1..Len(W'), W'[j] # 0 PROVE j <= Got' <=> W'[j] <= n'
    <3>1. j + 1 \in 1..Len(W) /\ W'[j] = W[j + 1] /\ (j <= Got' <=> j + 1 <= Got)
      BY <1>0, <1>6, <2>1
    <3> QED BY <1>1, <2>3, <2>5, <3>1
  <2> QED BY <1>1, <1>3, <1>6, <2>3, <2>4, <2>5
<1>7. ASSUME W' = Append(W, 0), UNCHANGED <<LastAnnounced, LastRead, Got, executed>>
      PROVE  ExecutedIsPrefix'
  <2>1. /\ Len(W') = Len(W) + 1 /\ W'[Len(W) + 1] = 0 /\ \A j \in 1..Len(W) : W'[j] = W[j]
    BY <1>0, <1>7, AppendProperties
  <2>2. n' = n
    BY <1>7
  <2> HIDE DEF W, n
  <2>3. ASSUME NEW j \in 1..Len(W'), W'[j] # 0 PROVE j <= Got' <=> W'[j] <= n'
    <3>1. j \in 1..Len(W)
      BY <1>0, <2>1, <2>3
    <3> QED BY <1>1, <1>7, <2>1, <2>2, <2>3, <3>1
  <2> QED BY <1>1, <1>3, <1>7, <2>2, <2>3
<1>8. ASSUME Announce \/ AnnounceBlocked, W' = Append(W, cur), LastAnnounced' = LastAnnounced + 1,
             UNCHANGED <<LastRead, Got, executed>>
      PROVE  ExecutedIsPrefix'
  <2>1. /\ Len(W') = Len(W) + 1 /\ W'[Len(W) + 1] = cur /\ \A j \in 1..Len(W) : W'[j] = W[j]
    BY <1>0, <1>8, AppendProperties
  <2>2. n' = n /\ cur = LastAnnounced + 1
    BY <1>0, <1>8 DEF Announce, AnnounceBlocked, LastAnnounced
  <2> HIDE DEF W, n
  <2>3. ASSUME NEW j \in 1..Len(W'), W'[j] # 0 PROVE j <= Got' <=> W'[j] <= n'
    <3>1. CASE j \in 1..Len(W)
      BY <1>1, <1>8, <2>1, <2>2, <2>3, <3>1
    <3>2. CASE j = Len(W) + 1
      BY <1>0, <1>1, <1>2, <1>8, <2>1, <2>2, <3>2
    <3> QED BY <1>0, <2>1, <3>1, <3>2
  <2> QED BY <1>0, <1>1, <1>3, <1>8, <2>2, <2>3
<1>9. ASSUME UNCHANGED <<W, LastAnnounced, LastRead, Got, executed>> PROVE ExecutedIsPrefix'
  BY <1>1, <1>3, <1>9
<1> QED BY <1>5, <1>6, <1>7, <1>8, <1>9, StepOfViews DEF ViewStep

\* OnWritten runs for the entries in order.
LEMMA AckedStep ==
    ASSUME Types, AckedInOrder, WaitingIsOrdered, Next PROVE AckedInOrder'
<1>1. CASE Notify
  <2>1. held = Len(acked) + 1 /\ acked \in Seq(Nat \ {0}) /\ Len(acked) \in Nat
    BY <1>1, LenProperties DEF Notify, WaitingIsOrdered, LastRead, Types
  <2>2. /\ Len(acked') = Len(acked) + 1 /\ acked'[Len(acked) + 1] = held
        /\ \A i \in 1..Len(acked) : acked'[i] = acked[i]
    <3>1. held \in Nat \ {0}
      BY <2>1
    <3> QED BY <1>1, <2>1, <3>1, AppendProperties DEF Notify
  <2>3. ASSUME NEW i \in 1..Len(acked') PROVE acked'[i] = i
    <3>1. i \in 1..Len(acked) \/ i = Len(acked) + 1
      BY <2>1, <2>2
    <3> QED BY <2>1, <2>2, <3>1 DEF AckedInOrder
  <2> QED BY <2>3 DEF AckedInOrder
<1>2. CASE ~ Notify
  <2>1. acked' = acked
    BY <1>2 DEF Next, Writer, Replier, Closer, Write, Tick, Take, SendSelect, AnnounceSelect, PassWait,
       Announce, AnnounceFull, AnnounceBlocked, Account, Send, ExitWrite, Execute, Await, Receive, Notify,
       ExitReply, CloseCh, CloseWaitReply, CloseReturn, rvars
  <2> QED BY <2>1 DEF AckedInOrder
<1> QED BY <1>1, <1>2

\* An error reply on its way back ends the process; it does not get lost.
LEMMA RefusedStays == ASSUME Types, Refused, Next PROVE Refused'
<1>0. replies \in Seq(Outcomes) /\ dead \in BOOLEAN
  BY DEF Types
<1>1. CASE dead
  BY <1>1 DEF Next, Writer, Replier, Closer, Write, Tick, Take, SendSelect, AnnounceSelect, PassWait,
       Announce, AnnounceFull, AnnounceBlocked, Account, Send, ExitWrite, Execute, Await, Receive, Notify,
       ExitReply, CloseCh, CloseWaitReply, CloseReturn, Refused
<1>2. CASE ~ dead /\ Receive
  <2>1. PICK i \in 1..Len(replies) : replies[i] = "error"
    BY <1>2 DEF Refused, Upto
  <2>2. CASE i = 1
    <3>1. Head(replies) = "error"
      BY <1>0, <2>1, <2>2
    <3> QED BY <1>2, <3>1 DEF Receive, Fatal, Refused
  <2>3. CASE i # 1
    <3>1. /\ replies' = Tail(replies) /\ Len(replies') = Len(replies) - 1
          /\ \A k \in 1..Len(replies') : replies'[k] = replies[k + 1]
      BY <1>0, <1>2, HeadTailProperties DEF Receive
    <3>2. i - 1 \in 1..Len(replies') /\ replies'[i - 1] = "error"
      BY <1>0, <2>1, <2>3, <3>1
    <3> QED BY <3>2 DEF Refused, Upto
  <2> QED BY <2>2, <2>3
<1>3. CASE ~ dead /\ Executes
  <2>1. PICK i \in 1..Len(replies) : replies[i] = "error"
    BY <1>3 DEF Refused, Upto
  <2>2. PICK o \in Outcomes : replies' = Append(replies, o)
    BY <1>3 DEF Executes, Execute
  <2>3. i \in 1..Len(replies') /\ replies'[i] = "error"
    BY <1>0, <2>1, <2>2, AppendProperties
  <2> QED BY <2>3 DEF Refused, Upto
<1>4. CASE ~ dead /\ ~ Receive /\ ~ Executes
  <2>1. replies' = replies /\ dead' = dead
    BY <1>4 DEF Next, Writer, Replier, Closer, Write, Tick, Take, SendSelect, AnnounceSelect,
         PassWait, Announce, AnnounceFull, AnnounceBlocked, Account, Send, ExitWrite, Executes, Await,
         Notify, ExitReply, CloseCh, CloseWaitReply, CloseReturn, tvars
  <2> QED BY <2>1 DEF Refused, Upto
<1> QED BY <1>1, <1>2, <1>3, <1>4

\* A command that is executed either leaves the process to its error reply or runs and
\* leaves its database selected.
LEMMA RefusalOrSelection ==
    ASSUME Types, ChannelIsSuffix, Executes
    PROVE  Refused' \/ targetDb' = (IF Pipe[1].id = 0 THEN Pipe[1].db ELSE targetDb)
<1>1. PICK o \in Outcomes : Execute(o)
  BY DEF Executes
<1>2. wire \in Seq(Command) /\ buffer \in Seq(Command) /\ wire # <<>> /\ replies \in Seq(Outcomes)
  BY <1>1 DEF Types, Execute
<1>3. Pipe[1] = Head(wire)
  BY <1>2, TailOfConcat DEF Pipe
<1>4. CASE o = "error"
  <2>1. Len(replies) + 1 \in 1..Len(replies') /\ replies'[Len(replies) + 1] = "error"
    BY <1>1, <1>2, <1>4, AppendProperties DEF Execute
  <2> QED BY <2>1 DEF Refused, Upto
<1>5. CASE o # "error"
  BY <1>1, <1>3, <1>5 DEF Execute
<1> QED BY <1>4, <1>5

\* Write only appends: what was handed over stays where it is.
LEMMA LogGrows ==
    ASSUME Types, Next
    PROVE  Len(log) <= Len(log') /\ \A i \in 1..Len(log) : log'[i] = log[i]
<1>1. ASSUME NEW e \in Kinds, Write(e)
      PROVE  Len(log) <= Len(log') /\ \A i \in 1..Len(log) : log'[i] = log[i]
  <2>1. log \in Seq(Entry) /\ e \in Entry /\ log' = Append(log, e)
    BY <1>1, KindsAssumption DEF Types, Write
  <2> QED BY <2>1, AppendProperties
<1>2. ASSUME log' = log
      PROVE  Len(log) <= Len(log') /\ \A i \in 1..Len(log) : log'[i] = log[i]
  BY <1>2 DEF Types
<1>3. (\E e \in Kinds : Write(e)) \/ log' = log
  BY DEF Next, Writer, Replier, Closer, Tick, Take, SendSelect, AnnounceSelect, PassWait,
       Announce, AnnounceFull, AnnounceBlocked, Account, Send, ExitWrite, Execute, Await, Receive, Notify,
       ExitReply, CloseCh, CloseWaitReply, CloseReturn
<1> QED BY <1>1, <1>2, <1>3

\* processWrite selects the database of the entry before it sends it.
LEMMA SelectedStep ==
    ASSUME Types, ChannelIsSuffix, SelectedForCur, Next PROVE SelectedForCur'
<1>1. cur > 0 => log'[cur] = log[cur]
  BY CurType, LogGrows
<1>2. CASE Take
  BY <1>2 DEF Take, SelectedForCur
<1>3. CASE ~ Take
  <2>1. cur' = cur
    BY <1>3 DEF Next, Writer, Replier, Closer, Write, Tick, SendSelect, AnnounceSelect,
         PassWait, Announce, AnnounceFull, AnnounceBlocked, Account, Send, ExitWrite, Execute, Await,
         Receive, Notify, ExitReply, CloseCh, CloseWaitReply, CloseReturn, wvars
  <2>2. CASE SendSelect
    BY <1>1, <2>1, <2>2 DEF SendSelect, SelectedForCur, ChannelIsSuffix
  <2>3. CASE ~ SendSelect
    <3>1. /\ dbId' = dbId
          /\ wpc' \notin {"loop", "done", "select"} => wpc \notin {"loop", "done", "select"}
      BY <1>3, <2>3 DEF Next, Writer, Replier, Closer, Write, Tick, AnnounceSelect, PassWait,
           Announce, Announced, AnnounceFull, AnnounceBlocked, Account, Send, ExitWrite, Execute, Await,
           Receive, Notify, ExitReply, CloseCh, CloseWaitReply, CloseReturn, wvars
    <3> QED BY <1>1, <2>1, <3>1 DEF SelectedForCur, ChannelIsSuffix
  <2> QED BY <2>2, <2>3
<1> QED BY <1>2, <1>3

\* Every command of the pipe that is not a select is an entry of the log.
LEMMA PipeEntries ==
    ASSUME Types, ChannelIsSuffix, WaitingIsOrdered, PipeIsAwaited, NEW j \in 1..Len(Pipe),
           Pipe[j].id # 0
    PROVE  Pipe[j].id \in 1..Len(log)
<1>0. /\ Waiting \in Seq(Nat) /\ Pipe \in Seq(Command) /\ Got \in Nat /\ Len(Waiting) \in Nat
      /\ Len(Pipe) \in Nat /\ LastAnnounced \in Nat /\ LastRead \in Nat /\ Len(log) \in Nat
  BY ViewTypes, CountTypes, LenProperties DEF Types
<1>1. Len(Waiting) = Got + Len(Pipe) + (IF Sending THEN 1 ELSE 0) /\ Pipe[j].id = Waiting[Got + j]
  BY DEF PipeIsAwaited
<1>2. Got + j \in 1..Len(Waiting)
  BY <1>0, <1>1
<1>3. Pipe[j].id \in (LastRead + 1)..LastAnnounced
  BY <1>1, <1>2 DEF WaitingIsOrdered, Bounded
<1>4. LastAnnounced <= Len(log)
  BY <1>0 DEF LastAnnounced, ChannelIsSuffix, Types
<1> HIDE DEF LastAnnounced
<1> QED BY <1>0, <1>3, <1>4

\* The databases of the commands follow one another along the pipe, whatever is flushed
\* and executed in between.
LEMMA DatabasesStep ==
    ASSUME Types, ChannelIsSuffix, WaitingIsOrdered, PipeIsAwaited, SelectedForCur,
           DatabasesFollow, Next
    PROVE  DatabasesFollow'
<1> DEFINE P == Pipe
           Before(j) == IF j = 1 THEN targetDb ELSE P[j - 1].db
           After(j) == IF j = 1 THEN targetDb' ELSE P'[j - 1].db
           Right(j) == P[j].id # 0 => P[j].db = log[P[j].id].db /\ P[j].db = Before(j)
           RightAfter(j) == P'[j].id # 0 => P'[j].db = log'[P'[j].id].db /\ P'[j].db = After(j)
<1>0. P \in Seq(Command) /\ Len(P) \in Nat /\ cur \in Nat
  BY ViewTypes, LenProperties DEF Types
<1>1. CASE Refused
  BY <1>1, RefusedStays DEF DatabasesFollow
<1>2. CASE ~ Refused
  <2>1. dbId = Before(Len(P) + 1) /\ \A j \in 1..Len(P) : Right(j)
    BY <1>2 DEF DatabasesFollow, DbBefore
  <2>2. ASSUME dbId' = After(Len(P') + 1), \A j \in 1..Len(P') : RightAfter(j)
        PROVE  DatabasesFollow'
    BY <2>2 DEF DatabasesFollow, DbBefore
  <2>3. ASSUME NEW j \in 1..Len(P), P[j].id # 0
        PROVE  log'[P[j].id] = log[P[j].id]
    BY <2>3, PipeEntries, LogGrows
  <2> HIDE DEF P
  <2>6. ASSUME ~ SendSelect, P' = P, targetDb' = targetDb PROVE DatabasesFollow'
    <3>1. dbId' = dbId
      BY <2>6 DEF Next, Writer, Replier, Closer, Write, Tick, Take, AnnounceSelect, PassWait,
           Announce, Announced, AnnounceFull, AnnounceBlocked, Account, Send, ExitWrite, Execute,
           Await, Receive, Notify, ExitReply, CloseCh, CloseWaitReply, CloseReturn, wvars
    <3>2. \A j \in 1..(Len(P) + 1) : After(j) = Before(j)
      BY <2>6
    <3> QED BY <1>0, <2>1, <2>2, <2>3, <2>6, <3>1, <3>2
  <2>7. ASSUME NEW c \in Command, P' = Append(P, c), targetDb' = targetDb, dbId' = c.db,
               c.id # 0 => c.db = log'[c.id].db /\ c.db = dbId
        PROVE  DatabasesFollow'
    <3>1. /\ Len(P') = Len(P) + 1 /\ P'[Len(P) + 1] = c /\ \A j \in 1..Len(P) : P'[j] = P[j]
      BY <1>0, <2>7, AppendProperties
    <3>2. \A j \in 1..(Len(P) + 1) : After(j) = Before(j)
      BY <1>0, <2>7, <3>1
    <3>3. dbId' = After(Len(P') + 1)
      BY <1>0, <2>7, <3>1
    <3>4. ASSUME NEW j \in 1..Len(P') PROVE RightAfter(j)
      <4>1. CASE j \in 1..Len(P)
        BY <1>0, <2>1, <2>3, <3>1, <3>2, <4>1
      <4>2. CASE j = Len(P) + 1
        BY <1>0, <2>1, <2>7, <3>1, <3>2, <4>2
      <4> QED BY <1>0, <3>1, <4>1, <4>2
    <3> QED BY <2>2, <3>3, <3>4
  <2>8. CASE SendSelect /\ P' = Append(P, [id |-> 0, db |-> log[cur].db]) /\ targetDb' = targetDb
    <3> DEFINE c == [id |-> 0, db |-> log[cur].db]
    <3>1. c \in Command /\ c.id = 0 /\ c.db = log[cur].db
      BY <2>8, CurType DEF SendSelect, ChannelIsSuffix, Command
    <3>2. dbId' = log[cur].db
      BY <2>8 DEF SendSelect
    <3> HIDE DEF c
    <3>3. P' = Append(P, c)
      BY <2>8 DEF c
    <3> QED BY <2>7, <2>8, <3>1, <3>2, <3>3
  <2>9. CASE Send /\ P' = Append(P, [id |-> cur, db |-> log[cur].db]) /\ targetDb' = targetDb
    <3> DEFINE c == [id |-> cur, db |-> log[cur].db]
    <3>1. c \in Command /\ c.id = cur /\ c.db = log[cur].db
      BY <1>0, <2>9, CurType DEF Send, ChannelIsSuffix, Command
    <3>2. dbId' = dbId /\ dbId = log[cur].db /\ log' = log
      BY <2>9 DEF Send, SelectedForCur
    <3> HIDE DEF c
    <3>3. P' = Append(P, c)
      BY <2>9 DEF c
    <3> QED BY <2>7, <2>9, <3>1, <3>2, <3>3
  <2>10. CASE Executes /\ P # <<>> /\ P' = Tail(P)
    <3>1. /\ Len(P') = Len(P) - 1 /\ Len(P) \in Nat \ {0}
          /\ \A j \in 1..Len(P') : P'[j] = P[j + 1]
      BY <1>0, <2>10, HeadTailProperties, EmptySeq
    <3>2. CASE Refused'
      BY <3>2 DEF DatabasesFollow
    <3>3. CASE ~ Refused'
      <4>1. targetDb' = (IF P[1].id = 0 THEN P[1].db ELSE targetDb)
        BY <2>10, <3>3, RefusalOrSelection DEF P
      <4>2. targetDb' = P[1].db
        <5>1. Right(1)
          BY <2>1, <3>1
        <5> QED BY <4>1, <5>1
      <4>3. \A j \in 1..Len(P) : After(j) = Before(j + 1)
        <5> SUFFICES ASSUME NEW j \in 1..Len(P) PROVE After(j) = Before(j + 1)
          OBVIOUS
        <5>1. CASE j = 1
          BY <4>2, <5>1
        <5>2. CASE j # 1
          BY <3>1, <5>2
        <5> QED BY <5>1, <5>2
      <4>4. dbId' = dbId /\ log' = log
        BY <2>10 DEF Executes, Execute, wvars
      <4>5. dbId' = After(Len(P') + 1)
        BY <2>1, <3>1, <4>3, <4>4
      <4>6. ASSUME NEW j \in 1..Len(P') PROVE RightAfter(j)
        <5>1. j + 1 \in 1..Len(P) /\ j \in 1..Len(P) /\ P'[j] = P[j + 1]
          BY <3>1
        <5>2. Right(j + 1)
          BY <2>1, <5>1
        <5> QED BY <4>3, <4>4, <5>1, <5>2
      <4> QED BY <2>2, <4>5, <4>6
    <3> QED BY <3>2, <3>3
  <2>11. Answers => ~ SendSelect
    BY DEF Answers, Receive, SendSelect, wvars
  <2>12. Announce \/ AnnounceBlocked => ~ SendSelect
    BY DEF Announce, AnnounceBlocked, SendSelect
  <2> QED BY <2>6, <2>8, <2>9, <2>10, <2>11, <2>12, StepOfViews DEF ViewStep, P
<1> QED BY <1>1, <1>2

\* The target runs each entry in its own database, and the entries in order.
LEMMA ExecutedStep ==
    ASSUME Types, ChannelIsSuffix, WaitingIsOrdered, PipeIsAwaited, ExecutedIsPrefix,
           DatabasesFollow, ExecutedInOrderInOwnDb, Next
    PROVE  ExecutedInOrderInOwnDb'
<1>0. /\ executed \in Seq((Nat \ {0}) \X DBs) /\ Len(executed) \in Nat /\ Pipe \in Seq(Command)
      /\ targetDb \in DBs /\ Len(log) \in Nat
  BY ViewTypes, LenProperties DEF Types
<1>1. CASE Refused
  BY <1>1, RefusedStays DEF Refused, ExecutedInOrderInOwnDb
<1>2. CASE ~ Refused
  <2>1. \A k \in 1..Len(executed) : executed[k] = <<k, log[k].db>>
    BY <1>2 DEF Refused, ExecutedInOrderInOwnDb
  <2>2. Len(executed) <= Len(log)
    <3>1. LastAnnounced <= Len(log) /\ LastAnnounced \in Nat
      BY <1>0, CountTypes DEF LastAnnounced, ChannelIsSuffix, Types
    <3>2. Len(executed) <= LastAnnounced
      BY DEF ExecutedIsPrefix
    <3> QED BY <1>0, <3>1, <3>2
  <2>3. \A k \in 1..Len(executed) : log'[k] = log[k]
    BY <1>0, <2>2, LogGrows
  <2>4. CASE executed' = executed
    BY <2>1, <2>3, <2>4 DEF ExecutedInOrderInOwnDb
  <2>5. CASE Executes /\ executed' # executed
    <3>1. Pipe # <<>>
      BY <2>5, PipeStep DEF Executes, Execute, SendSelect, Send, wvars
    <3>2. Pipe[1].id # 0 /\ executed' = Append(executed, <<Pipe[1].id, targetDb>>)
      BY <2>5, ExecutesStep
    <3>3. Pipe[1].id = Len(executed) + 1
      BY <3>1, <3>2, NextExecuted
    <3>4. 1 \in 1..Len(Pipe)
      BY <1>0, <3>1, EmptySeq
    <3>5. targetDb = log[Pipe[1].id].db
      BY <1>2, <3>2, <3>4 DEF DatabasesFollow, DbBefore
    <3>6. log' = log
      BY <2>5 DEF Executes, Execute
    <3> DEFINE x == <<Len(executed) + 1, targetDb>>
    <3>7. x \in (Nat \ {0}) \X DBs
      BY <1>0
    <3>8. executed' = Append(executed, x)
      BY <3>2, <3>3
    <3>9. x = <<Len(executed) + 1, log'[Len(executed) + 1].db>>
      BY <3>3, <3>5, <3>6
    <3> HIDE DEF x
    <3>10. /\ Len(executed') = Len(executed) + 1 /\ executed'[Len(executed) + 1] = x
           /\ \A k \in 1..Len(executed) : executed'[k] = executed[k]
      BY <1>0, <3>7, <3>8, AppendProperties
    <3>11. ASSUME NEW k \in 1..Len(executed') PROVE executed'[k] = <<k, log'[k].db>>
      <4>1. k \in 1..Len(executed) \/ k = Len(executed) + 1
        BY <1>0, <3>10
      <4> QED BY <2>1, <3>6, <3>9, <3>10, <4>1
    <3> QED BY <3>11 DEF ExecutedInOrderInOwnDb
  <2> QED BY <2>4, <2>5, CountsStep DEF CountsMove
<1> QED BY <1>1, <1>2

\* Close comes behind processWrite, and processReply behind both.
LEMMA StagesStep ==
    ASSUME Types, StagesAreOrdered, Next PROVE StagesAreOrdered'
  BY DEF Types, StagesAreOrdered, Next, Writer, Replier, Closer, Write, Tick, Take, SendSelect,
     AnnounceSelect, PassWait, Announce, Announced, AnnounceFull, AnnounceBlocked, Account, Send,
     ExitWrite, Execute, Await, Receive, Notify, ExitReply, CloseCh, CloseWaitReply, CloseReturn,
     wvars, rvars

(***************************************************************************)
(* The account of unanswered bytes.                                        *)
(***************************************************************************)
\* No reply is read for an entry whose bytes are not counted yet.
ReadInBounds ==
    LastRead \in Nat /\ Accounted \in Nat /\ LastRead <= Accounted /\ Accounted <= Len(log)

\* UnansweredBytes counts an entry before processReply can subtract it.
LEMMA ReadIsAccounted == OrderInv => ReadInBounds
<1> SUFFICES ASSUME OrderInv PROVE ReadInBounds
  OBVIOUS
<1> USE DEF OrderInv, ReadInBounds
<1>0. /\ Waiting \in Seq(Nat) /\ Len(Waiting) \in Nat /\ Got \in Nat /\ Len(Pipe) \in Nat
      /\ LastAnnounced \in Nat /\ LastRead \in Nat /\ Len(executed) \in Nat /\ cur \in Nat
      /\ Len(log) \in Nat
  BY ViewTypes, CountTypes, LenProperties DEF Types
<1>1. Accounted \in Nat /\ Accounted <= Len(log)
  BY <1>0 DEF Accounted, ChannelIsSuffix, Types
<1>2. CASE wpc # "account"
  <2>1. LastAnnounced = Accounted
    BY <1>2 DEF LastAnnounced, Accounted, Types
  <2> QED BY <1>0, <1>1, <2>1 DEF WaitingIsOrdered, Bounded
<1>3. CASE wpc = "account"
  <2>1. Len(Waiting) = Got + Len(Pipe) + 1 /\ Waiting[Len(Waiting)] = cur
    BY <1>0, <1>3 DEF PipeIsAwaited, Sending
  <2>2. Len(Waiting) \in 1..Len(Waiting) /\ ~ (Len(Waiting) <= Got) /\ cur # 0
    BY <1>0, <1>3, <2>1 DEF ChannelIsSuffix
  <2>3. ~ (cur <= Len(executed))
    BY <2>1, <2>2 DEF ExecutedIsPrefix
  <2>4. LastRead <= Len(executed)
    BY DEF ExecutedIsPrefix
  <2>5. Accounted = cur - 1
    BY <1>3 DEF Accounted
  <2> QED BY <1>0, <1>1, <2>3, <2>4, <2>5
<1> QED BY <1>2, <1>3

\* The reply that is read is the one of the oldest entry without reply.
LEMMA OldestIsRead ==
    ASSUME OrderInv, Next, Answers, held # 0 PROVE held = LastRead + 1
<1> USE DEF OrderInv
<1>0. /\ Waiting \in Seq(Nat) /\ LastAnnounced \in Nat /\ LastRead \in Nat /\ held \in Nat
      /\ Len(Waiting) \in Nat
  BY ViewTypes, CountTypes, LenProperties DEF Types
<1>1. Waiting # <<>> /\ Waiting[1] = held /\ Len(Waiting) \in Nat \ {0}
  <2>1. Waiting # <<>> /\ Waiting[1] = held
    BY WaitingStep DEF Answers, Receive, SendSelect, Announce, AnnounceBlocked, Announced, wvars
  <2> QED BY <1>0, <2>1, EmptySeq
<1>2. held \in (LastRead + 1)..LastAnnounced
  BY <1>0, <1>1 DEF WaitingIsOrdered, Bounded
<1>3. PICK j \in 1..Len(Waiting) : Waiting[j] = LastRead + 1
  <2>1. LastRead + 1 \in (LastRead + 1)..LastAnnounced
    BY <1>0, <1>2
  <2> QED BY <2>1 DEF WaitingIsOrdered, Complete
<1>4. j > 1 => held < Waiting[j]
  <2>1. 1 \in 1..Len(Waiting) /\ Waiting[1] # 0 /\ Waiting[j] # 0
    BY <1>0, <1>1, <1>3
  <2> QED BY <1>1, <2>1 DEF WaitingIsOrdered, Sorted
<1> QED BY <1>0, <1>1, <1>2, <1>3, <1>4

\* UnansweredBytes is never negative, and zero only when every counted entry has its
\* reply.
LEMMA CountIsPositive ==
    ASSUME OrderInv, BytesAreCounted
    PROVE  unanswered \in Nat /\ (unanswered = 0 <=> LastRead = Accounted)
<1>1. PICK S : BytesOfUnread(S)
  BY DEF BytesAreCounted
<1>2. /\ LastRead \in 0..Len(log) /\ Accounted \in 0..Len(log) /\ LastRead <= Accounted
      /\ Len(log) \in Nat
  BY ReadIsAccounted, LenProperties DEF OrderInv, Types, ReadInBounds
<1>3. S[LastRead] \in Nat /\ S[Accounted] \in Nat /\ (LastRead < Accounted => S[LastRead] < S[Accounted])
  BY <1>1, <1>2 DEF BytesOfUnread, Sums
<1> QED BY <1>1, <1>2, <1>3 DEF BytesOfUnread

\* What the steps do to the count.
LEMMA BytesStep ==
    ASSUME OrderInv, OrderInv', BytesAreCounted, Next PROVE BytesAreCounted'
<1>0. PICK S : BytesOfUnread(S)
  BY DEF BytesAreCounted
<1>1. /\ LastRead \in 0..Len(log) /\ Accounted \in 0..Len(log) /\ LastRead <= Accounted
      /\ Len(log) \in Nat /\ cur \in 0..Len(log) /\ unanswered \in Nat
      /\ unanswered = 0 <=> LastRead = Accounted
  <2>1. ReadInBounds /\ unanswered \in Nat /\ (unanswered = 0 <=> LastRead = Accounted)
    BY ReadIsAccounted, CountIsPositive
  <2>2. Len(log) \in Nat /\ cur \in Nat /\ cur <= Len(log)
    BY LenProperties DEF OrderInv, Types, ChannelIsSuffix
  <2> QED BY <2>1, <2>2 DEF ReadInBounds
<1>2. LastRead' \in Nat /\ Accounted' \in Nat /\ LastRead' <= Accounted'
  <2>1. OrderInv' => ReadInBounds'
    BY ReadIsAccounted, PTL
  <2> QED BY <2>1 DEF ReadInBounds
<1>3. /\ wpc \in {"announce", "blocked", "account"} =>
            unanswered = 0 \/ unanswered + log[cur].size <= MaxQuery
      /\ unanswered > MaxQuery => Accounted = LastRead + 1
      /\ MaxQuery \in Nat
  BY LimitsAssumption DEF BytesAreCounted, NeverOver
<1>4. Sums(S) /\ unanswered = S[Accounted] - S[LastRead]
  BY <1>0 DEF BytesOfUnread
<1>5. ASSUME NEW i \in 1..Len(log)
      PROVE  log[i].size \in Nat \ {0} /\ S[i] = S[i - 1] + log[i].size /\ S[i] \in Nat /\ S[i - 1] \in Nat
  <2>1. log[i] \in Entry
    BY ElementOfSeq DEF OrderInv, Types
  <2>2. i \in 0..Len(log) /\ i - 1 \in 0..Len(log)
    BY <1>1
  <2> QED BY <1>4, <2>1, <2>2, SizesAssumption DEF Entry, Sums
<1>6. LastRead' = (IF Answers /\ held # 0 THEN LastRead + 1 ELSE LastRead)
  BY CountsStep DEF CountsMove, OrderInv
<1>7. wpc \notin {"loop", "done"} => cur \in 1..Len(log)
  BY <1>1 DEF OrderInv, ChannelIsSuffix
<1>8. ASSUME log' = log, unanswered' = unanswered, LastRead' = LastRead, Accounted' = Accounted,
             wpc' \in {"announce", "blocked", "account"} =>
               unanswered = 0 \/ unanswered + log[cur'].size <= MaxQuery
      PROVE  BytesAreCounted'
  <2>1. BytesOfUnread(S)'
    BY <1>4, <1>8 DEF BytesOfUnread, Sums
  <2>2. NeverOver'
    BY <1>3, <1>8 DEF NeverOver
  <2> QED BY <2>1, <2>2 DEF BytesAreCounted
<1>9. ASSUME NEW e \in Kinds, Write(e) PROVE BytesAreCounted'
  <2> DEFINE n == Len(log)
             longer == [i \in 0..(n + 1) |-> IF i <= n THEN S[i] ELSE S[n] + e.size]
  <2>1. /\ log' = Append(log, e) /\ UNCHANGED <<wpc, cur, unanswered, rpc, acked>>
    BY <1>9 DEF Write, wvars, rvars
  <2>2. e \in Entry /\ e.size \in Nat \ {0}
    BY KindsAssumption, SizesAssumption DEF Entry
  <2>3. Len(log') = n + 1 /\ log'[n + 1] = e /\ \A i \in 1..n : log'[i] = log[i]
    BY <2>1, <2>2, AppendProperties DEF OrderInv, Types
  <2>4. LastRead' = LastRead /\ Accounted' = Accounted
    BY <2>1 DEF LastRead, Accounted
  <2>5. S \in [0..n -> Nat] /\ \A i, j \in 0..n : i < j => S[i] < S[j]
    BY <1>4 DEF Sums
  <2>6. longer \in [0..(n + 1) -> Nat]
    BY <1>1, <2>2, <2>5, SMTT(30)
  <2>7. PICK T : /\ T \in [0..(n + 1) -> Nat]
                 /\ (\A i \in 0..n : T[i] = S[i]) /\ T[n + 1] = S[n] + e.size
    <3>1. (\A i \in 0..n : longer[i] = S[i]) /\ longer[n + 1] = S[n] + e.size
      BY <1>1
    <3> HIDE DEF longer
    <3> QED BY <2>6, <3>1
  <2>8. ASSUME NEW i \in 1..(n + 1) PROVE T[i] = T[i - 1] + log'[i].size
    <3>1. CASE i \in 1..n
      BY <1>1, <1>5, <2>3, <2>7, <3>1, SMTT(30)
    <3>2. CASE i = n + 1
      BY <1>1, <2>3, <2>7, <3>2
    <3> QED BY <1>1, <3>1, <3>2
  <2>9. ASSUME NEW i \in 0..(n + 1), NEW j \in 0..(n + 1), i < j PROVE T[i] < T[j]
    <3>1. CASE j \in 0..n
      BY <1>1, <2>5, <2>7, <2>9, <3>1
    <3>2. CASE j = n + 1
      <4>1. S[i] \in Nat /\ S[n] \in Nat /\ (i = n \/ S[i] < S[n]) /\ T[i] = S[i]
        BY <1>1, <2>5, <2>7, <2>9, <3>2
      <4> QED BY <2>2, <2>7, <3>2, <4>1
    <3> QED BY <1>1, <3>1, <3>2
  <2>10. Sums(T)'
    BY <2>3, <2>7, <2>8, <2>9 DEF Sums
  <2>11. BytesOfUnread(T)'
    BY <1>1, <1>4, <2>1, <2>4, <2>7, <2>10 DEF BytesOfUnread
  <2>12. NeverOver'
    BY <1>3, <1>7, <2>1, <2>3, <2>4 DEF NeverOver
  <2> QED BY <2>11, <2>12 DEF BytesAreCounted
<1>10. CASE Account
  <2>1. /\ UNCHANGED <<log, cur, acked, rpc>> /\ wpc = "account" /\ wpc' = "send"
        /\ unanswered' = unanswered + log[cur].size
    BY <1>10 DEF Account, rvars
  <2>2. LastRead' = LastRead /\ Accounted = cur - 1 /\ Accounted' = cur /\ cur \in 1..Len(log)
    BY <1>7, <2>1 DEF LastRead, Accounted
  <2>3. S[cur] = S[cur - 1] + log[cur].size /\ log[cur].size \in Nat /\ S[cur] \in Nat /\ S[cur - 1] \in Nat
        /\ S[LastRead] \in Nat
    BY <1>1, <1>4, <1>5, <2>2 DEF Sums
  <2>4. Sums(S)'
    BY <1>4, <2>1 DEF Sums
  <2>5. unanswered' = S[cur] - S[LastRead]
    <3>1. unanswered = S[cur - 1] - S[LastRead]
      BY <1>4, <2>2
    <3> QED BY <2>1, <2>3, <3>1
  <2>6. BytesOfUnread(S)'
    BY <2>2, <2>4, <2>5 DEF BytesOfUnread
  <2>7. unanswered' > MaxQuery => Accounted' = LastRead' + 1
    BY <1>1, <1>3, <2>1, <2>2, <2>3
  <2>8. NeverOver'
    BY <2>1, <2>7 DEF NeverOver
  <2> QED BY <2>6, <2>8 DEF BytesAreCounted
<1>11. CASE Answers /\ held # 0
  <2>1. /\ UNCHANGED <<log, cur, wpc>> /\ unanswered' = unanswered - log[held].size
    BY <1>11 DEF Answers, Receive, wvars
  <2>2. held = LastRead + 1 /\ LastRead' = held /\ Accounted' = Accounted
    BY <1>6, <1>11, <2>1, OldestIsRead DEF Accounted
  <2>3. held \in 1..Len(log) /\ held <= Accounted
    BY <1>1, <1>2, <2>2
  <2>4. /\ S[held] = S[LastRead] + log[held].size /\ log[held].size \in Nat \ {0}
        /\ S[held] \in Nat /\ S[LastRead] \in Nat /\ S[Accounted] \in Nat
        /\ held = Accounted \/ S[held] < S[Accounted]
    <3>1. S[Accounted] \in Nat /\ (held < Accounted => S[held] < S[Accounted])
      BY <1>1, <1>4, <2>3 DEF Sums
    <3>2. held - 1 = LastRead
      BY <1>1, <2>2
    <3> QED BY <1>1, <1>5, <2>3, <3>1, <3>2
  <2>5. Sums(S)'
    BY <1>4, <2>1 DEF Sums
  <2>6. unanswered' = S[Accounted] - S[held]
    BY <1>4, <2>1, <2>4
  <2>7. BytesOfUnread(S)'
    BY <2>2, <2>5, <2>6 DEF BytesOfUnread
  <2>8. unanswered' \in Nat /\ unanswered' < unanswered /\ (Accounted = held => unanswered' = 0)
    BY <1>4, <2>1, <2>4, <2>6
  <2>9. wpc' \in {"announce", "blocked", "account"} =>
            unanswered' = 0 \/ unanswered' + log'[cur'].size <= MaxQuery
    <3> HAVE wpc' \in {"announce", "blocked", "account"}
    <3>1. log[cur].size \in Nat /\ (unanswered = 0 \/ unanswered + log[cur].size <= MaxQuery)
      BY <1>3, <1>5, <1>7, <2>1
    <3> QED BY <1>1, <1>3, <2>1, <2>8, <3>1, SMTT(30)
  <2>10. ~ (unanswered' > MaxQuery)
    BY <1>1, <1>3, <2>2, <2>8
  <2> QED BY <2>7, <2>9, <2>10 DEF BytesAreCounted, NeverOver
<1>12. CASE PassWait
  <2>1. /\ UNCHANGED <<log, cur, acked, rpc, unanswered>> /\ wpc = "wait" /\ wpc' = "announce"
        /\ ~ MustWait
    BY <1>12 DEF PassWait, rvars
  <2>2. LastRead' = LastRead /\ Accounted' = Accounted
    BY <2>1 DEF LastRead, Accounted
  <2>3. log[cur].size \in Nat
    BY <1>5, <1>7, <2>1
  <2>4. unanswered = 0 \/ unanswered + log[cur].size <= MaxQuery
    BY <1>1, <1>3, <2>1, <2>3 DEF MustWait
  <2> QED BY <1>8, <2>1, <2>2, <2>4
<1>13. CASE Take
  <2>1. /\ UNCHANGED <<log, acked, rpc, unanswered>> /\ wpc = "loop" /\ wpc' \in {"select", "wait"}
        /\ cur' = cur + 1 /\ cur \in Nat
    <3>1. ch \in Seq(Nat \ {0}) /\ ch # <<>> /\ \A i \in 1..Len(ch) : ch[i] = cur + i
      BY <1>13 DEF Take, OrderInv, Types, ChannelIsSuffix
    <3> QED BY <1>1, <1>13, <3>1 DEF Take, rvars
  <2>2. LastRead' = LastRead /\ Accounted' = Accounted
    BY <2>1 DEF LastRead, Accounted
  <2> QED BY <1>8, <2>1, <2>2
<1>14. ASSUME UNCHANGED <<log, cur, unanswered>>, LastRead' = LastRead,
              \/ wpc' = wpc
              \/ wpc \in {"announce", "blocked"} /\ wpc' \in {"blocked", "account"}
              \/ wpc \in {"select", "announceSelect"} /\ wpc' \in {"announceSelect", "wait"}
              \/ wpc \in {"loop", "done", "send"} /\ wpc' \in {"loop", "done"}
       PROVE  BytesAreCounted'
  <2>1. Accounted' = Accounted
    BY <1>14 DEF Accounted
  <2> QED BY <1>3, <1>8, <1>14, <2>1
<1>15. CASE Receive /\ ~ (Answers /\ held # 0)
  <2>1. UNCHANGED <<log, cur, wpc, unanswered>>
    BY <1>15 DEF Receive, Answers, wvars
  <2> QED BY <1>6, <1>14, <1>15, <2>1
<1>16. CASE ~ Receive /\ ~ Account /\ ~ PassWait /\ ~ Take /\ ~ (\E e \in Kinds : Write(e))
  <2>1. ~ Answers
    BY <1>16 DEF Answers
  <2>2. /\ UNCHANGED <<log, cur, unanswered>>
        /\ \/ wpc' = wpc
           \/ wpc \in {"announce", "blocked"} /\ wpc' \in {"blocked", "account"}
           \/ wpc \in {"select", "announceSelect"} /\ wpc' \in {"announceSelect", "wait"}
           \/ wpc \in {"loop", "done", "send"} /\ wpc' \in {"loop", "done"}
    BY <1>16 DEF Next, Writer, Replier, Closer, Tick, SendSelect, AnnounceSelect,
         Announce, Announced, AnnounceFull, AnnounceBlocked, Send, ExitWrite, Execute, Await, Notify,
         ExitReply, CloseCh, CloseWaitReply, CloseReturn, wvars
  <2> QED BY <1>6, <1>14, <2>1, <2>2
<1> QED BY <1>9, <1>10, <1>11, <1>12, <1>13, <1>15, <1>16

(***************************************************************************)
(* The theorems.                                                           *)
(***************************************************************************)
LEMMA InitInv == ASSUME Init PROVE Inv
<1> USE DEF Init
<1>1. Types
  <2>1. dead \in BOOLEAN
    OBVIOUS
  <2>2. /\ log \in Seq(Entry) /\ ch \in Seq(Nat \ {0}) /\ acked \in Seq(Nat \ {0}) /\ buffer \in Seq(Command)
        /\ wire \in Seq(Command) /\ executed \in Seq((Nat \ {0}) \X DBs) /\ replies \in Seq(Outcomes)
        /\ chWaitReply \in Seq(Nat)
    BY EmptySeq
  <2> QED BY <2>1, <2>2, DBsAssumption, LimitsAssumption DEF Types
<1>2. Waiting = <<>> /\ Pipe = <<>> /\ Len(Waiting) = 0 /\ Len(Pipe) = 0
  <2>1. Holding = <<>> /\ Selecting = <<>> /\ <<>> \in Seq(Nat) /\ <<>> \in Seq(Command)
    BY DEF Holding, Selecting
  <2>2. Waiting = <<>> /\ Pipe = <<>>
    BY <2>1, ConcatEmptySeq DEF Waiting, Pipe
  <2> QED BY <2>2
<1>3. LastAnnounced = 0 /\ LastRead = 0 /\ Got = 0 /\ ~ Sending /\ Accounted = 0 /\ Len(log) = 0
      /\ Len(executed) = 0 /\ Len(acked) = 0
  BY DEF LastAnnounced, LastRead, Got, Sending, Accounted
<1>4. ChannelIsSuffix /\ AckedInOrder /\ SelectedForCur /\ ExecutedInOrderInOwnDb
  BY DEF ChannelIsSuffix, AckedInOrder, SelectedForCur, ExecutedInOrderInOwnDb
<1>5. WaitingIsOrdered
  BY <1>2, <1>3 DEF WaitingIsOrdered, Bounded, Complete, Sorted
<1>6. PipeIsAwaited /\ ExecutedIsPrefix
  BY <1>2, <1>3 DEF PipeIsAwaited, ExecutedIsPrefix
<1>7. DatabasesFollow
  BY <1>2 DEF DatabasesFollow, DbBefore
<1>8. StagesAreOrdered
  BY DEF StagesAreOrdered
<1>9. BytesAreCounted
  <2>1. [i \in {0} |-> 0] \in [0..0 -> Nat] /\ [i \in {0} |-> 0][0] = 0
    BY SMT
  <2>2. PICK S : S \in [0..0 -> Nat] /\ S[0] = 0
    BY <2>1
  <2>3. BytesOfUnread(S)
    BY <1>3, <2>2 DEF BytesOfUnread, Sums
  <2>4. NeverOver
    BY LimitsAssumption DEF NeverOver
  <2> QED BY <2>3, <2>4 DEF BytesAreCounted
<1> QED BY <1>1, <1>4, <1>5, <1>6, <1>7, <1>8, <1>9 DEF Inv, OrderInv

\* Every step of the goroutines, the target and Close keeps the invariant.
LEMMA NextInv == ASSUME Inv, Next PROVE Inv'
<1> USE DEF Inv, OrderInv
<1>1. Types'
  BY TypesStep
<1>2. ChannelIsSuffix' /\ AckedInOrder'
  BY ChannelStep, AckedStep
<1>3. WaitingIsOrdered' /\ PipeIsAwaited'
  BY WaitingOrderStep, PipeAwaitStep
<1>4. ExecutedIsPrefix' /\ SelectedForCur'
  BY PrefixStep, SelectedStep
<1>5. DatabasesFollow' /\ ExecutedInOrderInOwnDb'
  BY DatabasesStep, ExecutedStep
<1>6. OrderInv'
  BY <1>1, <1>2, <1>3, <1>4, <1>5
<1>7. StagesAreOrdered'
  BY StagesStep
<1> HIDE DEF OrderInv
<1>8. BytesAreCounted'
  BY <1>6, BytesStep
<1> QED BY <1>6, <1>7, <1>8

\* So does a step that changes nothing.
LEMMA StutterInv == ASSUME Inv, UNCHANGED vars PROVE Inv'
<1> USE DEF Inv, OrderInv
<1>1. /\ UNCHANGED <<log, ch, wpc, cur, dbId, buffer, buffered, wire, targetDb, executed, replies>>
      /\ UNCHANGED <<chWaitReply, rpc, held, acked, unanswered, closing, dead>>
  BY DEF vars, wvars, tvars, rvars
<1>2. UNCHANGED <<Waiting, Pipe, Got, LastAnnounced, LastRead, Sending, Accounted>>
  BY <1>1 DEF Waiting, Holding, Selecting, Pipe, Got, LastAnnounced, LastRead, Sending, Accounted
<1>3. Types' /\ ChannelIsSuffix' /\ AckedInOrder' /\ SelectedForCur' /\ StagesAreOrdered'
  BY <1>1 DEF Types, ChannelIsSuffix, AckedInOrder, SelectedForCur, StagesAreOrdered
<1>4. WaitingIsOrdered' /\ PipeIsAwaited' /\ ExecutedIsPrefix'
  BY <1>1, <1>2 DEF WaitingIsOrdered, Bounded, Complete, Sorted, PipeIsAwaited, ExecutedIsPrefix
<1>5. DatabasesFollow' /\ ExecutedInOrderInOwnDb'
  BY <1>1, <1>2 DEF DatabasesFollow, DbBefore, Refused, Upto, ExecutedInOrderInOwnDb
<1>6. BytesAreCounted'
  <2>1. PICK S : BytesOfUnread(S)
    BY DEF BytesAreCounted
  <2>2. BytesOfUnread(S)' /\ NeverOver'
    BY <1>1, <1>2, <2>1 DEF BytesOfUnread, Sums, NeverOver, BytesAreCounted
  <2> QED BY <2>2 DEF BytesAreCounted
<1> QED BY <1>3, <1>4, <1>5, <1>6

\* The order of entries, announcements, commands and replies, and the account of bytes,
\* hold along every run of the two goroutines and the target.
THEOREM Invariance == Spec => []Inv
<1>1. Init => Inv
  BY InitInv
<1>2. Inv /\ [Next]_vars => Inv'
  BY NextInv, StutterInv
<1> QED BY <1>1, <1>2, PTL DEF Spec

\* Every variable keeps its type; UnansweredBytes is never negative.
THEOREM Typing == Spec => []TypeOK
<1>1. Inv => TypeOK
  <2> SUFFICES ASSUME Inv PROVE TypeOK
    OBVIOUS
  <2>1. Types /\ unanswered \in Nat
    BY CountIsPositive DEF Inv, OrderInv
  <2> QED BY <2>1 DEF Types, TypeOK
<1> QED BY <1>1, Invariance, PTL

\* The target executes the entries in the order of the Write calls, none twice, each in
\* its own database, until a refused command ends the process.
THEOREM EntriesRunInOrder == Spec => []ExecutedInOrderInOwnDb
<1>1. Inv => ExecutedInOrderInOwnDb
  BY DEF Inv, OrderInv
<1> QED BY <1>1, Invariance, PTL

\* When Close returns every entry was acknowledged.
THEOREM CloseLosesNothing == Spec => []CloseDrains
<1>1. Inv => CloseDrains
  <2> SUFFICES ASSUME Inv, closing = "closed" PROVE Len(acked) = Len(log)
    BY DEF CloseDrains
  <2> USE DEF Inv, OrderInv
  <2>1. wpc = "done" /\ rpc = "done" /\ chWaitReply = <<>>
    BY DEF StagesAreOrdered
  <2>2. cur = Len(log) /\ LastAnnounced = cur /\ LastRead = Len(acked)
    <3>1. ch = <<>> /\ Len(ch) = Len(log) - cur /\ cur \in Nat /\ Len(log) \in Nat /\ Len(acked) \in Nat
      BY <2>1, LenProperties DEF ChannelIsSuffix, Types
    <3> QED BY <2>1, <3>1 DEF LastAnnounced, LastRead
  <2>3. Waiting = <<>>
    <3>1. Holding = <<>> /\ Selecting = <<>> /\ <<>> \in Seq(Nat)
      BY <2>1 DEF Holding, Selecting
    <3> QED BY <2>1, <3>1, ConcatEmptySeq DEF Waiting
  <2>4. Len(Waiting) = 0
    BY <2>3
  <2>5. LastRead \in Nat /\ LastAnnounced \in Nat /\ LastRead <= LastAnnounced
    BY CountTypes DEF WaitingIsOrdered, Bounded
  <2>6. ~ (LastAnnounced \in (LastRead + 1)..LastAnnounced)
    BY <2>4 DEF WaitingIsOrdered, Complete
  <2> QED BY <2>2, <2>5, <2>6
<1> QED BY <1>1, Invariance, PTL

\* The entries UnansweredBytes counts are exactly those between the replies read and
\* the bytes accounted for.
LEMMA UnrepliedIsInterval == ASSUME OrderInv PROVE Unreplied = (LastRead + 1)..Accounted
<1> USE DEF OrderInv
<1>0. /\ Waiting \in Seq(Nat) /\ Len(Waiting) \in Nat /\ LastAnnounced \in Nat /\ LastRead \in Nat
      /\ chWaitReply \in Seq(Nat) /\ Len(chWaitReply) \in Nat /\ held \in Nat /\ cur \in Nat
  BY ViewTypes, CountTypes, LenProperties DEF Types
<1> DEFINE Front == Holding \o chWaitReply
           Awaited == Upto(chWaitReply) \cup (IF rpc = "receive" THEN {held} ELSE {})
<1>1. \A x \in Nat \ {0} : x \in Awaited <=> \E j \in 1..Len(Waiting) : Waiting[j] = x
  <2>1. /\ Holding \in Seq(Nat) /\ Selecting \in Seq(Nat) /\ Len(Holding) \in Nat /\ Len(Selecting) \in Nat
        /\ \A i \in 1..Len(Selecting) : Selecting[i] = 0
    BY <1>0 DEF Holding, Selecting
  <2>2. /\ Front \in Seq(Nat) /\ Len(Front) = Len(Holding) + Len(chWaitReply)
        /\ \A i \in 1..(Len(Holding) + Len(chWaitReply)) :
              Front[i] = IF i <= Len(Holding) THEN Holding[i] ELSE chWaitReply[i - Len(Holding)]
    BY <1>0, <2>1, ConcatProperties
  <2> HIDE DEF Front
  <2>3. /\ Len(Waiting) = Len(Front) + Len(Selecting)
        /\ \A i \in 1..(Len(Front) + Len(Selecting)) :
              Waiting[i] = IF i <= Len(Front) THEN Front[i] ELSE Selecting[i - Len(Front)]
    <3>1. Waiting = Front \o Selecting
      BY DEF Waiting, Front
    <3> QED BY <2>1, <2>2, <3>1, ConcatProperties
  <2>4. ASSUME NEW x \in Nat \ {0}, x \in Awaited PROVE \E j \in 1..Len(Waiting) : Waiting[j] = x
    <3>1. CASE rpc = "receive" /\ x = held
      <4>1. Len(Holding) = 1 /\ Holding[1] = held
        BY <3>1 DEF Holding
      <4>2. 1 \in 1..Len(Waiting) /\ Waiting[1] = held
        BY <1>0, <2>1, <2>2, <2>3, <4>1
      <4> QED BY <3>1, <4>2
    <3>2. CASE x \in Upto(chWaitReply)
      <4>1. PICK i \in 1..Len(chWaitReply) : chWaitReply[i] = x
        BY <3>2 DEF Upto
      <4>2. Len(Holding) + i \in 1..Len(Waiting) /\ Waiting[Len(Holding) + i] = x
        <5>1. Front[Len(Holding) + i] = x
          <6> DEFINE k == Len(Holding) + i
          <6>1. k \in 1..(Len(Holding) + Len(chWaitReply)) /\ ~ (k <= Len(Holding)) /\ k - Len(Holding) = i
            BY <1>0, <2>1
          <6> HIDE DEF k
          <6>2. Front[k] = x
            BY <2>2, <4>1, <6>1
          <6> QED BY <6>2 DEF k
        <5>2. Len(Holding) + i \in 1..(Len(Front) + Len(Selecting)) /\ Len(Holding) + i <= Len(Front)
          BY <1>0, <2>1, <2>2
        <5> QED BY <2>3, <5>1, <5>2
      <4> QED BY <4>2
    <3> QED BY <2>4, <3>1, <3>2
  <2>5. ASSUME NEW x \in Nat \ {0}, NEW j \in 1..Len(Waiting), Waiting[j] = x PROVE x \in Awaited
    <3>0. Len(Front) \in Nat /\ j \in 1..(Len(Front) + Len(Selecting))
      BY <1>0, <2>1, <2>2, <2>3
    <3>1. j <= Len(Front)
      <4> SUFFICES ASSUME ~ (j <= Len(Front)) PROVE FALSE
        OBVIOUS
      <4>1. Waiting[j] = Selecting[j - Len(Front)] /\ j - Len(Front) \in 1..Len(Selecting)
        BY <2>1, <2>3, <3>0
      <4> QED BY <2>1, <2>5, <4>1
    <3>2. Front[j] = x
      BY <2>3, <2>5, <3>0, <3>1
    <3>3. CASE j <= Len(Holding)
      <4>1. rpc = "receive" /\ Holding = <<held>> /\ j = 1
        BY <3>3 DEF Holding
      <4> QED BY <2>1, <2>2, <3>1, <3>2, <3>3, <4>1
    <3>4. CASE ~ (j <= Len(Holding))
      <4>1. j - Len(Holding) \in 1..Len(chWaitReply) /\ chWaitReply[j - Len(Holding)] = x
        <5>1. j \in 1..(Len(Holding) + Len(chWaitReply))
          BY <2>2, <3>0, <3>1
        <5>2. Front[j] = chWaitReply[j - Len(Holding)]
          BY <2>2, <3>4, <5>1
        <5> QED BY <1>0, <2>1, <3>2, <3>4, <5>1, <5>2
      <4> QED BY <4>1 DEF Upto
    <3> QED BY <3>3, <3>4
  <2> QED BY <2>4, <2>5
<1>2. \A x \in Nat \ {0} : x \in Awaited <=> x \in (LastRead + 1)..LastAnnounced
  <2>1. \A x \in Nat \ {0} : (\E j \in 1..Len(Waiting) : Waiting[j] = x) <=> x \in (LastRead + 1)..LastAnnounced
    BY <1>0 DEF WaitingIsOrdered, Bounded, Complete
  <2> HIDE DEF Awaited
  <2> QED BY <1>1, <2>1
<1>3. Awaited \subseteq Nat
  BY <1>0 DEF Upto
<1>4. Unreplied = Awaited \ ({0} \cup (IF wpc = "account" THEN {cur} ELSE {}))
  BY DEF Unreplied
<1>5. LastAnnounced = (IF wpc = "account" THEN cur ELSE Accounted)
      /\ (wpc = "account" => Accounted = cur - 1) /\ Accounted \in Nat
  <2>1. Accounted \in Nat
    BY ReadIsAccounted DEF ReadInBounds
  <2> QED BY <2>1 DEF LastAnnounced, Accounted
<1> HIDE DEF Awaited
<1>6. ASSUME NEW x PROVE x \in Unreplied <=> x \in (LastRead + 1)..Accounted
  <2>1. CASE x \in Nat \ {0}
    <3>1. x \in Unreplied <=> x \in (LastRead + 1)..LastAnnounced /\ ~ (wpc = "account" /\ x = cur)
      BY <1>2, <1>4, <2>1
    <3> QED BY <1>0, <1>5, <2>1, <3>1
  <2>2. CASE x \notin Nat \ {0}
    <3>1. x \notin Unreplied
      BY <1>3, <1>4, <2>2
    <3>2. x \notin (LastRead + 1)..Accounted
      BY <1>0, <1>5, <2>2
    <3> QED BY <3>1, <3>2
  <2> QED BY <2>1, <2>2
<1> QED BY <1>6

\* More than MaxQuery bytes are unanswered only while a single entry is.
THEOREM QueryBufferIsBounded == Spec => []QueryBufferBounded
<1>1. Inv => QueryBufferBounded
  <2> SUFFICES ASSUME Inv, unanswered > MaxQuery PROVE Cardinality(Unreplied) = 1
    BY DEF QueryBufferBounded
  <2>1. OrderInv /\ Accounted = LastRead + 1
    BY DEF Inv, BytesAreCounted, NeverOver
  <2>2. LastRead \in Nat /\ Unreplied = (LastRead + 1)..(LastRead + 1)
    BY <2>1, ReadIsAccounted, UnrepliedIsInterval DEF ReadInBounds
  <2>3. Unreplied = {LastRead + 1}
    BY <2>2
  <2> QED BY <2>3, FS_Singleton
<1> QED BY <1>1, Invariance, PTL

\* The writer keeps the promise SyncPipeline relies on: every step is a step of the
\* FIFO target or leaves it as it is.
THEOREM WriterImplementsFifoTarget == Spec => ImplementsFifoTarget
<1>1. Init => Abstract!FInit
  BY DEF Init, Abstract!FInit
<1>2. ASSUME Inv, [Next]_vars PROVE [Abstract!FNext]_(Abstract!fvars)
  <2> USE DEF Abstract!fvars, wvars, tvars, rvars
  <2>0. Types /\ ChannelIsSuffix
    BY <1>2 DEF Inv, OrderInv
  <2>1. CASE UNCHANGED vars
    BY <2>1 DEF vars
  <2>2. ASSUME NEW e \in Kinds, Write(e) PROVE Abstract!FNext
    <3>1. Abstract!FWrite(e) /\ e \in Entry
      BY <2>2, KindsAssumption DEF Write, Abstract!FWrite
    <3> QED BY <3>1 DEF Abstract!FNext
  <2>3. CASE Executes
    <3>1. PICK o \in Outcomes : Execute(o)
      BY <2>3 DEF Executes
    <3>2. UNCHANGED <<log, acked, dead>>
      BY <3>1 DEF Execute
    <3>3. CASE Pipe[1].id = 0
      BY <2>0, <2>3, <3>2, <3>3, ExecutesStep
    <3>4. CASE Pipe[1].id # 0
      <4>1. Len(executed') = Len(executed) + 1
        BY <2>0, <2>3, <3>4, ExecutesStep
      <4>2. Pipe # <<>>
        <5>1. Next
          BY <3>1 DEF Next
        <5> QED BY <2>0, <2>3, <5>1, PipeStep DEF Executes, Execute, SendSelect, Send
      <4>3. Len(executed) + 1 <= LastAnnounced
        BY <1>2, <3>4, <4>2, NextExecuted DEF Inv, OrderInv
      <4>4. LastAnnounced <= Len(log) /\ LastAnnounced \in Nat /\ Len(log) \in Nat /\ Len(executed) \in Nat
        BY <2>0, CountTypes, LenProperties DEF LastAnnounced, ChannelIsSuffix, Types
      <4>5. Len(executed) < Len(log)
        BY <4>3, <4>4
      <4>6. Abstract!FExecute
        BY <3>2, <4>1, <4>5 DEF Abstract!FExecute
      <4> QED BY <4>6 DEF Abstract!FNext
    <3> QED BY <3>3, <3>4
  <2>4. CASE Notify
    <3>1. UNCHANGED <<log, executed, dead>> /\ ~ dead /\ Len(acked') = Len(acked) + 1 /\ Len(acked) \in Nat
      <4>1. held \in Nat \ {0} /\ acked \in Seq(Nat \ {0})
        BY <1>2, <2>4 DEF Notify, Inv, OrderInv, WaitingIsOrdered, LastRead, Types
      <4> QED BY <2>4, <4>1, AppendProperties DEF Notify
    <3>2. Len(acked) < Len(executed)
      <4>1. LastRead = Len(acked) + 1 /\ LastRead <= Len(executed) /\ Len(executed) \in Nat
        BY <1>2, <2>4, LenProperties DEF Notify, LastRead, Inv, OrderInv, ExecutedIsPrefix, Types
      <4> QED BY <3>1, <4>1
    <3>3. Abstract!FAnswer
      BY <3>1, <3>2 DEF Abstract!FAnswer
    <3> QED BY <3>3 DEF Abstract!FNext
  <2>5. CASE Receive
    <3>1. UNCHANGED <<log, executed, acked>> /\ ~ dead
      BY <2>5 DEF Receive
    <3>2. CASE Fatal(Head(replies))
      <4>1. dead' = TRUE
        BY <2>5, <3>2 DEF Receive
      <4>2. Abstract!FFail
        BY <3>1, <4>1 DEF Abstract!FFail
      <4> QED BY <4>2 DEF Abstract!FNext
    <3>3. CASE ~ Fatal(Head(replies))
      <4>1. dead' = dead
        BY <2>5, <3>3 DEF Receive
      <4> QED BY <3>1, <4>1
    <3> QED BY <3>2, <3>3
  <2>6. CASE Next /\ ~ (\E e \in Kinds : Write(e)) /\ ~ Executes /\ ~ Notify /\ ~ Receive
    <3>1. UNCHANGED <<log, executed, acked, dead>>
      BY <2>6 DEF Next, Writer, Replier, Closer, Tick, Take, SendSelect, AnnounceSelect, PassWait,
           Announce, AnnounceFull, AnnounceBlocked, Account, Send, ExitWrite, Executes, Await,
           ExitReply, CloseCh, CloseWaitReply, CloseReturn
    <3> QED BY <3>1
  <2> QED BY <1>2, <2>1, <2>2, <2>3, <2>4, <2>5, <2>6
<1> QED BY <1>1, <1>2, Invariance, PTL DEF Spec, ImplementsFifoTarget, Abstract!FSpec
=============================================================================
