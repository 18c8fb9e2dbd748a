-------------------------- MODULE SyncReaderProofs --------------------------
(***************************************************************************)
(* Proofs about SyncReader, for any streams of commands, offsets, options, *)
(* sizes of the payload, the marker, the files and the buffers.            *)
(***************************************************************************)
EXTENDS SyncReader, SequenceTheorems, TLAPS

Kind == {"beat", "full", "size", "eof", "rdb", "mark", "aof", "base"}
Token == Kind \X Nat
Command == [kind : {"data", "select", "ping"}, db : Nat, end : Nat \ {0}]
Message == [phase : {"rdb", "base", "aof", "progress"}, nr : Token, offset : Int, db : Nat]

Types ==
    /\ opts \in Options /\ stream \in Streams
    /\ source \in [step : {"idle", "asked", "saving", "streaming"}, beats : Nat, fed : Nat]
    /\ source.fed \in 0..Len(stream)
    /\ input \in Seq(Token) /\ cancelled \in BOOLEAN /\ dead \in BOOLEAN
    /\ pc \in {"bgsave", "info", "psync", "peek", "waitrdb", "size", "eof", "start", "rdb", "base", "open",
               "aof", "reply", "eof of file", "closed"}
    /\ wpc \in {"none", "open", "top", "read", "stored", "counting", "closed"}
    /\ stat \in [received : Nat, sent : Int] /\ start \in Nat
    /\ rdb \in Seq(Token) /\ tail \in Seq(Token) /\ db \in Nat /\ out \in Seq(Message)
    /\ writer \in [name : Nat, offset : Nat, size : Nat, n : Nat]
    /\ files \in [DOMAIN files -> Seq(Nat)] /\ DOMAIN files \subseteq Nat
    /\ reader \in [name : Nat, pos : Nat, offset : Nat, buf : Seq(Nat)]
    /\ acked \in Nat

(***************************************************************************)
(* The inductive invariant.  First the goroutines: what is open when.      *)
(***************************************************************************)
Waiting == pc \in {"bgsave", "info", "psync", "peek", "waitrdb"}
Receiving == pc \in {"size", "eof"}
Sending == pc \in {"rdb", "base", "open"}
Opened == DOMAIN files # {}

Stages ==
    /\ pc \in {"bgsave", "info"} => source.step = "idle" /\ input = <<>>
    /\ Waiting => rdb = <<>> /\ tail = <<>>
    /\ Waiting \/ Receiving \/ pc = "start" => wpc = "none"
    /\ Sending \/ Following => wpc # "none"
    /\ wpc = "none" => acked = 0 /\ ~ Opened
    /\ opts.eof /\ acked = 0 => source.fed = 0
    /\ wpc \in {"top", "read", "stored", "counting"} => Opened
    /\ wpc = "open" => ~ Opened
    /\ ~ Following /\ pc # "closed" => reader = [name |-> 0, pos |-> 0, offset |-> 0, buf |-> <<>>]
    /\ ~ Opened => ~ Following /\ reader.name = 0 /\ reader.pos = 0
                   /\ writer = [name |-> 0, offset |-> 0, size |-> 0, n |-> 0]

(***************************************************************************)
(* What the source sends behind the header, and how much of it was taken.  *)
(***************************************************************************)
EndOfPayload(eof) == IF eof THEN PayloadLen + MarkerLen ELSE PayloadLen
PayloadEnd == EndOfPayload(opts.eof)
Flow(eof, k) == IF k <= PayloadLen THEN <<"rdb", k>>
                ELSE IF k <= EndOfPayload(eof) THEN <<"mark", k - PayloadLen>>
                ELSE <<"aof", k - EndOfPayload(eof)>>

Stored == IF Opened THEN writer.offset - start ELSE 0
Taken == IF pc = "size" THEN Len(rdb)
         ELSE IF pc = "eof" THEN Len(rdb) + Len(tail)
         ELSE PayloadEnd + Stored

Preamble(h) == \A i \in 1..Len(input) : i < h => input[i][1] \in {"beat", "full"}
HeaderAt(h) ==
    /\ Preamble(h) /\ input[h] = <<IF opts.eof THEN "eof" ELSE "size", 0>>
    /\ Len(input) = h + PayloadEnd + Ends[source.fed]
    /\ \A i \in 1..(Len(input) - h) : input[h + i] = Flow(opts.eof, i)

InputWaits ==
    Waiting => IF source.step = "streaming" THEN \E h \in 1..Len(input) : HeaderAt(h)
               ELSE source.fed = 0 /\ \A i \in 1..Len(input) : input[i][1] \in {"beat", "full"}
InputIsFlow ==
    Receiving \/ pc = "start" \/ wpc # "none" =>
        /\ source.step = "streaming"
        /\ Len(input) = PayloadEnd + Ends[source.fed] - Taken
        /\ \A i \in 1..Len(input) : input[i] = Flow(opts.eof, Taken + i)

\* The RDB file is a prefix of the payload, and what sendRDB has left of it a suffix.
PayloadIsKept ==
    /\ pc = "size" => ~ opts.eof /\ Len(rdb) < PayloadLen
    /\ pc = "eof" => opts.eof /\ \A i \in 1..Len(tail) : tail[i] = Flow(opts.eof, Len(rdb) + i)
    /\ Receiving \/ pc = "start" => \A i \in 1..Len(rdb) : rdb[i] = Flow(opts.eof, i)
    /\ pc = "start" => Len(rdb) = PayloadLen
    /\ pc = "rdb" => /\ Len(rdb) <= PayloadLen
                     /\ \A i \in 1..Len(rdb) : rdb[i] = <<"rdb", PayloadLen - Len(rdb) + i>>

InputInv == InputWaits /\ InputIsFlow /\ PayloadIsKept

(***************************************************************************)
(* The files: a file is named by the offset of its first byte, but for the *)
(* first one; together they hold what was stored and not yet left behind.  *)
(***************************************************************************)
First(s, f) == IF f = 0 THEN 0 ELSE f - s
Past(f) == First(start, f) + Len(files[f])

FileNames ==
    /\ writer.name \in DOMAIN files /\ reader.name \in DOMAIN files
    /\ \A f \in DOMAIN files : (f = 0 \/ f > start) /\ reader.name <= f /\ f <= writer.name
FileBytes == \A f \in DOMAIN files : \A i \in 1..Len(files[f]) : files[f][i] = First(start, f) + i
FileOrder == \A f, g \in DOMAIN files : f < g => Past(f) <= First(start, g)
FileEnds ==
    /\ First(start, writer.name) + Len(files[writer.name]) = writer.offset - start /\ writer.size = Len(files[writer.name])
    /\ reader.pos <= Len(files[reader.name])
FilesCover ==
    \A k \in (First(start, reader.name) + 1)..(writer.offset - start) :
        \E f \in DOMAIN files : First(start, f) < k /\ k <= Past(f)
FilesInv == Opened => FileNames /\ FileBytes /\ FileOrder /\ FileEnds /\ FilesCover

\* Counted bytes are stored, and acknowledged ones are counted.
Uncounted == IF wpc \in {"stored", "counting"} THEN writer.n ELSE 0
CountInv ==
    /\ wpc # "none" => stat.received = start + Stored - Uncounted
    /\ acked <= start + Stored
    /\ wpc # "none" => acked <= stat.received

\* The parser holds the last bytes that were read, from the beginning of a command on.
ReaderInv ==
    Following => /\ reader.offset = start + First(start, reader.name) + reader.pos
                 /\ Len(reader.buf) <= Read
                 /\ \A i \in 1..Len(reader.buf) : reader.buf[i] = Read - Len(reader.buf) + i
                 /\ \E i \in 0..Len(stream) : Read - Len(reader.buf) = Ends[i]

(***************************************************************************)
(* What the consumer got.                                                  *)
(***************************************************************************)
Selected(i) == db = DbOf(i)

OutIsDue ==
    \A j \in 1..Len(out) :
        /\ \E r \in Ranks : Wanted(r) /\ out[j] = Due(r) /\ Rank(out[j]) = r
        /\ \A i \in 1..(j - 1) : Rank(out[i]) < Rank(out[j])

\* A progress entry that was given up is the last thing before the end.
GivenUp(q, r) == cancelled /\ (q <= Base \/ (q = r /\ pc \in {"aof", "closed"}))
OutUpTo(r) ==
    /\ \A j \in 1..Len(out) : Rank(out[j]) <= r
    /\ \A q \in 1..r : Wanted(q) => GivenUp(q, r) \/ \E j \in 1..Len(out) : out[j] = Due(q)
AtRank(r) ==
    /\ Waiting \/ Receiving \/ pc = "start" => r = 0 /\ db = 0
    /\ pc = "rdb" => opts.syncRdb /\ r = PayloadLen - Len(rdb)
    /\ pc = "base" => r = PayloadLen
    /\ pc = "open" => r = Base
    /\ pc \in {"base", "open"} => Selected(0)
    /\ Following => /\ r >= Base /\ Selected(r - Base)
                    /\ Read - Len(reader.buf) = Ends[r - Base]
OutInv == OutIsDue /\ \E r \in 0..(Base + Len(stream)) : OutUpTo(r) /\ AtRank(r)

Inv == Types /\ Stages /\ InputInv /\ FilesInv /\ CountInv /\ ReaderInv /\ OutInv
-----------------------------------------------------------------------------
(***************************************************************************)
(* Sequences, and the commands of the stream.                              *)
(***************************************************************************)
\* What is appended to a file or a buffer comes behind what it held.
LEMMA Joined ==
    ASSUME NEW X, NEW s \in Seq(X), NEW t \in Seq(X)
    PROVE  /\ s \o t \in Seq(X) /\ Len(s) \in Nat /\ Len(t) \in Nat /\ Len(s \o t) = Len(s) + Len(t)
           /\ \A i \in 1..Len(s) : (s \o t)[i] = s[i]
           /\ \A i \in 1..Len(t) : (s \o t)[Len(s) + i] = t[i]
BY ConcatProperties, LenProperties

\* What a read leaves on the connection or in the buffer.
LEMMA Dropped ==
    ASSUME NEW X, NEW s \in Seq(X), NEW n \in 0..Len(s)
    PROVE  LET rest == SubSeq(s, n + 1, Len(s))
           IN  /\ rest \in Seq(X) /\ Len(rest) = Len(s) - n /\ Len(s) \in Nat
               /\ \A i \in 1..Len(rest) : rest[i] = s[n + i]
<1>1. Len(s) \in Nat /\ \A i \in 1..Len(s) : s[i] \in X
  BY LenProperties, ElementOfSeq
<1>2. \A i \in (n + 1)..Len(s) : s[i] \in X
  BY <1>1
<1>3. /\ SubSeq(s, n + 1, Len(s)) \in Seq(X)
      /\ Len(SubSeq(s, n + 1, Len(s))) = IF n + 1 <= Len(s) THEN Len(s) - (n + 1) + 1 ELSE 0
      /\ \A i \in 1..(Len(s) - (n + 1) + 1) : SubSeq(s, n + 1, Len(s))[i] = s[n + 1 + i - 1]
  BY <1>1, <1>2, SubSeqProperties
<1>4. Len(SubSeq(s, n + 1, Len(s))) = Len(s) - n
  BY <1>1, <1>3
<1>5. \A i \in 1..(Len(s) - n) : SubSeq(s, n + 1, Len(s))[i] = s[n + i]
  BY <1>1, <1>3
<1> QED BY <1>1, <1>3, <1>4, <1>5

\* What a read returns.
LEMMA Taking ==
    ASSUME NEW X, NEW s \in Seq(X), NEW n \in 0..Len(s)
    PROVE  /\ SubSeq(s, 1, n) \in Seq(X) /\ Len(SubSeq(s, 1, n)) = n
           /\ \A i \in 1..n : SubSeq(s, 1, n)[i] = s[i]
<1>1. Len(s) \in Nat /\ \A i \in 1..Len(s) : s[i] \in X
  BY LenProperties, ElementOfSeq
<1>2. \A i \in 1..n : s[i] \in X
  BY <1>1
<1>3. /\ SubSeq(s, 1, n) \in Seq(X)
      /\ Len(SubSeq(s, 1, n)) = IF 1 <= n THEN n - 1 + 1 ELSE 0
      /\ \A i \in 1..(n - 1 + 1) : SubSeq(s, 1, n)[i] = s[1 + i - 1]
  BY <1>1, <1>2, SubSeqProperties
<1> QED BY <1>1, <1>3

\* A line taken from the connection, an entry from the RDB file.
LEMMA Shortened ==
    ASSUME NEW X, NEW s \in Seq(X), s # <<>>
    PROVE  /\ Head(s) \in X /\ Head(s) = s[1] /\ Tail(s) \in Seq(X) /\ Len(s) \in Nat \ {0}
           /\ Len(Tail(s)) = Len(s) - 1
           /\ \A i \in 1..Len(Tail(s)) : Tail(s)[i] = s[1 + i]
BY HeadTailProperties, EmptySeq

\* The bytes the source puts on the connection.
LEMMA TokensFacts ==
    ASSUME NEW kind \in Kind, NEW n \in Nat
    PROVE  /\ Tokens(kind, n) \in Seq(Token) /\ Len(Tokens(kind, n)) = n
           /\ \A i \in 1..n : Tokens(kind, n)[i] = <<kind, i>>
<1>1. \A i \in 1..n : <<kind, i>> \in Token
  BY DEF Token
<1>2. Tokens(kind, n) \in Seq(Token)
  BY <1>1, IsASeq DEF Tokens
<1> QED BY <1>2 DEF Tokens

\* A line of the handshake.
LEMMA LineFacts ==
    ASSUME NEW kind \in Kind
    PROVE  /\ Line(kind) \in Seq(Token) /\ Len(Line(kind)) = 1 /\ Line(kind)[1] = <<kind, 0>>
BY DEF Line, Token

\* Commands lie one behind the other in the stream, and none is empty.
LEMMA EndsFacts ==
    ASSUME Types
    PROVE  /\ Len(stream) \in Nat \ {0} /\ Ends[0] = 0 /\ stream \in Seq(Command)
           /\ \A i \in 0..Len(stream) : Ends[i] \in Nat
           /\ \A i, j \in 0..Len(stream) : i < j => Ends[i] < Ends[j]
           /\ StreamLen = Ends[Len(stream)]
           /\ \A i \in 1..Len(stream) : Size(i) = Ends[i] - Ends[i - 1] /\ Size(i) \in Nat \ {0}
<1>1. /\ stream \in Seq(Command) /\ stream # <<>>
      /\ \A i, j \in 1..Len(stream) : i < j => stream[i].end < stream[j].end
  BY StreamsAssumption DEF Types, Command
<1>2. Len(stream) \in Nat \ {0} /\ \A i \in 1..Len(stream) : stream[i].end \in Nat \ {0}
  <2>1. Len(stream) \in Nat \ {0}
    BY <1>1, EmptySeq
  <2>2. ASSUME NEW i \in 1..Len(stream) PROVE stream[i].end \in Nat \ {0}
    <3>1. stream[i] \in Command
      BY <1>1, ElementOfSeq
    <3> QED BY <3>1 DEF Command
  <2> QED BY <2>1, <2>2
<1>3. Ends[0] = 0 /\ \A i \in 1..Len(stream) : Ends[i] = stream[i].end
  BY <1>2 DEF Ends
<1>4. \A i \in 0..Len(stream) : Ends[i] \in Nat
  BY <1>2, <1>3
<1>5. ASSUME NEW i \in 0..Len(stream), NEW j \in 0..Len(stream), i < j PROVE Ends[i] < Ends[j]
  <2>1. CASE i = 0
    BY <1>2, <1>3, <1>5, <2>1
  <2>2. CASE i # 0
    BY <1>1, <1>2, <1>3, <1>5, <2>2
  <2> QED BY <2>1, <2>2
<1>6. ASSUME NEW i \in 1..Len(stream) PROVE Size(i) = Ends[i] - Ends[i - 1] /\ Size(i) \in Nat \ {0}
  <2>1. i - 1 \in 0..Len(stream) /\ i \in 0..Len(stream) /\ i - 1 < i
    BY <1>2
  <2>2. Ends[i - 1] < Ends[i] /\ Ends[i] \in Nat /\ Ends[i - 1] \in Nat
    BY <2>1, <1>4, <1>5
  <2> QED BY <2>2 DEF Size
<1> QED BY <1>1, <1>2, <1>3, <1>4, <1>5, <1>6 DEF StreamLen

\* The command that begins behind the end of another one.
LEMMA CommandFacts ==
    ASSUME Types, NEW i \in 1..Len(stream)
    PROVE  CommandAt(Ends[i - 1] + 1) = i
<1>1. /\ Len(stream) \in Nat /\ \A j \in 0..Len(stream) : Ends[j] \in Nat
      /\ \A j, k \in 0..Len(stream) : j < k => Ends[j] < Ends[k]
  BY EndsFacts
<1> DEFINE k == Ends[i - 1] + 1
<1>2. i - 1 \in 0..Len(stream) /\ i \in 0..Len(stream)
  BY <1>1
<1>3. Ends[i - 1] < k /\ k <= Ends[i]
  BY <1>1, <1>2
<1>4. ASSUME NEW j \in 1..Len(stream), Ends[j - 1] < k, k <= Ends[j] PROVE j = i
  <2>1. j - 1 \in 0..Len(stream) /\ j \in 0..Len(stream)
    BY <1>1
  <2>2. ~ (j < i)
    <3>1. ASSUME j < i PROVE FALSE
      <4>1. j = i - 1 \/ j < i - 1
        BY <3>1
      <4>2. Ends[j] <= Ends[i - 1]
        BY <4>1, <1>1, <1>2, <2>1
      <4> QED BY <4>2, <1>4, <1>1, <1>2, <2>1
    <3> QED BY <3>1
  <2>3. ~ (i < j)
    <3>1. ASSUME i < j PROVE FALSE
      <4>1. i = j - 1 \/ i < j - 1
        BY <3>1
      <4>2. Ends[i] <= Ends[j - 1]
        BY <4>1, <1>1, <1>2, <2>1
      <4> QED BY <4>2, <1>3, <1>4, <1>1, <1>2, <2>1
    <3> QED BY <3>1
  <2> QED BY <2>2, <2>3
<1> QED BY <1>3, <1>4 DEF CommandAt

\* No step changes the options or the stream.
LEMMA ConfigStep == ASSUME [Next]_vars PROVE opts' = opts /\ stream' = stream /\ Ends' = Ends
<1>1. opts' = opts /\ stream' = stream
  BY DEF Next, vars, config, Source, Heartbeat, FullResync, SourcePayload, SourceCommand, SourceKeeps,
         Handshake, CheckContext, BgsaveInProgress, SendPSync, SkipBeat, ReadFullResync, MeetPayload,
         ReadHeader, Receive, ReceiveSized, ReceiveUntilMarker, HandshakeKeeps, Send, StartSending,
         SendRdbEntry, EndRdb, SendBase, OpenReader, NextCommand, SendCommand, SendKeeps,
         Follow, ReadFile, MeetEof, ReadCancelled, readNextFile, FileKeeps, Keep, OpenWriter, StoreOrStop,
         Store, Rotate, CountReceived, StoreKeeps, OpenTimeout, SendAck, AckKeeps, Cancel, Panic
<1> QED BY <1>1 DEF Ends

\* The fields of the records.
LEMMA Fields ==
    ASSUME Types
    PROVE  /\ source.fed \in 0..Len(stream) /\ start \in Nat /\ acked \in Nat /\ db \in Nat
           /\ stat.received \in Nat /\ stat.sent \in Int
           /\ writer.name \in Nat /\ writer.offset \in Nat /\ writer.size \in Nat /\ writer.n \in Nat
           /\ reader.name \in Nat /\ reader.pos \in Nat /\ reader.offset \in Nat /\ reader.buf \in Seq(Nat)
           /\ \A f \in DOMAIN files : f \in Nat /\ files[f] \in Seq(Nat) /\ Len(files[f]) \in Nat
           /\ Len(reader.buf) \in Nat /\ Len(input) \in Nat /\ Len(rdb) \in Nat /\ Len(tail) \in Nat
           /\ Len(out) \in Nat /\ PayloadEnd \in Nat /\ PayloadEnd >= PayloadLen /\ PayloadLen \in Nat \ {0}
           /\ MarkerLen \in Nat \ {0} /\ ReadSize \in Nat \ {0} /\ MaxFileSize \in Nat \ {0}
<1>1. /\ source.fed \in 0..Len(stream) /\ start \in Nat /\ acked \in Nat /\ db \in Nat
      /\ stat \in [received : Nat, sent : Int] /\ writer \in [name : Nat, offset : Nat, size : Nat, n : Nat]
      /\ reader \in [name : Nat, pos : Nat, offset : Nat, buf : Seq(Nat)]
      /\ files \in [DOMAIN files -> Seq(Nat)] /\ DOMAIN files \subseteq Nat
      /\ input \in Seq(Token) /\ rdb \in Seq(Token) /\ tail \in Seq(Token) /\ out \in Seq(Message)
  BY DEF Types
<1>2. /\ reader.buf \in Seq(Nat) /\ \A f \in DOMAIN files : f \in Nat /\ files[f] \in Seq(Nat)
  BY <1>1
<1>3. /\ Len(reader.buf) \in Nat /\ Len(input) \in Nat /\ Len(rdb) \in Nat /\ Len(tail) \in Nat
      /\ Len(out) \in Nat /\ \A f \in DOMAIN files : Len(files[f]) \in Nat
  BY <1>1, <1>2, LenProperties
<1>4. PayloadEnd \in Nat /\ PayloadEnd >= PayloadLen /\ PayloadLen \in Nat \ {0}
      /\ MarkerLen \in Nat \ {0} /\ ReadSize \in Nat \ {0} /\ MaxFileSize \in Nat \ {0}
  BY SizesAssumption DEF PayloadEnd, EndOfPayload
<1> QED BY <1>1, <1>2, <1>3, <1>4

\* The records and sequences as a whole.
LEMMA Records ==
    ASSUME Types
    PROVE  /\ source \in [step : {"idle", "asked", "saving", "streaming"}, beats : Nat, fed : Nat]
           /\ stat \in [received : Nat, sent : Int]
           /\ writer \in [name : Nat, offset : Nat, size : Nat, n : Nat]
           /\ reader \in [name : Nat, pos : Nat, offset : Nat, buf : Seq(Nat)]
           /\ input \in Seq(Token) /\ rdb \in Seq(Token) /\ tail \in Seq(Token) /\ out \in Seq(Message)
           /\ files \in [DOMAIN files -> Seq(Nat)] /\ DOMAIN files \subseteq Nat
BY DEF Types

-----------------------------------------------------------------------------
(***************************************************************************)
(* The goroutines.                                                         *)
(***************************************************************************)
\* The goroutines open and close things in the order of the stages.
LEMMA StagesStep == ASSUME Types, Stages, [Next]_vars PROVE Stages'
<1> USE DEF Types, Stages, Waiting, Receiving, Sending, Following, Opened, config, main, storing
<1>1. ASSUME Heartbeat PROVE Stages'
  BY <1>1 DEF Heartbeat, SourceKeeps
<1>2. ASSUME NEW b \in Bases, FullResync(b) PROVE Stages'
  BY <1>2 DEF FullResync, SourceKeeps
<1>3. ASSUME SourcePayload PROVE Stages'
  BY <1>3 DEF SourcePayload, SourceKeeps
<1>4. ASSUME SourceCommand PROVE Stages'
  BY <1>4 DEF SourceCommand, SourceKeeps
<1>5. ASSUME CheckContext PROVE Stages'
  BY <1>5 DEF CheckContext, HandshakeKeeps
<1>6. ASSUME BgsaveInProgress PROVE Stages'
  BY <1>6 DEF BgsaveInProgress, HandshakeKeeps
<1>7. ASSUME SendPSync PROVE Stages'
  BY <1>7 DEF SendPSync, HandshakeKeeps
<1>8. ASSUME SkipBeat PROVE Stages'
  BY <1>8 DEF SkipBeat, HandshakeKeeps
<1>9. ASSUME ReadFullResync PROVE Stages'
  BY <1>9 DEF ReadFullResync, HandshakeKeeps
<1>10. ASSUME MeetPayload PROVE Stages'
  BY <1>10 DEF MeetPayload, HandshakeKeeps
<1>11. ASSUME ReadHeader PROVE Stages'
  BY <1>11 DEF ReadHeader, HandshakeKeeps
<1>12. ASSUME NEW n \in 1..ReadSize, ReceiveSized(n) PROVE Stages'
  BY <1>12 DEF ReceiveSized, HandshakeKeeps
<1>13. ASSUME NEW n \in 1..ReadSize, ReceiveUntilMarker(n) PROVE Stages'
  BY <1>13 DEF ReceiveUntilMarker, HandshakeKeeps
<1>14. ASSUME StartSending PROVE Stages'
  BY <1>14 DEF StartSending, SendKeeps
<1>15. ASSUME SendRdbEntry PROVE Stages'
  BY <1>15 DEF SendRdbEntry, SendKeeps
<1>16. ASSUME EndRdb PROVE Stages'
  BY <1>16 DEF EndRdb, SendKeeps
<1>17. ASSUME SendBase PROVE Stages'
  BY <1>17 DEF SendBase, sendProgress, SendKeeps
<1>18. ASSUME OpenReader PROVE Stages'
  BY <1>18 DEF OpenReader, SendKeeps
<1>19. ASSUME NextCommand PROVE Stages'
  BY <1>19 DEF NextCommand, SendKeeps
<1>20. ASSUME SendCommand PROVE Stages'
  BY <1>20 DEF SendCommand, sendProgress, SendKeeps
<1>21. ASSUME ReadFile PROVE Stages'
  BY <1>21 DEF ReadFile, FileKeeps
<1>22. ASSUME MeetEof PROVE Stages'
  BY <1>22 DEF MeetEof, FileKeeps
<1>23. ASSUME ReadCancelled PROVE Stages'
  BY <1>23 DEF ReadCancelled, FileKeeps
<1>24. ASSUME readNextFile PROVE Stages'
  <2>1. Opened' /\ (reader' # reader => Opened)
    <3>1. CASE HasNext
      <4>1. reader.offset \in DOMAIN files /\ reader.offset # reader.name
        BY <3>1 DEF HasNext
      <4>2. DOMAIN files' = DOMAIN files \ {reader.name}
        BY <1>24, <3>1 DEF readNextFile, SwitchTo
      <4> QED BY <4>1, <4>2
    <3>2. CASE ~ HasNext
      BY <1>24, <3>2 DEF readNextFile
    <3> QED BY <3>1, <3>2
  <2> QED BY <1>24, <2>1 DEF readNextFile, SwitchTo, FileKeeps
<1>25. ASSUME OpenWriter PROVE Stages'
  BY <1>25 DEF OpenWriter, Created, StoreKeeps
<1>26. ASSUME StoreOrStop PROVE Stages'
  BY <1>26 DEF StoreOrStop, StoreKeeps
<1>27. ASSUME NEW n \in 1..ReadSize, Store(n) PROVE Stages'
  BY <1>27 DEF Store, StoreKeeps
<1>28. ASSUME Rotate PROVE Stages'
  BY <1>28 DEF Rotate, Created, StoreKeeps
<1>29. ASSUME CountReceived PROVE Stages'
  BY <1>29 DEF CountReceived, StoreKeeps
<1>30. ASSUME OpenTimeout PROVE Stages'
  BY <1>30 DEF OpenTimeout
<1>31. ASSUME SendAck PROVE Stages'
  BY <1>31 DEF SendAck, AckKeeps
<1>32. ASSUME Cancel PROVE Stages'
  BY <1>32 DEF Cancel
<1>33. ASSUME Panic PROVE Stages'
  BY <1>33 DEF Panic
<1>34. CASE UNCHANGED vars
  BY <1>34 DEF vars
<1> HIDE DEF Types, Stages
<1> QED
  BY <1>1, <1>2, <1>3, <1>4, <1>5, <1>6, <1>7, <1>8, <1>9, <1>10, <1>11, <1>12, <1>13, <1>14, <1>15, <1>16, <1>17, <1>18, <1>19, <1>20, <1>21, <1>22, <1>23, <1>24, <1>25, <1>26, <1>27, <1>28, <1>29, <1>30, <1>31, <1>32, <1>33, <1>34
     DEF Next, Source, Handshake, Receive, Send, Follow, Keep

-----------------------------------------------------------------------------
(***************************************************************************)
(* Where the reader is.                                                    *)
(***************************************************************************)
\* Nothing is read that was not stored, and nothing is stored that was not sent.
LEMMA ReadBound ==
    ASSUME Types, Stages, InputIsFlow, FilesInv, ReaderInv, Following
    PROVE  /\ Opened /\ Read = First(start, reader.name) + reader.pos /\ First(start, reader.name) \in Nat /\ Read \in Nat
           /\ reader.name \in DOMAIN files /\ files[reader.name] \in Seq(Nat)
           /\ Len(files[reader.name]) \in Nat /\ reader.pos <= Len(files[reader.name])
           /\ Read <= writer.offset - start /\ writer.offset - start <= Ends[source.fed]
           /\ Ends[source.fed] <= StreamLen /\ Ends[source.fed] \in Nat
<1>1. Opened /\ wpc # "none" /\ pc \notin {"size", "eof"}
  BY DEF Stages, Following
<1>2. FileNames /\ FileOrder /\ FileEnds
  BY <1>1 DEF FilesInv
<1>3. /\ start \in Nat /\ reader.name \in Nat /\ reader.pos \in Nat /\ writer.name \in Nat /\ writer.offset \in Nat
      /\ reader.name \in DOMAIN files /\ writer.name \in DOMAIN files
      /\ \A f \in DOMAIN files : f \in Nat /\ files[f] \in Seq(Nat)
  BY <1>2 DEF Types, FileNames
<1>4. \A f \in DOMAIN files : Len(files[f]) \in Nat /\ First(start, f) \in Nat /\ Past(f) = First(start, f) + Len(files[f])
  BY <1>2, <1>3, LenProperties DEF First, Past, FileNames
<1>5. Read = First(start, reader.name) + reader.pos
  <2> DEFINE first == First(start, reader.name)
  <2>1. first \in Nat /\ start \in Nat /\ reader.pos \in Nat /\ reader.offset = start + first + reader.pos
    BY <1>3, <1>4 DEF ReaderInv
  <2>2. Read = reader.offset - start
    BY DEF Read
  <2> HIDE DEF first
  <2>3. Read = first + reader.pos
    BY <2>1, <2>2
  <2> QED BY <2>3 DEF first
<1>6. reader.pos <= Len(files[reader.name]) /\ First(start, writer.name) + Len(files[writer.name]) = writer.offset - start
  BY <1>2 DEF FileEnds
<1>7. Read <= writer.offset - start
  <2>1. CASE reader.name = writer.name
    BY <2>1, <1>3, <1>4, <1>5, <1>6
  <2>2. CASE reader.name # writer.name
    <3>1. reader.name < writer.name
      BY <2>2, <1>2, <1>3 DEF FileNames
    <3>2. Past(reader.name) <= First(start, writer.name)
      BY <3>1, <1>2, <1>3 DEF FileOrder
    <3> QED BY <3>2, <1>3, <1>4, <1>5, <1>6
  <2> QED BY <2>1, <2>2
<1>8. writer.offset - start <= Ends[source.fed] /\ Ends[source.fed] \in Nat
  <2>1. Ends[source.fed] \in Nat /\ Len(input) \in Nat
    BY EndsFacts, LenProperties DEF Types
  <2>2. Len(input) = PayloadEnd + Ends[source.fed] - Taken /\ Taken = PayloadEnd + (writer.offset - start)
    BY <1>1 DEF InputIsFlow, Taken, Stored
  <2>3. PayloadEnd \in Nat
    BY SizesAssumption DEF PayloadEnd, EndOfPayload
  <2> DEFINE l == Len(input)
             e == Ends[source.fed]
             p == PayloadEnd
             w == writer.offset - start
  <2>4. l \in Nat /\ e \in Nat /\ p \in Nat /\ w \in Int /\ l = p + e - (p + w)
    BY <2>1, <2>2, <2>3, <1>3
  <2> HIDE DEF l, e, p, w
  <2>5. w <= e
    BY <2>4
  <2> QED BY <2>1, <2>5 DEF w, e
<1>9. Ends[source.fed] <= StreamLen
  <2>1. /\ source.fed \in 0..Len(stream) /\ Len(stream) \in Nat /\ StreamLen = Ends[Len(stream)]
        /\ (source.fed < Len(stream) => Ends[source.fed] < Ends[Len(stream)]) /\ Ends[Len(stream)] \in Nat
    <3>1. source.fed \in 0..Len(stream)
      BY DEF Types
    <3>2. /\ Len(stream) \in Nat /\ StreamLen = Ends[Len(stream)]
          /\ \A i \in 0..Len(stream) : Ends[i] \in Nat
          /\ \A i, j \in 0..Len(stream) : i < j => Ends[i] < Ends[j]
      BY EndsFacts
    <3>3. Len(stream) \in 0..Len(stream)
      BY <3>2
    <3> QED BY <3>1, <3>2, <3>3
  <2>2. source.fed = Len(stream) \/ source.fed < Len(stream)
    BY <2>1
  <2> QED BY <2>1, <2>2, <1>8
<1>10. /\ First(start, reader.name) \in Nat /\ Len(files[reader.name]) \in Nat
       /\ files[reader.name] \in Seq(Nat) /\ reader.pos \in Nat /\ reader.name \in DOMAIN files
  BY <1>3, <1>4
<1>11. Read \in Nat
  BY <1>5, <1>10
<1> QED BY <1>1, <1>5, <1>6, <1>7, <1>8, <1>9, <1>10, <1>11

\* The parser is at the beginning of a command.
LEMMA CommandHere ==
    ASSUME Types, Stages, InputIsFlow, FilesInv, ReaderInv, Following, reader.buf # <<>>
    PROVE  \E i \in 1..Len(stream) : /\ Read - Len(reader.buf) = Ends[i - 1]
                                     /\ CommandAt(Head(reader.buf)) = i
<1>1. PICK k \in 0..Len(stream) : Read - Len(reader.buf) = Ends[k]
  BY DEF ReaderInv
<1>2. /\ reader.buf \in Seq(Nat) /\ Len(reader.buf) \in Nat \ {0} /\ Head(reader.buf) = reader.buf[1]
  BY Shortened DEF Types
<1>3. Read \in Nat /\ Read <= StreamLen /\ StreamLen \in Nat
  <2>1. StreamLen \in Nat
    <3>1. Len(stream) \in Nat /\ StreamLen = Ends[Len(stream)] /\ \A i \in 0..Len(stream) : Ends[i] \in Nat
      BY EndsFacts
    <3> QED BY <3>1
  <2>2. /\ Read \in Nat /\ Read <= writer.offset - start /\ writer.offset - start <= Ends[source.fed]
        /\ Ends[source.fed] <= StreamLen /\ Ends[source.fed] \in Nat
    BY ReadBound
  <2>3. writer.offset \in Nat /\ start \in Nat
    BY Fields
  <2> QED BY <2>1, <2>2, <2>3
<1>4. Ends[k] \in Nat /\ StreamLen = Ends[Len(stream)] /\ Len(stream) \in Nat
  BY EndsFacts
<1>5. reader.buf[1] = Ends[k] + 1
  <2>1. 1 \in 1..Len(reader.buf)
    BY <1>2
  <2>2. reader.buf[1] = Read - Len(reader.buf) + 1
    BY <2>1 DEF ReaderInv
  <2> QED BY <1>1, <2>2
<1>6. k # Len(stream)
  BY <1>1, <1>2, <1>3, <1>4
<1>7. k + 1 \in 1..Len(stream) /\ (k + 1) - 1 = k
  BY <1>4, <1>6
<1>8. CommandAt(Ends[(k + 1) - 1] + 1) = k + 1
  BY <1>7, CommandFacts
<1> QED BY <1>1, <1>2, <1>5, <1>7, <1>8

-----------------------------------------------------------------------------
\* Every step keeps the types; a parsed command is one of the stream.
LEMMA TypesStep ==
    ASSUME Types, Stages, InputIsFlow, FilesInv, ReaderInv, [Next]_vars PROVE Types'
<1> USE DEF config, main, storing
<1>1. ASSUME Heartbeat PROVE Types'
  <2>1. input' \in Seq(Token)
    BY <1>1, LineFacts, ConcatProperties DEF Heartbeat, Kind, Types
  <2>2. source' \in [step : {"idle", "asked", "saving", "streaming"}, beats : Nat, fed : Nat] /\ source'.fed = source.fed
    <3>1. source' = [source EXCEPT !.beats = source.beats + 1]
      BY <1>1 DEF Heartbeat
    <3>2. source.beats + 1 \in Nat
      BY Records
    <3> QED BY <3>1, <3>2, Records
  <2> QED BY <1>1, <2>1, <2>2 DEF Heartbeat, SourceKeeps, Types
<1>2. ASSUME NEW b \in Bases, FullResync(b) PROVE Types'
  <2>1. <<"full", b>> \in Token
    BY BasesAssumption DEF Token, Kind
  <2>2. input' \in Seq(Token)
    BY <1>2, <2>1, AppendProperties DEF FullResync, Types
  <2> QED BY <1>2, <2>2 DEF FullResync, SourceKeeps, Types
<1>3. ASSUME SourcePayload PROVE Types'
  <2>1. /\ Tokens("rdb", PayloadLen) \in Seq(Token) /\ Tokens("mark", MarkerLen) \in Seq(Token)
        /\ Line("eof") \in Seq(Token) /\ Line("size") \in Seq(Token)
    BY TokensFacts, LineFacts, SizesAssumption DEF Kind
  <2>2. input' \in Seq(Token)
    <3>1. /\ input \o Line("eof") \in Seq(Token) /\ input \o Line("size") \in Seq(Token)
          /\ (input \o Line("eof")) \o Tokens("rdb", PayloadLen) \in Seq(Token)
          /\ (input \o Line("size")) \o Tokens("rdb", PayloadLen) \in Seq(Token)
      BY <2>1, Records, ConcatProperties
    <3>2. ((input \o Line("eof")) \o Tokens("rdb", PayloadLen)) \o Tokens("mark", MarkerLen) \in Seq(Token)
      BY <2>1, <3>1, ConcatProperties
    <3> QED BY <1>3, <3>1, <3>2 DEF SourcePayload
  <2> QED BY <1>3, <2>2 DEF SourcePayload, SourceKeeps, Types
<1>4. ASSUME SourceCommand PROVE Types'
  <2>1. source.fed + 1 \in 1..Len(stream) /\ source.fed \in 0..Len(stream)
    <3>1. source.fed \in 0..Len(stream) /\ Len(stream) \in Nat
      BY Fields, EndsFacts
    <3>2. source.fed < Len(stream)
      BY <1>4 DEF SourceCommand
    <3> QED BY <3>1, <3>2
  <2>2. Size(source.fed + 1) \in Nat /\ Ends[source.fed] \in Nat
    BY <2>1, EndsFacts
  <2> DEFINE new == [i \in 1..Size(source.fed + 1) |-> <<"aof", Ends[source.fed] + i>>]
  <2>3. \A i \in 1..Size(source.fed + 1) : <<"aof", Ends[source.fed] + i>> \in Token
    BY <2>2 DEF Token, Kind
  <2>4. new \in Seq(Token)
    BY <2>2, <2>3, IsASeq
  <2>5. input' = input \o new
    BY <1>4 DEF SourceCommand
  <2> HIDE DEF new
  <2>6. input' \in Seq(Token)
    BY <2>4, <2>5, ConcatProperties DEF Types
  <2>7. source' \in [step : {"idle", "asked", "saving", "streaming"}, beats : Nat, fed : Nat] /\ source'.fed \in 0..Len(stream)
    <3>1. source' = [source EXCEPT !.fed = source.fed + 1]
      BY <1>4 DEF SourceCommand
    <3>2. Len(stream) \in Nat
      BY EndsFacts
    <3>3. source.fed + 1 \in Nat /\ source.fed + 1 \in 0..Len(stream)
      BY <2>1, <3>2
    <3> QED BY <3>1, <3>3, Records
  <2> QED BY <1>4, <2>6, <2>7 DEF SourceCommand, SourceKeeps, Types
<1>5. ASSUME CheckContext PROVE Types'
  BY <1>5 DEF CheckContext, HandshakeKeeps, main, storing, Types
<1>6. ASSUME BgsaveInProgress PROVE Types'
  BY <1>6 DEF BgsaveInProgress, HandshakeKeeps, main, storing, Types
<1>7. ASSUME SendPSync PROVE Types'
  BY <1>7 DEF SendPSync, HandshakeKeeps, main, storing, Types
<1>8. ASSUME SkipBeat PROVE Types'
  <2>1. input' \in Seq(Token)
    BY <1>8, Shortened DEF SkipBeat, Types
  <2> QED BY <1>8, <2>1 DEF SkipBeat, HandshakeKeeps, Types
<1>9. ASSUME ReadFullResync PROVE Types'
  <2>1. input' \in Seq(Token) /\ Head(input) \in Token
    BY <1>9, Shortened DEF ReadFullResync, Types
  <2>2. stat' \in [received : Nat, sent : Int]
    BY <1>9, <2>1 DEF ReadFullResync, Types, Token
  <2> QED BY <1>9, <2>1, <2>2 DEF ReadFullResync, HandshakeKeeps, Types
<1>10. ASSUME MeetPayload PROVE Types'
  BY <1>10 DEF MeetPayload, HandshakeKeeps, main, storing, Types
<1>11. ASSUME ReadHeader PROVE Types'
  <2>1. input' \in Seq(Token)
    BY <1>11, Shortened DEF ReadHeader, Types
  <2> QED BY <1>11, <2>1 DEF ReadHeader, HandshakeKeeps, Types
<1>12. ASSUME NEW n \in 1..ReadSize, ReceiveSized(n) PROVE Types'
  <2>1. n \in 0..Len(input) /\ input \in Seq(Token) /\ rdb \in Seq(Token)
    <3>1. Len(input) \in Nat /\ PayloadLen - Len(rdb) \in Int /\ n \in Nat /\ n <= Least(PayloadLen - Len(rdb), Len(input))
      BY <1>12, Fields DEF ReceiveSized
    <3>2. n \in 0..Len(input)
      BY <3>1 DEF Least
    <3> QED BY <3>1, <3>2, Records
  <2>2. SubSeq(input, 1, n) \in Seq(Token) /\ SubSeq(input, n + 1, Len(input)) \in Seq(Token)
    BY <2>1, Taking, Dropped
  <2>3. input' \in Seq(Token) /\ rdb' \in Seq(Token)
    BY <1>12, <2>1, <2>2, ConcatProperties DEF ReceiveSized
  <2> QED BY <1>12, <2>3 DEF ReceiveSized, HandshakeKeeps, Types
<1>13. ASSUME NEW n \in 1..ReadSize, ReceiveUntilMarker(n) PROVE Types'
  <2>1. n \in 0..Len(input) /\ input \in Seq(Token) /\ rdb \in Seq(Token) /\ tail \in Seq(Token)
    <3>1. Len(input) \in Nat /\ n \in Nat /\ n <= Len(input)
      BY <1>13, Fields DEF ReceiveUntilMarker
    <3> QED BY <3>1, Records
  <2>2. SubSeq(input, 1, n) \in Seq(Token) /\ SubSeq(input, n + 1, Len(input)) \in Seq(Token)
    BY <2>1, Taking, Dropped
  <2> DEFINE buf == tail \o SubSeq(input, 1, n)
  <2>3. buf \in Seq(Token) /\ Len(buf) \in Nat /\ MarkerLen \in Nat
    BY <2>1, <2>2, ConcatProperties, LenProperties, SizesAssumption
  <2>4. /\ input' = SubSeq(input, n + 1, Len(input)) /\ pc' \in {pc, "start"}
        /\ rdb' = rdb \/ (Len(buf) >= MarkerLen /\ rdb' = rdb \o Cut(buf, MarkerLen))
        /\ tail' = <<>> \/ tail' = buf \/ (Len(buf) >= MarkerLen /\ tail' = Last40(buf))
    BY <1>13 DEF ReceiveUntilMarker
  <2> HIDE DEF buf
  <2>5. Len(buf) >= MarkerLen => Cut(buf, MarkerLen) \in Seq(Token) /\ Last40(buf) \in Seq(Token)
    <3>1. ASSUME Len(buf) >= MarkerLen PROVE Len(buf) - MarkerLen \in 0..Len(buf)
      BY <3>1, <2>3
    <3> QED BY <3>1, <2>3, Taking, Dropped DEF Cut, Last40
  <2>6. input' \in Seq(Token) /\ rdb' \in Seq(Token) /\ tail' \in Seq(Token)
    <3>1. rdb' \in Seq(Token)
      <4>1. CASE rdb' = rdb
        BY <4>1, <2>1
      <4>2. CASE Len(buf) >= MarkerLen /\ rdb' = rdb \o Cut(buf, MarkerLen)
        <5>1. Cut(buf, MarkerLen) \in Seq(Token) /\ rdb \in Seq(Token)
          BY <4>2, <2>1, <2>5
        <5> QED BY <4>2, <5>1, ConcatProperties
      <4> QED BY <2>4, <4>1, <4>2
    <3>2. tail' \in Seq(Token)
      BY <2>3, <2>4, <2>5, EmptySeq
    <3> QED BY <2>2, <2>4, <3>1, <3>2
  <2> QED BY <1>13, <2>4, <2>6 DEF ReceiveUntilMarker, HandshakeKeeps, Types
<1>14. ASSUME StartSending PROVE Types'
  BY <1>14 DEF StartSending, SendKeeps, main, storing, Types
<1>15. ASSUME SendRdbEntry PROVE Types'
  <2>1. Head(rdb) \in Token /\ rdb' \in Seq(Token)
    BY <1>15, Shortened DEF SendRdbEntry, Types
  <2>2. Entry("rdb", Head(rdb), 0, 0) \in Message
    BY <2>1 DEF Entry, Message
  <2>3. out' \in Seq(Message)
    BY <1>15, <2>2, AppendProperties DEF SendRdbEntry, Types
  <2> QED BY <1>15, <2>1, <2>3 DEF SendRdbEntry, SendKeeps, storing, Types
<1>16. ASSUME EndRdb PROVE Types'
  BY <1>16, EmptySeq, RdbDbAssumption DEF EndRdb, SendKeeps, storing, Types
<1>17. ASSUME SendBase PROVE Types'
  <2>1. Entry("base", <<"base", 0>>, start, 0) \in Message
    <3>1. start \in Int
      BY Fields
    <3>2. <<"base", 0>> \in Token
      BY DEF Token, Kind
    <3> QED BY <3>1, <3>2 DEF Entry, Message
  <2>2. out' \in Seq(Message)
    <3>1. out' = out \/ out' = Append(out, Entry("base", <<"base", 0>>, start, 0))
      BY <1>17 DEF SendBase, sendProgress
    <3>2. out \in Seq(Message)
      BY Records
    <3>3. Append(out, Entry("base", <<"base", 0>>, start, 0)) \in Seq(Message)
      BY <2>1, <3>2, AppendProperties
    <3> QED BY <3>1, <3>2, <3>3
  <2> QED BY <1>17, <2>2 DEF SendBase, SendKeeps, storing, Types
<1>18. ASSUME OpenReader PROVE Types'
  <2>1. reader' \in [name : Nat, pos : Nat, offset : Nat, buf : Seq(Nat)]
    BY <1>18 DEF OpenReader, Types
  <2> QED BY <1>18, <2>1 DEF OpenReader, SendKeeps, storing, Types
<1>19. ASSUME NextCommand PROVE Types'
  BY <1>19 DEF NextCommand, SendKeeps, main, storing, Types
<1>20. ASSUME SendCommand PROVE Types'
  <2>1. Following /\ reader.buf # <<>>
    BY <1>20 DEF SendCommand, Following, Complete
  <2>2. PICK i \in 1..Len(stream) : Read - Len(reader.buf) = Ends[i - 1] /\ CommandAt(Head(reader.buf)) = i
    BY <2>1, CommandHere
  <2>3. Size(i) \in Nat \ {0} /\ stream[i] \in Command /\ i \in Nat
    BY EndsFacts, ElementOfSeq
  <2>4. stream[i].db \in Nat
    BY <2>3 DEF Command
  <2>5. Size(i) <= Len(reader.buf) /\ reader.offset \in Nat /\ Len(reader.buf) \in Nat /\ reader.buf \in Seq(Nat)
    BY <1>20, <2>2, Fields DEF SendCommand, Complete
  <2> DEFINE offset == SentOffset(Size(i))
  <2>6. offset \in Int
    BY <2>3, <2>5 DEF SentOffset
  <2>7. /\ reader' = [reader EXCEPT !.buf = SubSeq(reader.buf, Size(i) + 1, Len(reader.buf))]
        /\ stat' = [stat EXCEPT !.sent = offset] /\ db' \in {db, stream[i].db} /\ pc' = "aof"
        /\ \/ out' = out
           \/ out' = Append(out, Entry("aof", <<"aof", i>>, Tracked(offset), db))
           \/ out' = Append(out, Entry("progress", <<"aof", i>>, offset, 0))
    BY <1>20, <2>2 DEF SendCommand, sendProgress
  <2> HIDE DEF offset
  <2>8. SubSeq(reader.buf, Size(i) + 1, Len(reader.buf)) \in Seq(Nat)
    BY <2>3, <2>5, Dropped
  <2>9. /\ Entry("aof", <<"aof", i>>, Tracked(offset), db) \in Message
        /\ Entry("progress", <<"aof", i>>, offset, 0) \in Message
    <3>1. Tracked(offset) \in Int /\ db \in Nat
      BY <2>6, Fields DEF Tracked
    <3>2. <<"aof", i>> \in Token
      BY <2>3 DEF Token, Kind
    <3> QED BY <2>6, <3>1, <3>2 DEF Entry, Message
  <2>10. out' \in Seq(Message)
    <3>1. out \in Seq(Message)
      BY Records
    <3>2. /\ Append(out, Entry("aof", <<"aof", i>>, Tracked(offset), db)) \in Seq(Message)
          /\ Append(out, Entry("progress", <<"aof", i>>, offset, 0)) \in Seq(Message)
      BY <2>9, <3>1, AppendProperties
    <3> QED BY <2>7, <3>1, <3>2
  <2>11. /\ reader' \in [name : Nat, pos : Nat, offset : Nat, buf : Seq(Nat)]
         /\ stat' \in [received : Nat, sent : Int] /\ db' \in Nat
    BY <2>4, <2>6, <2>7, <2>8, Records, Fields
  <2> QED BY <1>20, <2>7, <2>10, <2>11 DEF SendCommand, SendKeeps, storing, Types
<1>21. ASSUME ReadFile PROVE Types'
  <2>1. Following
    BY <1>21 DEF ReadFile, Following
  <2>2. /\ files[reader.name] \in Seq(Nat) /\ Len(files[reader.name]) \in Nat /\ reader.pos <= Len(files[reader.name])
        /\ reader.pos \in Nat /\ reader.offset \in Nat /\ reader.buf \in Seq(Nat)
    BY <2>1, ReadBound, Fields
  <2> DEFINE n == Least(Unread, ReadSize)
             new == SubSeq(files[reader.name], reader.pos + 1, reader.pos + n)
  <2>3. n \in Nat /\ reader.pos + n <= Len(files[reader.name])
    BY <2>2, <1>21, SizesAssumption DEF Unread, Least, ReadFile
  <2>4. new \in Seq(Nat)
    <3>1. \A i \in (reader.pos + 1)..(reader.pos + n) : files[reader.name][i] \in Nat
      <4> DEFINE l == Len(files[reader.name])
      <4>1. l \in Nat /\ reader.pos \in Nat /\ n \in Nat /\ reader.pos + n <= l
        BY <2>2, <2>3
      <4> HIDE DEF n, l
      <4>2. \A i \in (reader.pos + 1)..(reader.pos + n) : i \in 1..l
        BY <4>1
      <4> QED BY <2>2, <4>2, ElementOfSeq DEF l
    <3> HIDE DEF n
    <3> QED BY <2>2, <2>3, <3>1, SubSeqProperties
  <2>5. reader' = [reader EXCEPT !.buf = reader.buf \o new, !.pos = reader.pos + n, !.offset = reader.offset + n]
    BY <1>21 DEF ReadFile
  <2> HIDE DEF n, new
  <2>6. reader.buf \o new \in Seq(Nat)
    BY <2>2, <2>4, ConcatProperties
  <2>7. reader' \in [name : Nat, pos : Nat, offset : Nat, buf : Seq(Nat)]
    <3>1. reader.pos + n \in Nat /\ reader.offset + n \in Nat
      BY <2>2, <2>3
    <3> QED BY <2>5, <2>6, <3>1, Records
  <2> QED BY <1>21, <2>7 DEF ReadFile, FileKeeps, storing, Types
<1>22. ASSUME MeetEof PROVE Types'
  BY <1>22 DEF MeetEof, FileKeeps, main, storing, Types
<1>23. ASSUME ReadCancelled PROVE Types'
  BY <1>23 DEF ReadCancelled, FileKeeps, main, storing, Types
<1>24. ASSUME readNextFile PROVE Types'
  <2>1. CASE HasNext
    <3>1. /\ reader' = [reader EXCEPT !.name = reader.offset, !.pos = 0]
          /\ files' = [f \in DOMAIN files \ {reader.name} |-> files[f]]
      BY <1>24, <2>1 DEF readNextFile, SwitchTo
    <3>2. reader' \in [name : Nat, pos : Nat, offset : Nat, buf : Seq(Nat)]
      BY <3>1 DEF Types
    <3>3. files' \in [DOMAIN files' -> Seq(Nat)] /\ DOMAIN files' \subseteq Nat
      BY <3>1, Fields
    <3> QED BY <1>24, <3>2, <3>3 DEF readNextFile, FileKeeps, storing, Types
  <2>2. CASE ~ HasNext
    BY <1>24, <2>2 DEF readNextFile, FileKeeps, storing, Types
  <2> QED BY <2>1, <2>2
<1>25. ASSUME OpenWriter PROVE Types'
  <2>1. \A name \in Nat : /\ Created(name) \in [DOMAIN files \cup {name} -> Seq(Nat)]
                         /\ DOMAIN Created(name) = DOMAIN files \cup {name} /\ DOMAIN files \cup {name} \subseteq Nat
    BY Fields, EmptySeq DEF Created
  <2>2. files' \in [DOMAIN files' -> Seq(Nat)] /\ DOMAIN files' \subseteq Nat
    BY <1>25, <2>1 DEF OpenWriter
  <2>3. writer' \in [name : Nat, offset : Nat, size : Nat, n : Nat]
    BY <1>25, Fields DEF OpenWriter, Types
  <2> QED BY <1>25, <2>2, <2>3 DEF OpenWriter, StoreKeeps, main, Types
<1>26. ASSUME StoreOrStop PROVE Types'
  BY <1>26 DEF StoreOrStop, StoreKeeps, main, storing, Types
<1>27. ASSUME NEW n \in 1..ReadSize, Store(n) PROVE Types'
  <2>1. n \in 0..Len(input) /\ input \in Seq(Token) /\ n \in Nat
    <3>1. Len(input) \in Nat /\ n \in Nat /\ ReadSize \in Nat /\ n <= Least(Len(input), ReadSize)
      BY <1>27, Fields DEF Store
    <3>2. n \in 0..Len(input)
      BY <3>1 DEF Least
    <3> QED BY <3>1, <3>2, Records
  <2>2. input' \in Seq(Token)
    BY <1>27, <2>1, Dropped DEF Store
  <2> DEFINE new == [i \in 1..n |-> input[i][2]]
  <2>3. new \in Seq(Nat)
    <3>1. ASSUME NEW i \in 1..n PROVE input[i][2] \in Nat
      <4>1. input[i] \in Token
        BY <2>1, ElementOfSeq
      <4> QED BY <4>1 DEF Token
    <3> QED BY <2>1, <3>1, IsASeq
  <2>4. files' = [files EXCEPT ![writer.name] = files[writer.name] \o new]
    BY <1>27 DEF Store
  <2> HIDE DEF new
  <2>5. \A s \in Seq(Nat) : s \o new \in Seq(Nat)
    BY <2>3, ConcatProperties
  <2>6. files' \in [DOMAIN files' -> Seq(Nat)] /\ DOMAIN files' \subseteq Nat
    BY <2>4, <2>5 DEF Types
  <2>7. writer' \in [name : Nat, offset : Nat, size : Nat, n : Nat]
    <3>1. writer' = [writer EXCEPT !.offset = writer.offset + n, !.size = writer.size + n, !.n = n]
      BY <1>27 DEF Store
    <3>2. writer.offset + n \in Nat /\ writer.size + n \in Nat
      <4>1. writer.offset \in Nat /\ writer.size \in Nat
        BY Fields
      <4> QED BY <2>1, <4>1
    <3> QED BY <2>1, <3>1, <3>2, Records
  <2> QED BY <1>27, <2>2, <2>6, <2>7 DEF Store, StoreKeeps, main, Types
<1>28. ASSUME Rotate PROVE Types'
  <2>1. \A name \in Nat : /\ Created(name) \in [DOMAIN files \cup {name} -> Seq(Nat)]
                         /\ DOMAIN Created(name) = DOMAIN files \cup {name} /\ DOMAIN files \cup {name} \subseteq Nat
    BY Fields, EmptySeq DEF Created
  <2>2. files' \in [DOMAIN files' -> Seq(Nat)] /\ DOMAIN files' \subseteq Nat
    <3>1. files' = files \/ files' = Created(writer.offset)
      BY <1>28 DEF Rotate
    <3>2. writer.offset \in Nat
      BY Fields
    <3> QED BY <2>1, <3>1, <3>2, Records
  <2>3. writer' \in [name : Nat, offset : Nat, size : Nat, n : Nat]
    <3>1. writer' = writer \/ writer' = [writer EXCEPT !.name = writer.offset, !.size = 0]
      BY <1>28 DEF Rotate
    <3>2. writer \in [name : Nat, offset : Nat, size : Nat, n : Nat]
      BY Records
    <3>3. writer.offset \in Nat
      BY Fields
    <3>4. [writer EXCEPT !.name = writer.offset, !.size = 0] \in [name : Nat, offset : Nat, size : Nat, n : Nat]
      BY <3>2, <3>3
    <3> QED BY <3>1, <3>2, <3>4
  <2> QED BY <1>28, <2>2, <2>3 DEF Rotate, StoreKeeps, main, Types
<1>29. ASSUME CountReceived PROVE Types'
  <2>1. stat' \in [received : Nat, sent : Int]
    <3>1. stat' = [stat EXCEPT !.received = stat.received + writer.n]
      BY <1>29 DEF CountReceived
    <3>2. stat.received + writer.n \in Nat
      <4>1. stat.received \in Nat /\ writer.n \in Nat
        BY Fields
      <4> QED BY <4>1
    <3>3. stat \in [received : Nat, sent : Int]
      BY Records
    <3> QED BY <3>1, <3>2, <3>3
  <2> QED BY <1>29, <2>1 DEF CountReceived, StoreKeeps, Types
<1>30. ASSUME OpenTimeout PROVE Types'
  BY <1>30 DEF OpenTimeout, main, storing, Types
<1>31. ASSUME SendAck PROVE Types'
  BY <1>31 DEF SendAck, AckKeeps, main, storing, Types
<1>32. ASSUME Cancel PROVE Types'
  BY <1>32 DEF Cancel, main, storing, Types
<1>33. ASSUME Panic PROVE Types'
  BY <1>33 DEF Panic, main, storing, Types
<1>34. CASE UNCHANGED vars
  <2>1. /\ opts' = opts /\ stream' = stream /\ source' = source /\ input' = input /\ cancelled' = cancelled /\ dead' = dead
        /\ pc' = pc /\ start' = start /\ rdb' = rdb /\ tail' = tail /\ db' = db /\ out' = out
        /\ stat' = stat /\ wpc' = wpc /\ writer' = writer /\ files' = files /\ reader' = reader /\ acked' = acked
    BY <1>34 DEF vars, config, main, storing
  <2>2. /\ opts' \in Options /\ stream' \in Streams
        /\ source' \in [step : {"idle", "asked", "saving", "streaming"}, beats : Nat, fed : Nat]
        /\ source'.fed \in 0..Len(stream')
        /\ input' \in Seq(Token) /\ cancelled' \in BOOLEAN /\ dead' \in BOOLEAN
    BY <2>1 DEF Types
  <2>3. /\ stat' \in [received : Nat, sent : Int] /\ start' \in Nat
        /\ rdb' \in Seq(Token) /\ tail' \in Seq(Token) /\ db' \in Nat /\ out' \in Seq(Message)
        /\ writer' \in [name : Nat, offset : Nat, size : Nat, n : Nat]
        /\ files' \in [DOMAIN files' -> Seq(Nat)] /\ DOMAIN files' \subseteq Nat
        /\ reader' \in [name : Nat, pos : Nat, offset : Nat, buf : Seq(Nat)]
        /\ acked' \in Nat
    BY <2>1 DEF Types
  <2> QED BY <2>1, <2>2, <2>3 DEF Types
<1> QED
  BY <1>1, <1>2, <1>3, <1>4, <1>5, <1>6, <1>7, <1>8, <1>9, <1>10, <1>11, <1>12, <1>13, <1>14, <1>15, <1>16, <1>17, <1>18, <1>19, <1>20, <1>21, <1>22, <1>23, <1>24, <1>25, <1>26, <1>27, <1>28, <1>29, <1>30, <1>31, <1>32, <1>33, <1>34
     DEF Next, Source, Handshake, Receive, Send, Follow, Keep

-----------------------------------------------------------------------------
(***************************************************************************)
(* The connection.                                                         *)
(***************************************************************************)
\* A command of the source adds its bytes.
LEMMA CommandEffect ==
    ASSUME Types, SourceCommand
    PROVE  /\ source.fed + 1 \in 1..Len(stream) /\ Ends[source.fed] \in Nat /\ Ends[source.fed + 1] \in Nat
           /\ source'.fed = source.fed + 1 /\ source.step = "streaming" /\ source'.step = "streaming"
           /\ Ends[source.fed] < Ends[source.fed + 1]
           /\ Len(input') = Len(input) + (Ends[source.fed + 1] - Ends[source.fed])
           /\ \A i \in 1..Len(input) : input'[i] = input[i]
           /\ \A i \in 1..(Ends[source.fed + 1] - Ends[source.fed]) :
                 input'[Len(input) + i] = <<"aof", Ends[source.fed] + i>>
<1>1. source.fed + 1 \in 1..Len(stream) /\ source.fed \in 0..Len(stream) /\ Len(stream) \in Nat
  <2>1. source.fed \in 0..Len(stream) /\ Len(stream) \in Nat
    BY Fields, EndsFacts
  <2>2. source.fed < Len(stream)
    BY DEF SourceCommand
  <2> QED BY <2>1, <2>2
<1>2. /\ Size(source.fed + 1) \in Nat \ {0}
      /\ Size(source.fed + 1) = Ends[source.fed + 1] - Ends[(source.fed + 1) - 1]
  BY <1>1, EndsFacts
<1>3. Ends[source.fed] \in Nat /\ Ends[source.fed + 1] \in Nat
  <2>1. \A i \in 0..Len(stream) : Ends[i] \in Nat
    BY EndsFacts
  <2> QED BY <1>1, <2>1
<1>4. (source.fed + 1) - 1 = source.fed
  BY <1>1
<1>5. Size(source.fed + 1) = Ends[source.fed + 1] - Ends[source.fed]
  BY <1>2, <1>4
<1> DEFINE new == [i \in 1..Size(source.fed + 1) |-> <<"aof", Ends[source.fed] + i>>]
<1>6. new \in Seq(Token) /\ Len(new) = Size(source.fed + 1)
  <2>1. \A i \in 1..Size(source.fed + 1) : <<"aof", Ends[source.fed] + i>> \in Token
    BY <1>2, <1>3 DEF Token, Kind
  <2>2. Size(source.fed + 1) \in Nat
    BY <1>2
  <2>3. new \in Seq(Token)
    BY <2>1, <2>2, IsASeq
  <2> QED BY <2>2, <2>3
<1>7. \A i \in 1..Size(source.fed + 1) : new[i] = <<"aof", Ends[source.fed] + i>>
  OBVIOUS
<1>8. input' = input \o new /\ source.step = "streaming" /\ source' = [source EXCEPT !.fed = source.fed + 1]
  BY DEF SourceCommand
<1> HIDE DEF new
<1>9. input \in Seq(Token) /\ source \in [step : {"idle", "asked", "saving", "streaming"}, beats : Nat, fed : Nat]
  BY Records
<1>10. source'.fed = source.fed + 1 /\ source'.step = "streaming"
  BY <1>8, <1>9
<1>11. /\ input \o new \in Seq(Token) /\ Len(input) \in Nat /\ Len(new) \in Nat /\ Len(input \o new) = Len(input) + Len(new)
       /\ \A i \in 1..Len(input) : (input \o new)[i] = input[i]
       /\ \A i \in 1..Len(new) : (input \o new)[Len(input) + i] = new[i]
  <2>1. input \in Seq(Token)
    BY <1>9
  <2>2. new \in Seq(Token)
    BY <1>6
  <2> QED BY <2>1, <2>2, Joined
<1>12. Ends[source.fed] < Ends[source.fed + 1]
  BY <1>2, <1>3, <1>5
<1>13. ASSUME NEW i \in 1..(Ends[source.fed + 1] - Ends[source.fed])
       PROVE  input'[Len(input) + i] = <<"aof", Ends[source.fed] + i>>
  <2>1. i \in 1..Len(new) /\ i \in 1..Size(source.fed + 1)
    BY <1>5, <1>6
  <2>2. input'[Len(input) + i] = new[i]
    BY <1>8, <1>11, <2>1
  <2> QED BY <1>7, <2>1, <2>2
<1> QED BY <1>1, <1>3, <1>5, <1>6, <1>8, <1>10, <1>11, <1>12, <1>13

\* The source begins its payload.
LEMMA PayloadEffect ==
    ASSUME Types, SourcePayload
    PROVE  /\ source'.step = "streaming" /\ source'.fed = source.fed /\ source.step # "streaming"
           /\ Len(input') = Len(input) + 1 + PayloadEnd
           /\ \A i \in 1..Len(input) : input'[i] = input[i]
           /\ input'[Len(input) + 1] = <<IF opts.eof THEN "eof" ELSE "size", 0>>
           /\ \A i \in 1..PayloadEnd : input'[Len(input) + 1 + i] = Flow(opts.eof, i)
<1>1. /\ source' = [source EXCEPT !.step = "streaming", !.beats = 0] /\ source.step # "streaming"
      /\ input' = IF opts.eof
                  THEN ((input \o Line("eof")) \o Tokens("rdb", PayloadLen)) \o Tokens("mark", MarkerLen)
                  ELSE (input \o Line("size")) \o Tokens("rdb", PayloadLen)
  BY DEF SourcePayload
<1>2. source'.step = "streaming" /\ source'.fed = source.fed
  BY <1>1, Records
<1>3. input \in Seq(Token) /\ PayloadLen \in Nat /\ MarkerLen \in Nat /\ Len(input) \in Nat
  BY Records, Fields
<1>4. ASSUME NEW kind \in {"eof", "size"}
      PROVE  LET s == (input \o Line(kind)) \o Tokens("rdb", PayloadLen)
             IN  /\ s \in Seq(Token) /\ Len(s) = Len(input) + 1 + PayloadLen
                 /\ \A i \in 1..Len(input) : s[i] = input[i]
                 /\ s[Len(input) + 1] = <<kind, 0>>
                 /\ \A i \in 1..PayloadLen : s[Len(input) + 1 + i] = <<"rdb", i>>
  <2> DEFINE a == input \o Line(kind)
             t == Tokens("rdb", PayloadLen)
  <2>1. Line(kind) \in Seq(Token) /\ Len(Line(kind)) = 1 /\ Line(kind)[1] = <<kind, 0>>
    BY LineFacts DEF Kind
  <2>2. /\ a \in Seq(Token) /\ Len(a) = Len(input) + Len(Line(kind)) /\ \A i \in 1..Len(input) : a[i] = input[i]
        /\ \A i \in 1..Len(Line(kind)) : a[Len(input) + i] = Line(kind)[i]
    BY <1>3, <2>1, Joined
  <2>3. a[Len(input) + 1] = <<kind, 0>> /\ Len(a) = Len(input) + 1
    BY <1>3, <2>1, <2>2
  <2>4. t \in Seq(Token) /\ Len(t) = PayloadLen /\ \A i \in 1..PayloadLen : t[i] = <<"rdb", i>>
    BY <1>3, TokensFacts DEF Kind
  <2> HIDE DEF a, t
  <2>5. /\ a \o t \in Seq(Token) /\ Len(a) \in Nat /\ Len(t) \in Nat /\ Len(a \o t) = Len(a) + Len(t)
        /\ \A i \in 1..Len(a) : (a \o t)[i] = a[i]
        /\ \A i \in 1..Len(t) : (a \o t)[Len(a) + i] = t[i]
    <3>1. a \in Seq(Token)
      BY <2>2
    <3>2. t \in Seq(Token)
      BY <2>4
    <3> QED BY <3>1, <3>2, Joined
  <2>6. \A i \in 1..Len(input) : (a \o t)[i] = input[i]
    BY <1>3, <2>2, <2>3, <2>5
  <2>7. (a \o t)[Len(input) + 1] = <<kind, 0>>
    BY <1>3, <2>3, <2>5
  <2>8. ASSUME NEW i \in 1..PayloadLen PROVE (a \o t)[Len(input) + 1 + i] = <<"rdb", i>>
    <3>1. (a \o t)[Len(a) + i] = t[i]
      BY <2>4, <2>5
    <3> QED BY <2>3, <2>4, <3>1
  <2>9. Len(a \o t) = Len(input) + 1 + PayloadLen
    BY <2>3, <2>4, <2>5
  <2> QED BY <2>5, <2>6, <2>7, <2>8, <2>9 DEF a, t
<1>5. CASE ~ opts.eof
  <2> DEFINE s == (input \o Line("size")) \o Tokens("rdb", PayloadLen)
  <2>1. /\ s \in Seq(Token) /\ Len(s) = Len(input) + 1 + PayloadLen
        /\ \A i \in 1..Len(input) : s[i] = input[i]
        /\ s[Len(input) + 1] = <<"size", 0>>
        /\ \A i \in 1..PayloadLen : s[Len(input) + 1 + i] = <<"rdb", i>>
    BY <1>4
  <2>2. input' = s /\ PayloadEnd = PayloadLen
    BY <1>1, <1>5 DEF PayloadEnd, EndOfPayload
  <2> HIDE DEF s
  <2>3. \A i \in 1..PayloadLen : Flow(opts.eof, i) = <<"rdb", i>>
    BY <1>3 DEF Flow
  <2> QED BY <1>1, <1>2, <1>5, <2>1, <2>2, <2>3
<1>6. CASE opts.eof
  <2> DEFINE s == (input \o Line("eof")) \o Tokens("rdb", PayloadLen)
             t == Tokens("mark", MarkerLen)
  <2>1. /\ s \in Seq(Token) /\ Len(s) = Len(input) + 1 + PayloadLen
        /\ \A i \in 1..Len(input) : s[i] = input[i]
        /\ s[Len(input) + 1] = <<"eof", 0>>
        /\ \A i \in 1..PayloadLen : s[Len(input) + 1 + i] = <<"rdb", i>>
    BY <1>4
  <2>2. t \in Seq(Token) /\ Len(t) = MarkerLen /\ \A i \in 1..MarkerLen : t[i] = <<"mark", i>>
    BY <1>3, TokensFacts DEF Kind
  <2>3. input' = s \o t /\ PayloadEnd = PayloadLen + MarkerLen
    BY <1>1, <1>6 DEF PayloadEnd, EndOfPayload
  <2> HIDE DEF s, t
  <2>4. /\ s \o t \in Seq(Token) /\ Len(s) \in Nat /\ Len(t) \in Nat /\ Len(s \o t) = Len(s) + Len(t)
        /\ \A i \in 1..Len(s) : (s \o t)[i] = s[i]
        /\ \A i \in 1..Len(t) : (s \o t)[Len(s) + i] = t[i]
    <3>1. s \in Seq(Token)
      BY <2>1
    <3>2. t \in Seq(Token)
      BY <2>2
    <3> QED BY <3>1, <3>2, Joined
  <2>5. \A i \in 1..Len(input) : input'[i] = input[i]
    BY <1>3, <2>1, <2>3, <2>4
  <2>6. input'[Len(input) + 1] = <<"eof", 0>>
    <3>1. Len(input) + 1 \in 1..Len(s)
      BY <1>3, <2>1
    <3> QED BY <2>1, <2>3, <2>4, <3>1
  <2>7. ASSUME NEW i \in 1..PayloadEnd PROVE input'[Len(input) + 1 + i] = Flow(opts.eof, i)
    <3>1. CASE i <= PayloadLen
      <4>1. Len(input) + 1 + i \in 1..Len(s) /\ i \in 1..PayloadLen
        BY <1>3, <2>1, <2>3, <3>1
      <4>2. input'[Len(input) + 1 + i] = <<"rdb", i>>
        BY <4>1, <2>1, <2>3, <2>4
      <4> QED BY <3>1, <4>2 DEF Flow
    <3>2. CASE i > PayloadLen
      <4>1. i - PayloadLen \in 1..Len(t) /\ Len(input) + 1 + i = Len(s) + (i - PayloadLen) /\ ~ (i <= PayloadLen) /\ i <= PayloadLen + MarkerLen
        BY <1>3, <2>1, <2>2, <2>3, <3>2
      <4>2. input'[Len(input) + 1 + i] = <<"mark", i - PayloadLen>>
        BY <4>1, <2>2, <2>3, <2>4
      <4> QED BY <1>6, <4>1, <4>2 DEF Flow, EndOfPayload
    <3>3. i \in Nat /\ PayloadLen \in Nat
      BY <1>3, <2>3
    <3>4. i <= PayloadLen \/ i > PayloadLen
      BY <3>3
    <3> QED BY <3>1, <3>2, <3>4
  <2>8. Len(input') = Len(input) + 1 + PayloadEnd
    BY <1>3, <2>1, <2>2, <2>3, <2>4
  <2> QED BY <1>1, <1>2, <1>6, <2>5, <2>6, <2>7, <2>8
<1> QED BY <1>5, <1>6

\* The handshake takes the first line from the connection.
LEMMA LineTaken ==
    ASSUME Types, SkipBeat \/ ReadFullResync \/ ReadHeader
    PROVE  /\ Len(input) \in Nat \ {0} /\ Len(input') = Len(input) - 1 /\ source' = source /\ Head(input) = input[1]
           /\ \A i \in 1..Len(input') : input'[i] = input[1 + i]
<1>1. input # <<>> /\ input' = Tail(input) /\ source' = source
  BY DEF SkipBeat, ReadFullResync, ReadHeader
<1>2. input \in Seq(Token)
  BY Records
<1>3. /\ Len(input) \in Nat \ {0} /\ Head(input) = input[1] /\ Len(Tail(input)) = Len(input) - 1
      /\ \A i \in 1..Len(Tail(input)) : Tail(input)[i] = input[1 + i]
  BY <1>1, <1>2, Shortened
<1> QED BY <1>1, <1>3

\* What is in front of the payload keeps its form until it is read.
LEMMA WaitsStep == ASSUME Types, Stages, InputWaits, [Next]_vars PROVE InputWaits'
<1>0. opts' = opts /\ PayloadEnd' = PayloadEnd /\ Ends' = Ends /\ stream' = stream
  BY ConfigStep DEF PayloadEnd
<1>1. PayloadEnd \in Nat /\ Len(input) \in Nat /\ input \in Seq(Token)
  BY Fields, Records
<1>2. ASSUME Heartbeat \/ (\E b \in Bases : FullResync(b)) PROVE InputWaits'
  <2>1. PICK t \in Token : t[1] \in {"beat", "full"} /\ input' = Append(input, t)
    <3>1. CASE Heartbeat
      <4>1. input' = input \o <<<<"beat", 0>>>> /\ <<"beat", 0>> \in Token
        BY <3>1 DEF Heartbeat, Line, Token, Kind
      <4>2. Append(input, <<"beat", 0>>) = input \o <<<<"beat", 0>>>>
        BY <1>1, <4>1, AppendIsConcat
      <4> QED BY <4>1, <4>2
    <3>2. ASSUME NEW b \in Bases, FullResync(b) PROVE \E t \in Token : t[1] \in {"beat", "full"} /\ input' = Append(input, t)
      <4>1. <<"full", b>> \in Token
        BY BasesAssumption DEF Token, Kind
      <4> QED BY <3>2, <4>1 DEF FullResync
    <3> QED BY <1>2, <3>1, <3>2
  <2>2. /\ Len(input') = Len(input) + 1 /\ input'[Len(input) + 1] = t
        /\ \A i \in 1..Len(input) : input'[i] = input[i]
    BY <1>1, <2>1, AppendProperties
  <2>3. /\ source.step # "streaming" /\ source'.step # "streaming" /\ source'.fed = source.fed /\ pc' = pc
    BY <1>2, Records DEF Heartbeat, FullResync, SourceKeeps, main
  <2>4. ASSUME Waiting' PROVE source.fed = 0 /\ \A i \in 1..Len(input) : input[i][1] \in {"beat", "full"}
    BY <2>3, <2>4 DEF InputWaits, Waiting
  <2>5. ASSUME Waiting', NEW i \in 1..Len(input') PROVE input'[i][1] \in {"beat", "full"}
    <3>1. i \in 1..Len(input) \/ i = Len(input) + 1
      BY <1>1, <2>2
    <3> QED BY <2>1, <2>2, <2>4, <2>5, <3>1
  <2> QED BY <2>3, <2>4, <2>5 DEF InputWaits
<1>3. ASSUME SourcePayload PROVE InputWaits'
  <2>1. pc' = pc
    BY <1>3 DEF SourcePayload, SourceKeeps, main
  <2>2. /\ source'.step = "streaming" /\ source'.fed = source.fed /\ source.step # "streaming"
        /\ Len(input') = Len(input) + 1 + PayloadEnd
        /\ \A i \in 1..Len(input) : input'[i] = input[i]
        /\ input'[Len(input) + 1] = <<IF opts.eof THEN "eof" ELSE "size", 0>>
        /\ \A i \in 1..PayloadEnd : input'[Len(input) + 1 + i] = Flow(opts.eof, i)
    BY <1>3, PayloadEffect
  <2>3. ASSUME Waiting PROVE source.fed = 0 /\ \A i \in 1..Len(input) : input[i][1] \in {"beat", "full"}
    BY <2>2, <2>3 DEF InputWaits
  <2>4. ASSUME Waiting PROVE \E h \in 1..Len(input') : HeaderAt(h)'
    <3> DEFINE h == Len(input) + 1
    <3>1. h \in 1..Len(input')
      BY <1>1, <2>2
    <3>2. \A i \in 1..Len(input') : i < h => input'[i][1] \in {"beat", "full"}
      <4>1. ASSUME NEW i \in 1..Len(input'), i < h PROVE input'[i][1] \in {"beat", "full"}
        <5>1. i \in 1..Len(input)
          BY <1>1, <4>1
        <5> QED BY <2>2, <2>3, <2>4, <5>1
      <4> QED BY <4>1
    <3>3. input'[h] = <<IF opts'.eof THEN "eof" ELSE "size", 0>>
      BY <1>0, <2>2
    <3>4. Ends[source.fed] = 0
      BY <2>3, <2>4, EndsFacts
    <3>5. Len(input') = h + PayloadEnd' + Ends'[source'.fed]
      BY <1>0, <1>1, <2>2, <3>4
    <3>6. ASSUME NEW i \in 1..(Len(input') - h) PROVE input'[h + i] = Flow(opts'.eof, i)
      <4>1. i \in 1..PayloadEnd
        BY <1>1, <2>2
      <4> QED BY <1>0, <2>2, <4>1
    <3> HIDE DEF h
    <3>7. \A k \in 1..Len(input') : k = h => HeaderAt(k)'
      BY <3>2, <3>3, <3>5, <3>6 DEF HeaderAt, Preamble
    <3> QED BY <3>1, <3>7
  <2>5. Waiting' => Waiting
    BY <2>1 DEF Waiting
  <2> QED BY <2>2, <2>4, <2>5 DEF InputWaits
<1>4. ASSUME SourceCommand PROVE InputWaits'
  <2>1. pc' = pc
    BY <1>4 DEF SourceCommand, SourceKeeps, main
  <2> DEFINE more == Ends[source.fed + 1] - Ends[source.fed]
  <2>2. /\ Ends[source.fed] \in Nat /\ Ends[source.fed + 1] \in Nat
        /\ source'.fed = source.fed + 1 /\ source.step = "streaming" /\ source'.step = "streaming"
        /\ Ends[source.fed] < Ends[source.fed + 1]
        /\ Len(input') = Len(input) + more
        /\ \A i \in 1..Len(input) : input'[i] = input[i]
        /\ \A i \in 1..more : input'[Len(input) + i] = <<"aof", Ends[source.fed] + i>>
    BY <1>4, CommandEffect
  <2>3. ASSUME Waiting PROVE \E h \in 1..Len(input') : HeaderAt(h)'
    <3>1. PICK h \in 1..Len(input) : HeaderAt(h)
      BY <2>2, <2>3 DEF InputWaits
    <3>2. h \in 1..Len(input') /\ more \in Nat
      BY <1>1, <2>2
    <3>3. Len(input) = h + PayloadEnd + Ends[source.fed]
      BY <3>1 DEF HeaderAt
    <3>4. Len(input') = h + PayloadEnd' + Ends'[source'.fed]
      BY <1>0, <1>1, <2>2, <3>3
    <3>5. input'[h] = <<IF opts'.eof THEN "eof" ELSE "size", 0>>
      BY <1>0, <2>2, <3>1 DEF HeaderAt
    <3>6. ASSUME NEW i \in 1..Len(input'), i < h PROVE input'[i][1] \in {"beat", "full"}
      <4>1. i \in 1..Len(input)
        BY <1>1, <3>6
      <4> QED BY <2>2, <3>1, <3>6, <4>1 DEF HeaderAt, Preamble
    <3>7. ASSUME NEW i \in 1..(Len(input') - h) PROVE input'[h + i] = Flow(opts'.eof, i)
      <4>1. i \in Nat /\ h \in Nat /\ Len(input') \in Nat
        BY <1>1, <3>2, <2>2
      <4>2. CASE h + i <= Len(input)
        <5>1. i \in 1..(Len(input) - h) /\ h + i \in 1..Len(input)
          BY <1>1, <4>1, <4>2
        <5> QED BY <1>0, <2>2, <3>1, <5>1 DEF HeaderAt
      <4>3. CASE h + i > Len(input)
        <5> DEFINE j == h + i - Len(input)
        <5>1. j \in 1..more /\ h + i = Len(input) + j /\ Ends[source.fed] + j = i - PayloadEnd /\ i > PayloadEnd
          <6>1. Len(input') = Len(input) + more /\ Ends[source.fed] \in Nat
            BY <2>2
          <6>2. more \in Nat
            BY <3>2
          <6>3. PayloadEnd \in Nat /\ Len(input) \in Nat
            BY <1>1
          <6> HIDE DEF more
          <6>4. i <= Len(input') - h /\ i >= 1
            BY <4>1
          <6>5. h + i = Len(input) + j /\ j >= 1 /\ j <= more /\ j \in Int
            BY <4>1, <4>3, <6>1, <6>2, <6>3, <6>4
          <6> HIDE DEF j
          <6>6. i = PayloadEnd + Ends[source.fed] + j
            <7> DEFINE e == Ends[source.fed]
                       l == Len(input)
            <7>1. e \in Nat /\ l \in Nat /\ PayloadEnd \in Nat /\ h \in Nat /\ i \in Nat /\ j \in Int
              BY <4>1, <6>1, <6>3, <6>5
            <7>2. l = h + PayloadEnd + e /\ h + i = l + j
              BY <3>3, <6>5
            <7> HIDE DEF e, l
            <7>3. i = PayloadEnd + e + j
              BY <7>1, <7>2
            <7> QED BY <7>3 DEF e
          <6>7. Ends[source.fed] + j = i - PayloadEnd /\ i > PayloadEnd
            <7> DEFINE e == Ends[source.fed]
            <7>1. e \in Nat /\ PayloadEnd \in Nat /\ j \in Int /\ j >= 1 /\ i = PayloadEnd + e + j
              BY <6>1, <6>3, <6>5, <6>6
            <7> HIDE DEF e
            <7>2. e + j = i - PayloadEnd /\ i > PayloadEnd
              BY <7>1
            <7> QED BY <7>2 DEF e
          <6> QED BY <6>2, <6>5, <6>7
        <5>2. input'[h + i] = <<"aof", i - PayloadEnd>>
          BY <2>2, <5>1
        <5>3. ~ (i <= PayloadEnd) /\ ~ (i <= PayloadLen)
          <6>1. PayloadLen \in Nat /\ PayloadEnd >= PayloadLen
            BY Fields
          <6> QED BY <1>1, <4>1, <5>1, <6>1
        <5>4. Flow(opts.eof, i) = <<"aof", i - PayloadEnd>>
          BY <5>3 DEF Flow, PayloadEnd
        <5> QED BY <1>0, <5>2, <5>4
      <4> QED BY <1>1, <4>1, <4>2, <4>3
    <3> HIDE DEF more
    <3>8. HeaderAt(h)'
      BY <3>4, <3>5, <3>6, <3>7 DEF HeaderAt, Preamble
    <3> QED BY <3>2, <3>8
  <2> QED BY <2>1, <2>2, <2>3 DEF InputWaits, Waiting
<1>5. ASSUME SkipBeat \/ ReadFullResync PROVE InputWaits'
  <2>1. /\ Len(input) \in Nat \ {0} /\ Len(input') = Len(input) - 1 /\ source' = source
        /\ \A i \in 1..Len(input') : input'[i] = input[1 + i]
    BY <1>5, LineTaken
  <2>2. Waiting /\ input[1][1] \in {"beat", "full"}
    <3>1. Head(input) = input[1]
      BY <1>5, LineTaken
    <3> QED BY <1>5, <3>1 DEF SkipBeat, ReadFullResync, Waiting
  <2>3. ASSUME source.step # "streaming" PROVE InputWaits'
    <3>1. source.fed = 0 /\ \A i \in 1..Len(input) : input[i][1] \in {"beat", "full"}
      BY <2>2, <2>3 DEF InputWaits
    <3>2. ASSUME NEW i \in 1..Len(input') PROVE input'[i][1] \in {"beat", "full"}
      <4>1. 1 + i \in 1..Len(input)
        BY <2>1
      <4> QED BY <2>1, <3>1, <4>1
    <3> QED BY <2>1, <2>3, <3>1, <3>2 DEF InputWaits
  <2>4. ASSUME source.step = "streaming" PROVE InputWaits'
    <3>1. PICK h \in 1..Len(input) : HeaderAt(h)
      BY <2>2, <2>4 DEF InputWaits
    <3>2. h # 1
      BY <2>2, <3>1 DEF HeaderAt
    <3> DEFINE k == h - 1
    <3>3. k \in 1..Len(input') /\ k \in Nat /\ h = 1 + k
      BY <2>1, <3>2
    <3>4. input'[k] = <<IF opts'.eof THEN "eof" ELSE "size", 0>>
      BY <1>0, <2>1, <3>1, <3>3 DEF HeaderAt
    <3>5. Len(input') = k + PayloadEnd' + Ends'[source'.fed]
      <4>1. Len(input) = h + PayloadEnd + Ends[source.fed] /\ Ends[source.fed] \in Nat
        BY <3>1, EndsFacts, Fields DEF HeaderAt
      <4> QED BY <1>0, <1>1, <2>1, <3>3, <4>1
    <3>6. ASSUME NEW i \in 1..Len(input'), i < k PROVE input'[i][1] \in {"beat", "full"}
      <4>1. 1 + i \in 1..Len(input) /\ 1 + i < h
        BY <2>1, <3>3, <3>6
      <4> QED BY <2>1, <3>1, <4>1 DEF HeaderAt, Preamble
    <3>7. ASSUME NEW i \in 1..(Len(input') - k) PROVE input'[k + i] = Flow(opts'.eof, i)
      <4>1. k + i \in 1..Len(input') /\ 1 + (k + i) = h + i /\ i \in 1..(Len(input) - h)
        BY <2>1, <3>3
      <4>2. input'[k + i] = input[h + i]
        BY <2>1, <4>1
      <4>3. input[h + i] = Flow(opts.eof, i)
        BY <3>1, <4>1 DEF HeaderAt
      <4> QED BY <1>0, <4>2, <4>3
    <3> HIDE DEF k
    <3>8. \A c \in 1..Len(input') : c = k => HeaderAt(c)'
      BY <3>4, <3>5, <3>6, <3>7 DEF HeaderAt, Preamble
    <3> QED BY <2>1, <2>4, <3>3, <3>8 DEF InputWaits
  <2> QED BY <2>3, <2>4
<1>6. ASSUME SendPSync PROVE InputWaits'
  <2>1. input' = input /\ input = <<>> /\ source.step = "idle" /\ Waiting
    BY <1>6 DEF SendPSync, Stages, Waiting
  <2>2. source.fed = 0 /\ source'.fed = source.fed /\ source'.step = "asked" /\ Len(input) = 0
    BY <1>6, <2>1, Records DEF SendPSync, InputWaits
  <2> QED BY <2>1, <2>2 DEF InputWaits
<1>7. ASSUME UNCHANGED <<source, input>>, Waiting' => Waiting PROVE InputWaits'
  <2>1. CASE Waiting'
    <3>1. \A h \in 1..Len(input') : HeaderAt(h) => HeaderAt(h)'
      BY <1>0, <1>7 DEF HeaderAt, Preamble
    <3> QED BY <1>7, <2>1, <3>1 DEF InputWaits
  <2>2. CASE ~ Waiting'
    BY <2>2 DEF InputWaits
  <2> QED BY <2>1, <2>2
<1>8. ASSUME CheckContext \/ BgsaveInProgress \/ MeetPayload \/ Send \/ Follow \/ OpenWriter \/ StoreOrStop \/ Rotate
             \/ CountReceived \/ OpenTimeout \/ SendAck \/ Cancel \/ Panic \/ UNCHANGED vars
      PROVE  UNCHANGED <<source, input>> /\ (Waiting' => Waiting)
  BY <1>8 DEF CheckContext, BgsaveInProgress, MeetPayload, Send, Follow, OpenWriter, StoreOrStop, Rotate,
         CountReceived, OpenTimeout, SendAck, Cancel, Panic, vars, Waiting, HandshakeKeeps, SendKeeps, FileKeeps,
         StoreKeeps, AckKeeps, main, StartSending, SendRdbEntry, EndRdb, SendBase, OpenReader, NextCommand,
         SendCommand, ReadFile, MeetEof, ReadCancelled, readNextFile
<1>9. ASSUME ReadHeader \/ Receive \/ \E n \in 1..ReadSize : Store(n) PROVE InputWaits'
  <2>1. ~ Waiting'
    BY <1>9 DEF ReadHeader, Receive, ReceiveSized, ReceiveUntilMarker, Store, StoreKeeps, main, Waiting, Stages
  <2> QED BY <2>1 DEF InputWaits
<1> QED
  BY <1>2, <1>3, <1>4, <1>5, <1>6, <1>7, <1>8, <1>9 DEF Next, Source, Handshake, Keep

\* A payload of known length is taken byte by byte, and no byte more.
LEMMA SizedEffect ==
    ASSUME Types, Stages, InputIsFlow, PayloadIsKept, NEW n \in 1..ReadSize, ReceiveSized(n)
    PROVE  /\ Len(input') = Len(input) - n /\ n <= Len(input) /\ \A i \in 1..Len(input') : input'[i] = input[n + i]
           /\ Len(rdb') = Len(rdb) + n /\ Len(rdb') <= PayloadLen /\ PayloadEnd = PayloadLen /\ ~ opts.eof
           /\ \A i \in 1..Len(rdb') : rdb'[i] = Flow(opts.eof, i)
           /\ pc = "size" /\ pc' = (IF Len(rdb') = PayloadLen THEN "start" ELSE "size")
<1>1. /\ Len(input) \in Nat /\ Len(rdb) \in Nat /\ PayloadLen \in Nat /\ n \in Nat
      /\ input \in Seq(Token) /\ rdb \in Seq(Token)
  <2>1. Len(input) \in Nat /\ Len(rdb) \in Nat /\ PayloadLen \in Nat \ {0} /\ ReadSize \in Nat \ {0}
    BY Fields
  <2>2. input \in Seq(Token) /\ rdb \in Seq(Token)
    BY Records
  <2> QED BY <2>1, <2>2
<1>2. /\ pc = "size" /\ n <= Least(PayloadLen - Len(rdb), Len(input)) /\ rdb' = rdb \o SubSeq(input, 1, n)
      /\ input' = SubSeq(input, n + 1, Len(input)) /\ pc' = IF Len(rdb') = PayloadLen THEN "start" ELSE "size"
  BY DEF ReceiveSized
<1>3. n \in 0..Len(input) /\ n <= Len(input) /\ Len(rdb) + n <= PayloadLen
  BY <1>1, <1>2 DEF Least
<1>4. Len(input') = Len(input) - n /\ \A i \in 1..Len(input') : input'[i] = input[n + i]
  BY <1>1, <1>2, <1>3, Dropped
<1> DEFINE new == SubSeq(input, 1, n)
<1>5. new \in Seq(Token) /\ Len(new) = n /\ \A i \in 1..n : new[i] = input[i]
  BY <1>1, <1>3, Taking
<1> HIDE DEF new
<1>6. /\ Len(rdb \o new) = Len(rdb) + Len(new) /\ \A i \in 1..Len(rdb) : (rdb \o new)[i] = rdb[i]
      /\ \A i \in 1..Len(new) : (rdb \o new)[Len(rdb) + i] = new[i]
  <2>1. rdb \in Seq(Token)
    BY <1>1
  <2>2. new \in Seq(Token)
    BY <1>5
  <2> QED BY <2>1, <2>2, Joined
<1>7. rdb' = rdb \o new
  BY <1>2 DEF new
<1>8. ~ opts.eof /\ PayloadEnd = PayloadLen /\ Taken = Len(rdb)
  BY <1>2 DEF PayloadIsKept, PayloadEnd, EndOfPayload, Taken
<1>9. ASSUME NEW i \in 1..Len(rdb') PROVE rdb'[i] = Flow(opts.eof, i)
  <2>1. CASE i <= Len(rdb)
    <3>1. i \in 1..Len(rdb)
      BY <1>1, <2>1
    <3> QED BY <1>2, <1>6, <1>7, <3>1 DEF PayloadIsKept, Receiving
  <2>2. CASE i > Len(rdb)
    <3>1. i - Len(rdb) \in 1..n /\ Len(rdb) + (i - Len(rdb)) = i /\ i - Len(rdb) \in 1..Len(input)
      BY <1>1, <1>3, <1>5, <1>6, <1>7, <2>2
    <3>2. rdb'[i] = input[i - Len(rdb)]
      BY <1>5, <1>6, <1>7, <3>1
    <3>3. input[i - Len(rdb)] = Flow(opts.eof, Taken + (i - Len(rdb)))
      BY <1>2, <3>1 DEF InputIsFlow, Receiving
    <3> QED BY <1>8, <3>1, <3>2, <3>3
  <2>3. i <= Len(rdb) \/ i > Len(rdb)
    BY <1>1, <1>5, <1>6, <1>7
  <2> QED BY <2>1, <2>2, <2>3
<1>10. Len(rdb') = Len(rdb) + n /\ Len(rdb') <= PayloadLen
  BY <1>3, <1>5, <1>6, <1>7
<1> QED BY <1>2, <1>3, <1>4, <1>8, <1>9, <1>10

\* A payload of unknown length: the file gets what is known not to be the marker, and
\* the marker is found where the source has put it.
LEMMA MarkerEffect ==
    ASSUME Types, Stages, InputIsFlow, PayloadIsKept, NEW n \in 1..ReadSize, ReceiveUntilMarker(n)
    PROVE  /\ Len(input') = Len(input) - n /\ n <= Len(input) /\ \A i \in 1..Len(input') : input'[i] = input[n + i]
           /\ pc = "eof" /\ opts.eof /\ Len(rdb') \in Nat
           /\ \A i \in 1..Len(rdb') : rdb'[i] = Flow(opts.eof, i)
           /\ \/ pc' = "start" /\ Len(rdb') = PayloadLen /\ PayloadEnd = Len(rdb) + Len(tail) + n
              \/ /\ pc' = "eof" /\ Len(rdb') + Len(tail') = Len(rdb) + Len(tail) + n
                 /\ \A i \in 1..Len(tail') : tail'[i] = Flow(opts.eof, Len(rdb') + i)
<1>1. /\ Len(input) \in Nat /\ Len(rdb) \in Nat /\ Len(tail) \in Nat /\ PayloadLen \in Nat /\ n \in Nat
      /\ MarkerLen \in Nat \ {0} /\ input \in Seq(Token) /\ rdb \in Seq(Token) /\ tail \in Seq(Token)
  <2>1. /\ Len(input) \in Nat /\ Len(rdb) \in Nat /\ Len(tail) \in Nat /\ PayloadLen \in Nat \ {0}
        /\ ReadSize \in Nat \ {0} /\ MarkerLen \in Nat \ {0}
    BY Fields
  <2>2. input \in Seq(Token) /\ rdb \in Seq(Token) /\ tail \in Seq(Token)
    BY Records
  <2> QED BY <2>1, <2>2
<1> DEFINE new == SubSeq(input, 1, n)
           buf == tail \o new
           long == Len(buf) >= MarkerLen
           found == long /\ Last40(buf) = Tokens("mark", MarkerLen)
<1>2. /\ pc = "eof" /\ n <= Len(input) /\ input' = SubSeq(input, n + 1, Len(input))
      /\ rdb' = IF long THEN rdb \o Cut(buf, MarkerLen) ELSE rdb
      /\ tail' = IF found THEN <<>> ELSE IF long THEN Last40(buf) ELSE buf
      /\ pc' = IF found THEN "start" ELSE "eof"
  BY DEF ReceiveUntilMarker
<1>3. n \in 0..Len(input)
  BY <1>1, <1>2
<1>4. Len(input') = Len(input) - n /\ \A i \in 1..Len(input') : input'[i] = input[n + i]
  BY <1>1, <1>2, <1>3, Dropped
<1>5. new \in Seq(Token) /\ Len(new) = n /\ \A i \in 1..n : new[i] = input[i]
  BY <1>1, <1>3, Taking
<1> HIDE DEF new
<1>6. /\ buf \in Seq(Token) /\ Len(buf) = Len(tail) + Len(new) /\ \A i \in 1..Len(tail) : buf[i] = tail[i]
      /\ \A i \in 1..Len(new) : buf[Len(tail) + i] = new[i]
  <2>1. tail \in Seq(Token)
    BY <1>1
  <2>2. new \in Seq(Token)
    BY <1>5
  <2> QED BY <2>1, <2>2, Joined
<1> HIDE DEF buf
<1>7. opts.eof /\ PayloadEnd = PayloadLen + MarkerLen /\ Taken = Len(rdb) + Len(tail)
  BY <1>2 DEF PayloadIsKept, PayloadEnd, EndOfPayload, Taken
<1>8. ASSUME NEW i \in 1..Len(buf) PROVE buf[i] = Flow(opts.eof, Len(rdb) + i)
  <2>1. CASE i <= Len(tail)
    <3>1. i \in 1..Len(tail)
      BY <1>1, <2>1
    <3> QED BY <1>2, <1>6, <3>1 DEF PayloadIsKept
  <2>2. CASE i > Len(tail)
    <3> DEFINE j == i - Len(tail)
    <3>1. j \in 1..Len(new) /\ j \in 1..n /\ Len(tail) + j = i /\ j \in 1..Len(input) /\ Taken + j = Len(rdb) + i
      BY <1>1, <1>3, <1>5, <1>6, <1>7, <2>2
    <3>2. buf[i] = input[j]
      BY <1>5, <1>6, <3>1
    <3>3. input[j] = Flow(opts.eof, Taken + j)
      BY <1>2, <3>1 DEF InputIsFlow, Receiving
    <3> QED BY <3>1, <3>2, <3>3
  <2>3. i <= Len(tail) \/ i > Len(tail)
    BY <1>1, <1>5, <1>6
  <2> QED BY <2>1, <2>2, <2>3
<1>9. CASE ~ long
  <2>1. rdb' = rdb /\ tail' = buf /\ pc' = "eof"
    BY <1>2, <1>9
  <2>2. \A i \in 1..Len(rdb) : rdb[i] = Flow(opts.eof, i)
    BY <1>2 DEF PayloadIsKept, Receiving
  <2>3. Len(rdb') + Len(tail') = Len(rdb) + Len(tail) + n
    BY <2>1, <1>1, <1>5, <1>6
  <2> QED BY <1>1, <1>2, <1>4, <1>7, <1>8, <2>1, <2>2, <2>3
<1>10. CASE long
  <2> DEFINE m == Len(buf) - MarkerLen
             cut == SubSeq(buf, 1, m)
             last == SubSeq(buf, m + 1, Len(buf))
  <2>1. m \in 0..Len(buf) /\ m \in Nat /\ Len(buf) \in Nat
    BY <1>1, <1>5, <1>6, <1>10
  <2>2. cut \in Seq(Token) /\ Len(cut) = m /\ \A i \in 1..m : cut[i] = buf[i]
    <3>1. buf \in Seq(Token)
      BY <1>6
    <3> HIDE DEF m
    <3> QED BY <2>1, <3>1, Taking
  <2>3. last \in Seq(Token) /\ Len(last) = Len(buf) - m /\ \A i \in 1..Len(last) : last[i] = buf[m + i]
    <3>1. buf \in Seq(Token)
      BY <1>6
    <3> HIDE DEF m
    <3> QED BY <2>1, <3>1, Dropped
  <2>4. Cut(buf, MarkerLen) = cut /\ Last40(buf) = last
    BY DEF Cut, Last40
  <2> HIDE DEF cut, last
  <2>5. rdb' = rdb \o cut
    BY <1>2, <1>10, <2>4
  <2>6. /\ Len(rdb \o cut) = Len(rdb) + Len(cut) /\ \A i \in 1..Len(rdb) : (rdb \o cut)[i] = rdb[i]
        /\ \A i \in 1..Len(cut) : (rdb \o cut)[Len(rdb) + i] = cut[i]
    <3>1. rdb \in Seq(Token)
      BY <1>1
    <3>2. cut \in Seq(Token)
      BY <2>2
    <3> QED BY <3>1, <3>2, Joined
  <2>7. Len(rdb') = Len(rdb) + m
    BY <2>2, <2>5, <2>6
  <2>8. ASSUME NEW i \in 1..Len(rdb') PROVE rdb'[i] = Flow(opts.eof, i)
    <3>1. CASE i <= Len(rdb)
      <4>1. i \in 1..Len(rdb)
        BY <1>1, <3>1
      <4> QED BY <1>2, <2>5, <2>6, <4>1 DEF PayloadIsKept, Receiving
    <3>2. CASE i > Len(rdb)
      <4> DEFINE j == i - Len(rdb)
      <4>1. j \in 1..m /\ j \in 1..Len(cut) /\ j \in 1..Len(buf) /\ Len(rdb) + j = i
        BY <1>1, <2>1, <2>2, <2>7, <3>2
      <4>2. rdb'[i] = buf[j]
        BY <2>2, <2>5, <2>6, <4>1
      <4> QED BY <1>8, <4>1, <4>2
    <3>3. i <= Len(rdb) \/ i > Len(rdb)
      BY <1>1, <2>1, <2>7
    <3> QED BY <3>1, <3>2, <3>3
  <2>9. ASSUME NEW i \in 1..Len(last) PROVE last[i] = Flow(opts.eof, Len(rdb') + i)
    <3>1. m + i \in 1..Len(buf) /\ Len(rdb) + (m + i) = Len(rdb') + i
      <4> DEFINE b == Len(buf)
                 r == Len(rdb)
                 r2 == Len(rdb')
                 l == Len(last)
      <4>1. m \in Nat /\ b \in Nat /\ r \in Nat /\ r2 = r + m /\ l = b - m /\ m <= b
        BY <1>1, <2>1, <2>3, <2>7
      <4>2. i \in 1..l
        OBVIOUS
      <4> HIDE DEF b, r, r2, l, m
      <4>3. m + i \in 1..b /\ r + (m + i) = r2 + i
        BY <4>1, <4>2
      <4> QED BY <4>3 DEF b, r, r2
    <3> QED BY <1>8, <2>3, <3>1
  <2>10. CASE found
    <3>1. last = Tokens("mark", MarkerLen) /\ pc' = "start"
      BY <1>2, <2>4, <2>10
    <3>2. last[1] = <<"mark", 1>> /\ 1 \in 1..Len(last)
      <4>1. 1 \in 1..MarkerLen /\ MarkerLen \in Nat
        BY <1>1
      <4>2. Tokens("mark", MarkerLen)[1] = <<"mark", 1>> /\ Len(Tokens("mark", MarkerLen)) = MarkerLen
        BY <4>1, TokensFacts DEF Kind
      <4> QED BY <3>1, <4>1, <4>2
    <3>3. Flow(opts.eof, Len(rdb') + 1) = <<"mark", 1>>
      BY <2>9, <3>2
    <3> DEFINE k == Len(rdb') + 1
    <3>4. k \in Nat /\ Flow(opts.eof, k) = <<"mark", 1>>
      BY <1>1, <2>1, <2>7, <3>3
    <3>5. Len(rdb') = PayloadLen
      <4>1. Len(rdb') \in Nat
        BY <1>1, <2>1, <2>7
      <4> HIDE DEF k
      <4>2. ~ (k <= PayloadLen) /\ k <= EndOfPayload(opts.eof)
        BY <3>4 DEF Flow
      <4>3. <<"mark", k - PayloadLen>> = <<"mark", 1>>
        BY <3>4, <4>2 DEF Flow
      <4>4. k - PayloadLen = 1
        BY <4>3
      <4> QED BY <1>1, <3>4, <4>1, <4>4 DEF k
    <3>6. PayloadEnd = Len(rdb) + Len(tail) + n
      <4>1. Len(buf) = Len(tail) + n /\ Len(rdb) + m = PayloadLen
        BY <1>5, <1>6, <2>7, <3>5
      <4> QED BY <1>1, <1>7, <2>1, <4>1
    <3> QED BY <1>1, <1>2, <1>4, <1>7, <2>8, <3>1, <3>5, <3>6
  <2>11. CASE ~ found
    <3>1. tail' = last /\ pc' = "eof"
      BY <1>2, <1>10, <2>4, <2>11
    <3>2. Len(rdb') + Len(tail') = Len(rdb) + Len(tail) + n /\ Len(rdb') \in Nat
      <4>1. Len(buf) = Len(tail) + n /\ Len(tail') = Len(buf) - m
        BY <1>5, <1>6, <2>3, <3>1
      <4> QED BY <1>1, <2>1, <2>7, <4>1
    <3> QED BY <1>2, <1>4, <1>7, <2>8, <2>9, <3>1, <3>2
  <2> QED BY <2>10, <2>11
<1> QED BY <1>9, <1>10

\* The header is the first line that is neither a heartbeat nor a reply.
LEMMA HeaderEffect ==
    ASSUME Types, Stages, InputWaits, ReadHeader
    PROVE  /\ pc' = (IF opts.eof THEN "eof" ELSE "size") /\ source' = source /\ source.step = "streaming"
           /\ rdb' = <<>> /\ tail' = <<>>
           /\ Len(input') = PayloadEnd + Ends[source.fed]
           /\ \A i \in 1..Len(input') : input'[i] = Flow(opts.eof, i)
<1>1. /\ Len(input) \in Nat \ {0} /\ Len(input') = Len(input) - 1 /\ Head(input) = input[1]
      /\ \A i \in 1..Len(input') : input'[i] = input[1 + i]
  <2>1. input \in Seq(Token)
    BY Records
  <2>2. input # <<>> /\ input' = Tail(input)
    BY DEF ReadHeader
  <2> QED BY <2>1, <2>2, Shortened
<1>2. /\ Waiting /\ rdb' = <<>> /\ tail' = <<>> /\ source' = source /\ Head(input)[1] \in {"size", "eof"}
      /\ pc' = Head(input)[1]
  BY DEF ReadHeader, Waiting, Stages
<1>3. 1 \in 1..Len(input) /\ input[1][1] \notin {"beat", "full"}
  BY <1>1, <1>2
<1>4. source.step = "streaming" /\ \E h \in 1..Len(input) : HeaderAt(h)
  BY <1>2, <1>3 DEF InputWaits
<1>5. PICK h \in 1..Len(input) : HeaderAt(h)
  BY <1>4
<1>6. h = 1
  <2>1. ~ (1 < h)
    BY <1>3, <1>5 DEF HeaderAt, Preamble
  <2> QED BY <2>1
<1>7. /\ input[1] = <<IF opts.eof THEN "eof" ELSE "size", 0>>
      /\ Len(input) = 1 + PayloadEnd + Ends[source.fed]
      /\ \A i \in 1..(Len(input) - 1) : input[1 + i] = Flow(opts.eof, i)
  BY <1>5, <1>6 DEF HeaderAt
<1>8. Len(input') = PayloadEnd + Ends[source.fed]
  <2>1. PayloadEnd \in Nat /\ Ends[source.fed] \in Nat
    BY Fields, EndsFacts
  <2> QED BY <1>1, <1>7, <2>1
<1>9. pc' = IF opts.eof THEN "eof" ELSE "size"
  BY <1>1, <1>2, <1>7
<1> QED BY <1>1, <1>2, <1>4, <1>7, <1>8, <1>9

\* Storing takes bytes from the connection.
LEMMA StoreEffect ==
    ASSUME Types, Stages, NEW n \in 1..ReadSize, Store(n)
    PROVE  /\ n \in Nat \ {0} /\ n <= Len(input) /\ Len(input') = Len(input) - n
           /\ \A i \in 1..Len(input') : input'[i] = input[n + i]
           /\ writer'.name = writer.name /\ writer'.offset = writer.offset + n /\ writer'.size = writer.size + n
           /\ writer'.n = n /\ Opened /\ DOMAIN files' = DOMAIN files
           /\ wpc = "read" /\ wpc' = "stored" /\ pc' = pc /\ start' = start /\ source' = source /\ rdb' = rdb
           /\ tail' = tail
<1>1. Len(input) \in Nat /\ ReadSize \in Nat
  BY Fields
<1>2. input \in Seq(Token) /\ writer \in [name : Nat, offset : Nat, size : Nat, n : Nat]
  BY Records
<1>3. /\ input' = SubSeq(input, n + 1, Len(input)) /\ n <= Least(Len(input), ReadSize)
      /\ writer' = [writer EXCEPT !.offset = @ + n, !.size = @ + n, !.n = n] /\ wpc = "read" /\ wpc' = "stored"
      /\ pc' = pc /\ start' = start /\ source' = source /\ rdb' = rdb /\ tail' = tail
      /\ files' = [files EXCEPT ![writer.name] = @ \o [i \in 1..n |-> input[i][2]]]
  BY DEF Store, StoreKeeps, main
<1>4. n \in 0..Len(input) /\ n <= Len(input) /\ n \in Nat \ {0}
  BY <1>1, <1>3 DEF Least
<1>5. Len(input') = Len(input) - n /\ \A i \in 1..Len(input') : input'[i] = input[n + i]
  BY <1>2, <1>3, <1>4, Dropped
<1>6. /\ writer'.name = writer.name /\ writer'.offset = writer.offset + n /\ writer'.size = writer.size + n
      /\ writer'.n = n
  BY <1>2, <1>3
<1>7. Opened /\ DOMAIN files' = DOMAIN files
  BY <1>3 DEF Stages
<1> QED BY <1>3, <1>4, <1>5, <1>6, <1>7

\* What arrives goes on where the goroutines have stopped.
LEMMA FlowStep ==
    ASSUME Types, Stages, InputInv, CountInv, [Next]_vars
    PROVE  InputIsFlow'
<1> DEFINE Cond == Receiving \/ pc = "start" \/ wpc # "none"
<1>0. opts' = opts /\ Ends' = Ends /\ PayloadEnd' = PayloadEnd
  BY ConfigStep DEF PayloadEnd
<1>1. PayloadEnd \in Nat /\ Ends[source.fed] \in Nat /\ Len(input) \in Nat /\ Len(rdb) \in Nat /\ Len(tail) \in Nat
      /\ writer.offset \in Nat /\ start \in Nat
  BY Fields, EndsFacts
<1>2. InputWaits /\ InputIsFlow /\ PayloadIsKept
  BY DEF InputInv
<1>3. Stages'
  BY StagesStep
<1>4. ASSUME Cond PROVE /\ source.step = "streaming" /\ Taken \in Int
                        /\ Len(input) = PayloadEnd + Ends[source.fed] - Taken
                        /\ \A i \in 1..Len(input) : input[i] = Flow(opts.eof, Taken + i)
  <2>1. Taken \in Int
    BY <1>1 DEF Taken, Stored
  <2> QED BY <1>2, <1>4, <2>1 DEF InputIsFlow
<1>5. ASSUME UNCHANGED <<source, input>>, Taken' = Taken, Cond' => Cond PROVE InputIsFlow'
  <2>1. CASE Cond'
    BY <1>0, <1>4, <1>5, <2>1 DEF InputIsFlow
  <2>2. CASE ~ Cond'
    BY <2>2 DEF InputIsFlow
  <2> QED BY <2>1, <2>2
<1>6. ASSUME NEW n \in Nat, n <= Len(input), Len(input') = Len(input) - n, source' = source, Cond,
             \A i \in 1..Len(input') : input'[i] = input[n + i], Taken' = Taken + n
      PROVE  InputIsFlow'
  <2>1. /\ Len(input) = PayloadEnd + Ends[source.fed] - Taken /\ Taken \in Int /\ source.step = "streaming"
        /\ \A i \in 1..Len(input) : input[i] = Flow(opts.eof, Taken + i)
    BY <1>4, <1>6
  <2>2. Len(input') = PayloadEnd' + Ends'[source'.fed] - Taken'
    <3> DEFINE l == Len(input)
               l2 == Len(input')
               e == Ends[source.fed]
    <3>1. /\ l \in Nat /\ e \in Nat /\ PayloadEnd \in Nat /\ Taken \in Int
          /\ l = PayloadEnd + e - Taken /\ l2 = l - n
      BY <1>1, <1>6, <2>1
    <3>2. PayloadEnd' = PayloadEnd /\ Ends'[source'.fed] = e /\ Taken' = Taken + n
      BY <1>0, <1>6
    <3> HIDE DEF l, l2, e
    <3>3. l2 = PayloadEnd + e - (Taken + n)
      BY <3>1
    <3> QED BY <3>2, <3>3 DEF l2
  <2>3. ASSUME NEW i \in 1..Len(input') PROVE input'[i] = Flow(opts'.eof, Taken' + i)
    <3>1. n + i \in 1..Len(input) /\ Taken + (n + i) = Taken' + i
      <4> DEFINE l == Len(input)
                 l2 == Len(input')
                 t == Taken
                 t2 == Taken'
      <4>1. /\ l \in Nat /\ l2 = l - n /\ n \in Nat /\ n <= l
            /\ t \in Int /\ t2 = t + n
        BY <1>1, <1>6, <2>1
      <4>2. i \in 1..l2
        OBVIOUS
      <4> HIDE DEF l, l2, t, t2
      <4>3. n + i \in 1..l /\ t + (n + i) = t2 + i
        BY <4>1, <4>2
      <4> QED BY <4>3 DEF l, t, t2
    <3>2. input[n + i] = Flow(opts.eof, Taken + (n + i))
      BY <2>1, <3>1
    <3> QED BY <1>0, <1>6, <3>1, <3>2
  <2> QED BY <1>6, <2>1, <2>2, <2>3 DEF InputIsFlow
<1>7. ASSUME ~ Cond' PROVE InputIsFlow'
  BY <1>7 DEF InputIsFlow
<1>8. ASSUME Heartbeat \/ (\E b \in Bases : FullResync(b)) \/ SourcePayload PROVE InputIsFlow'
  <2>1. source.step # "streaming" /\ pc' = pc /\ wpc' = wpc
    BY <1>8 DEF Heartbeat, FullResync, SourcePayload, SourceKeeps, main, storing
  <2>2. ~ Cond
    BY <1>4, <2>1
  <2>3. ~ Cond'
    BY <2>1, <2>2 DEF Receiving
  <2> QED BY <1>7, <2>3
<1>9. ASSUME SourceCommand PROVE InputIsFlow'
  <2>1. pc' = pc /\ wpc' = wpc /\ Taken' = Taken
    BY <1>0, <1>9 DEF SourceCommand, SourceKeeps, main, storing, Taken, Stored, Opened
  <2> DEFINE more == Ends[source.fed + 1] - Ends[source.fed]
  <2>2. /\ Ends[source.fed + 1] \in Nat /\ source'.fed = source.fed + 1 /\ source'.step = "streaming"
        /\ Ends[source.fed] < Ends[source.fed + 1]
        /\ Len(input') = Len(input) + more
        /\ \A i \in 1..Len(input) : input'[i] = input[i]
        /\ \A i \in 1..more : input'[Len(input) + i] = <<"aof", Ends[source.fed] + i>>
    BY <1>9, CommandEffect
  <2>3. CASE Cond
    <3>1. /\ Len(input) = PayloadEnd + Ends[source.fed] - Taken /\ Taken \in Int
          /\ \A i \in 1..Len(input) : input[i] = Flow(opts.eof, Taken + i)
      BY <1>4, <2>3
    <3>2. Len(input') = PayloadEnd' + Ends'[source'.fed] - Taken'
      <4>1. Len(input') = Len(input) + (Ends[source.fed + 1] - Ends[source.fed]) /\ Ends[source.fed + 1] \in Nat
        BY <2>2
      <4>2. PayloadEnd' + Ends'[source'.fed] - Taken' = PayloadEnd + Ends[source.fed + 1] - Taken
        BY <1>0, <2>1, <2>2
      <4> DEFINE l == Len(input)
                 l2 == Len(input')
                 e == Ends[source.fed]
                 e2 == Ends[source.fed + 1]
      <4>3. /\ l \in Nat /\ e \in Nat /\ e2 \in Nat /\ Taken \in Int /\ PayloadEnd \in Nat
            /\ l = PayloadEnd + e - Taken /\ l2 = l + (e2 - e)
        BY <1>1, <3>1, <4>1
      <4> HIDE DEF l, l2, e, e2
      <4>4. l2 = PayloadEnd + e2 - Taken
        BY <4>3
      <4> QED BY <4>2, <4>4 DEF l2, e2
    <3>3. ASSUME NEW i \in 1..Len(input') PROVE input'[i] = Flow(opts'.eof, Taken' + i)
      <4>0. more \in Nat /\ Len(input') = Len(input) + more
        BY <1>1, <2>2
      <4>1. CASE i <= Len(input)
        <5>1. i \in 1..Len(input)
          BY <1>1, <4>1
        <5> QED BY <1>0, <2>1, <2>2, <3>1, <5>1
      <4>2. CASE i > Len(input)
        <5> DEFINE j == i - Len(input)
        <5> HIDE DEF more
        <5>1. j \in 1..more /\ i = Len(input) + j
          BY <1>1, <4>0, <4>2
        <5>2. input'[i] = <<"aof", Ends[source.fed] + j>>
          BY <2>2, <5>1 DEF more
        <5> HIDE DEF j
        <5>3. Taken + i = PayloadEnd + (Ends[source.fed] + j) /\ j \in Nat \ {0}
          <6> DEFINE e == Ends[source.fed]
                     l == Len(input)
          <6>1. e \in Nat /\ l \in Nat /\ j \in Nat \ {0} /\ Taken \in Int /\ PayloadEnd \in Nat
            BY <1>1, <3>1, <4>0, <5>1
          <6>2. l = PayloadEnd + e - Taken /\ i = l + j
            BY <3>1, <5>1
          <6> HIDE DEF e, l
          <6>3. Taken + i = PayloadEnd + (e + j)
            BY <6>1, <6>2
          <6> QED BY <6>1, <6>3 DEF e
        <5> DEFINE m == Taken + i
        <5>4. m = PayloadEnd + (Ends[source.fed] + j)
          BY <5>3
        <5> HIDE DEF m
        <5>5. ~ (m <= PayloadLen) /\ ~ (m <= PayloadEnd) /\ m - PayloadEnd = Ends[source.fed] + j
          <6>1. PayloadLen \in Nat /\ PayloadEnd >= PayloadLen
            BY Fields
          <6> DEFINE e == Ends[source.fed]
          <6>2. e \in Nat /\ j \in Nat \ {0} /\ PayloadEnd \in Nat /\ m = PayloadEnd + (e + j)
            BY <1>1, <5>3, <5>4
          <6> HIDE DEF e
          <6>3. ~ (m <= PayloadLen) /\ ~ (m <= PayloadEnd) /\ m - PayloadEnd = e + j
            BY <6>1, <6>2
          <6> QED BY <6>3 DEF e
        <5>6. Flow(opts.eof, m) = <<"aof", m - PayloadEnd>>
          BY <5>5 DEF Flow, PayloadEnd
        <5>7. Flow(opts.eof, m) = <<"aof", Ends[source.fed] + j>>
          BY <5>5, <5>6
        <5> QED BY <1>0, <2>1, <5>2, <5>7 DEF m
      <4>3. i <= Len(input) \/ i > Len(input)
        BY <1>1, <4>0
      <4> QED BY <4>1, <4>2, <4>3
    <3> QED BY <2>2, <3>2, <3>3 DEF InputIsFlow
  <2>4. CASE ~ Cond
    <3>1. ~ Cond'
      BY <2>1, <2>4 DEF Receiving
    <3> QED BY <1>7, <3>1
  <2> QED BY <2>3, <2>4
<1>10. ASSUME CheckContext \/ BgsaveInProgress \/ SendPSync \/ SkipBeat \/ ReadFullResync \/ MeetPayload
       PROVE  InputIsFlow'
  <2>1. /\ Waiting /\ pc' \in {"closed", "info", "peek", "bgsave", "psync", "waitrdb"} /\ wpc' = wpc
    BY <1>10 DEF CheckContext, BgsaveInProgress, SendPSync, SkipBeat, ReadFullResync, MeetPayload, HandshakeKeeps,
         storing, Waiting
  <2>2. wpc = "none"
    BY <2>1 DEF Stages
  <2>3. ~ Cond'
    BY <2>1, <2>2 DEF Receiving
  <2> QED BY <1>7, <2>3
<1>11. ASSUME ReadHeader PROVE InputIsFlow'
  <2>1. /\ pc' = (IF opts.eof THEN "eof" ELSE "size") /\ source' = source /\ source.step = "streaming"
        /\ rdb' = <<>> /\ tail' = <<>>
        /\ Len(input') = PayloadEnd + Ends[source.fed]
        /\ \A i \in 1..Len(input') : input'[i] = Flow(opts.eof, i)
    BY <1>2, <1>11, HeaderEffect
  <2>2. Taken' = 0
    BY <2>1 DEF Taken
  <2>3. Len(input') = PayloadEnd' + Ends'[source'.fed] - Taken'
    BY <1>0, <1>1, <2>1, <2>2
  <2>4. ASSUME NEW i \in 1..Len(input') PROVE input'[i] = Flow(opts'.eof, Taken' + i)
    <3>1. Taken' + i = i
      BY <2>2
    <3> QED BY <1>0, <2>1, <3>1
  <2> QED BY <2>1, <2>3, <2>4 DEF InputIsFlow
<1>12. ASSUME NEW n \in 1..ReadSize, ReceiveSized(n) PROVE InputIsFlow'
  <2>1. /\ Len(input') = Len(input) - n /\ n <= Len(input) /\ \A i \in 1..Len(input') : input'[i] = input[n + i]
        /\ Len(rdb') = Len(rdb) + n /\ PayloadEnd = PayloadLen
        /\ pc = "size" /\ pc' = (IF Len(rdb') = PayloadLen THEN "start" ELSE "size")
    BY <1>2, <1>12, SizedEffect
  <2>2. source' = source /\ wpc' = wpc /\ files' = files
    BY <1>12 DEF ReceiveSized, HandshakeKeeps, storing
  <2>3. ~ Opened'
    BY <2>1, <2>2 DEF Stages, Receiving, Opened
  <2>4. Taken = Len(rdb) /\ Taken' = Len(rdb')
    <3>1. Stored' = 0
      BY <2>3 DEF Stored
    <3>2. CASE Len(rdb') = PayloadLen
      BY <1>0, <1>1, <2>1, <3>1, <3>2 DEF Taken
    <3>3. CASE Len(rdb') # PayloadLen
      BY <2>1, <3>3 DEF Taken
    <3> QED BY <2>1, <3>2, <3>3 DEF Taken
  <2>5. n \in Nat
    OBVIOUS
  <2> QED BY <1>6, <2>1, <2>2, <2>4, <2>5 DEF Receiving
<1>13. ASSUME NEW n \in 1..ReadSize, ReceiveUntilMarker(n) PROVE InputIsFlow'
  <2>1. /\ Len(input') = Len(input) - n /\ n <= Len(input) /\ \A i \in 1..Len(input') : input'[i] = input[n + i]
        /\ pc = "eof"
        /\ \/ pc' = "start" /\ PayloadEnd = Len(rdb) + Len(tail) + n
           \/ pc' = "eof" /\ Len(rdb') + Len(tail') = Len(rdb) + Len(tail) + n
    BY <1>2, <1>13, MarkerEffect
  <2>2. source' = source /\ wpc' = wpc /\ files' = files
    BY <1>13 DEF ReceiveUntilMarker, HandshakeKeeps, storing
  <2>3. ~ Opened'
    BY <2>1, <2>2 DEF Stages, Receiving, Opened
  <2>4. Taken = Len(rdb) + Len(tail) /\ Taken' = Len(rdb) + Len(tail) + n
    <3>1. Stored' = 0
      BY <2>3 DEF Stored
    <3>2. CASE pc' = "start"
      BY <1>0, <1>1, <2>1, <3>1, <3>2 DEF Taken
    <3>3. CASE pc' = "eof"
      BY <2>1, <3>3 DEF Taken
    <3> QED BY <2>1, <3>2, <3>3 DEF Taken
  <2>5. n \in Nat
    OBVIOUS
  <2> QED BY <1>6, <2>1, <2>2, <2>4, <2>5 DEF Receiving
<1>14. ASSUME StartSending PROVE InputIsFlow'
  <2>1. pc = "start" /\ pc' \notin {"size", "eof"} /\ UNCHANGED <<source, input, files>>
    BY <1>14 DEF StartSending, SendKeeps
  <2>2. Stored = 0 /\ Stored' = 0
    BY <2>1 DEF Stored, Stages, Opened
  <2>3. Taken' = Taken
    BY <1>0, <2>1, <2>2 DEF Taken
  <2> QED BY <1>5, <2>1, <2>3
<1>15. ASSUME SendRdbEntry \/ EndRdb \/ SendBase \/ OpenReader \/ NextCommand \/ SendCommand \/ Follow
       PROVE  InputIsFlow'
  <2>1. /\ UNCHANGED <<source, input, writer, start, wpc>> /\ pc \notin {"size", "eof"} /\ pc' \notin {"size", "eof", "start"}
        /\ (files' = files \/ (pc = "eof of file" /\ pc' = "reply"))
    BY <1>15 DEF SendRdbEntry, EndRdb, SendBase, OpenReader, NextCommand, SendCommand, Follow, SendKeeps, storing,
         ReadFile, MeetEof, ReadCancelled, readNextFile, FileKeeps
  <2>2. Opened' <=> Opened
    BY <1>3, <2>1 DEF Stages, Following, Opened
  <2>3. Taken' = Taken
    BY <1>0, <2>1, <2>2 DEF Taken, Stored
  <2>4. Cond' => Cond
    BY <2>1 DEF Receiving
  <2> QED BY <1>5, <2>1, <2>3, <2>4
<1>16. ASSUME OpenWriter PROVE InputIsFlow'
  <2>1. /\ UNCHANGED <<source, input, start, pc>> /\ wpc = "open" /\ wpc' = "top"
        /\ writer' = [writer EXCEPT !.offset = stat.received]
    BY <1>16 DEF OpenWriter, StoreKeeps, main
  <2>2. pc \notin {"size", "eof"} /\ ~ Opened /\ Opened'
    BY <1>3, <2>1 DEF Stages, Receiving
  <2>3. writer'.offset = stat.received
    BY <2>1, Records
  <2>4. stat.received = start + 0 - 0
    BY <2>1, <2>2 DEF CountInv, Stored, Uncounted
  <2>5. Stored = 0 /\ Stored' = 0
    BY <1>1, <2>1, <2>2, <2>3, <2>4 DEF Stored
  <2>6. Taken' = Taken
    BY <1>0, <2>1, <2>2, <2>5 DEF Taken
  <2> QED BY <1>5, <2>1, <2>6
<1>17. ASSUME NEW n \in 1..ReadSize, Store(n) PROVE InputIsFlow'
  <2>1. /\ n \in Nat \ {0} /\ n <= Len(input) /\ Len(input') = Len(input) - n
        /\ \A i \in 1..Len(input') : input'[i] = input[n + i]
        /\ writer'.offset = writer.offset + n /\ Opened /\ DOMAIN files' = DOMAIN files
        /\ wpc = "read" /\ pc' = pc /\ start' = start /\ source' = source
    BY <1>17, StoreEffect
  <2>2. pc \notin {"size", "eof"}
    BY <2>1 DEF Stages, Receiving
  <2>3. Stored = writer.offset - start /\ Stored' = writer.offset + n - start
    <3>1. Opened'
      BY <2>1 DEF Opened
    <3>2. Stored' = writer'.offset - start'
      BY <3>1 DEF Stored
    <3>3. Stored = writer.offset - start
      BY <2>1 DEF Stored
    <3>4. writer'.offset = writer.offset + n /\ start' = start
      BY <2>1
    <3>5. writer.offset \in Nat /\ start \in Nat /\ n \in Nat
      BY <1>1, <2>1
    <3> QED BY <3>2, <3>3, <3>4, <3>5
  <2>4. Taken = PayloadEnd + Stored /\ Taken' = PayloadEnd + Stored'
    BY <1>0, <2>1, <2>2 DEF Taken
  <2>5. Taken' = Taken + n
    <3>1. n \in Nat /\ writer.offset \in Nat /\ start \in Nat /\ PayloadEnd \in Nat
      BY <1>1, <2>1
    <3>2. Taken = PayloadEnd + (writer.offset - start) /\ Taken' = PayloadEnd + (writer.offset + n - start)
      BY <2>3, <2>4
    <3> QED BY <3>1, <3>2
  <2> QED BY <1>6, <2>1, <2>5
<1>18. ASSUME Rotate PROVE InputIsFlow'
  <2>1. UNCHANGED <<source, input, start, pc>> /\ wpc = "stored" /\ wpc' = "counting"
    BY <1>18 DEF Rotate, StoreKeeps, main
  <2>2. Opened /\ Opened'
    BY <1>3, <2>1 DEF Stages
  <2>3. writer'.offset = writer.offset
    <3>1. writer' = writer \/ writer' = [writer EXCEPT !.name = writer.offset, !.size = 0]
      BY <1>18 DEF Rotate
    <3> QED BY <3>1, Records
  <2>4. Stored' = Stored
    BY <2>1, <2>2, <2>3 DEF Stored
  <2>5. Taken' = Taken
    BY <1>0, <2>1, <2>4 DEF Taken, Stages, Receiving
  <2> QED BY <1>5, <2>1, <2>5
<1>19. ASSUME StoreOrStop \/ CountReceived \/ OpenTimeout \/ SendAck \/ Cancel \/ Panic \/ UNCHANGED vars
       PROVE  InputIsFlow'
  <2>1. UNCHANGED <<source, input, start, pc, rdb, tail, writer, files>> /\ (wpc' # "none" => wpc # "none")
    BY <1>19 DEF StoreOrStop, CountReceived, OpenTimeout, SendAck, Cancel, Panic, vars, StoreKeeps, AckKeeps, main, storing
  <2>2. Taken' = Taken
    BY <1>0, <2>1 DEF Taken, Stored, Opened
  <2>3. Cond' => Cond
    BY <2>1 DEF Receiving
  <2> QED BY <1>5, <2>1, <2>2, <2>3
<1> QED
  BY <1>8, <1>9, <1>10, <1>11, <1>12, <1>13, <1>14, <1>15, <1>16, <1>17, <1>18, <1>19
     DEF Next, Source, Handshake, Receive, Send, Keep

\* The RDB file gets the payload, whole and without the marker, and sendRDB goes through it.
LEMMA PayloadStep ==
    ASSUME Types, Stages, InputInv, [Next]_vars
    PROVE  PayloadIsKept'
<1>0. opts' = opts /\ Len(rdb) \in Nat /\ PayloadLen \in Nat \ {0}
  BY ConfigStep, Fields
<1>1. InputWaits /\ InputIsFlow /\ PayloadIsKept
  BY DEF InputInv
<1>2. ASSUME ReadHeader PROVE PayloadIsKept'
  <2>1. pc' = (IF opts.eof THEN "eof" ELSE "size") /\ rdb' = <<>> /\ tail' = <<>>
    BY <1>1, <1>2, HeaderEffect
  <2> QED BY <1>0, <2>1 DEF PayloadIsKept, Receiving
<1>3. ASSUME NEW n \in 1..ReadSize, ReceiveSized(n) PROVE PayloadIsKept'
  <2>1. /\ Len(rdb') = Len(rdb) + n /\ Len(rdb') <= PayloadLen /\ ~ opts.eof
        /\ \A i \in 1..Len(rdb') : rdb'[i] = Flow(opts.eof, i)
        /\ pc' = (IF Len(rdb') = PayloadLen THEN "start" ELSE "size")
    BY <1>1, <1>3, SizedEffect
  <2>2. pc' = "size" => Len(rdb') < PayloadLen
    <3>1. Len(rdb') \in Int
      BY <1>0, <2>1
    <3>2. pc' = "size" => Len(rdb') # PayloadLen
      BY <2>1
    <3> QED BY <1>0, <2>1, <3>1, <3>2
  <2> QED BY <1>0, <2>1, <2>2 DEF PayloadIsKept
<1>4. ASSUME NEW n \in 1..ReadSize, ReceiveUntilMarker(n) PROVE PayloadIsKept'
  <2>1. /\ opts.eof /\ \A i \in 1..Len(rdb') : rdb'[i] = Flow(opts.eof, i)
        /\ \/ pc' = "start" /\ Len(rdb') = PayloadLen
           \/ pc' = "eof" /\ \A i \in 1..Len(tail') : tail'[i] = Flow(opts.eof, Len(rdb') + i)
    BY <1>1, <1>4, MarkerEffect
  <2> QED BY <1>0, <2>1 DEF PayloadIsKept
<1>5. ASSUME StartSending PROVE PayloadIsKept'
  <2>1. pc = "start" /\ pc' \in {"rdb", "base"} /\ rdb' = rdb
    BY <1>5 DEF StartSending
  <2>2. Len(rdb) = PayloadLen /\ \A i \in 1..Len(rdb) : rdb[i] = Flow(opts.eof, i)
    BY <1>1, <2>1 DEF PayloadIsKept
  <2>3. ASSUME NEW i \in 1..Len(rdb) PROVE rdb[i] = <<"rdb", PayloadLen - Len(rdb) + i>>
    <3>1. i <= PayloadLen /\ PayloadLen - Len(rdb) + i = i
      BY <1>0, <2>2
    <3>2. Flow(opts.eof, i) = <<"rdb", i>>
      BY <3>1 DEF Flow
    <3> QED BY <2>2, <3>1, <3>2
  <2>4. Len(rdb) <= PayloadLen
    BY <1>0, <2>2
  <2> QED BY <2>1, <2>3, <2>4 DEF PayloadIsKept, Receiving
<1>6. ASSUME SendRdbEntry PROVE PayloadIsKept'
  <2>1. pc = "rdb" /\ pc' = "rdb" /\ rdb # <<>> /\ rdb' = Tail(rdb)
    BY <1>6 DEF SendRdbEntry
  <2>2. rdb \in Seq(Token)
    BY Records
  <2>3. Len(rdb) \in Nat \ {0} /\ Len(rdb') = Len(rdb) - 1 /\ \A i \in 1..Len(rdb') : rdb'[i] = rdb[1 + i]
    BY <2>1, <2>2, Shortened
  <2>4. Len(rdb) <= PayloadLen /\ \A i \in 1..Len(rdb) : rdb[i] = <<"rdb", PayloadLen - Len(rdb) + i>>
    BY <1>1, <2>1 DEF PayloadIsKept
  <2>5. ASSUME NEW i \in 1..Len(rdb') PROVE rdb'[i] = <<"rdb", PayloadLen - Len(rdb') + i>>
    <3>1. 1 + i \in 1..Len(rdb) /\ PayloadLen - Len(rdb) + (1 + i) = PayloadLen - Len(rdb') + i
      BY <1>0, <2>3
    <3> QED BY <2>3, <2>4, <3>1
  <2>6. Len(rdb') <= PayloadLen
    BY <1>0, <2>3, <2>4
  <2> QED BY <2>1, <2>5, <2>6 DEF PayloadIsKept, Receiving
<1>7. ASSUME pc' \notin {"size", "eof", "start", "rdb"} PROVE PayloadIsKept'
  BY <1>7 DEF PayloadIsKept, Receiving
<1>8. ASSUME UNCHANGED <<pc, rdb, tail>> PROVE PayloadIsKept'
  BY <1>0, <1>1, <1>8 DEF PayloadIsKept, Receiving
<1>9. ASSUME Source \/ CheckContext \/ BgsaveInProgress \/ SendPSync \/ SkipBeat \/ ReadFullResync \/ MeetPayload
             \/ EndRdb \/ SendBase \/ OpenReader \/ NextCommand \/ SendCommand \/ Follow \/ Keep
             \/ OpenTimeout \/ SendAck \/ Cancel \/ Panic \/ UNCHANGED vars
      PROVE  pc' \notin {"size", "eof", "start", "rdb"} \/ UNCHANGED <<pc, rdb, tail>>
  BY <1>9 DEF Source, Heartbeat, FullResync, SourcePayload, SourceCommand, SourceKeeps, CheckContext,
     BgsaveInProgress, SendPSync, SkipBeat, ReadFullResync, MeetPayload, HandshakeKeeps, EndRdb, SendBase, OpenReader,
     NextCommand, SendCommand, SendKeeps, Follow, ReadFile, MeetEof, ReadCancelled, readNextFile, FileKeeps, Keep,
     OpenWriter, StoreOrStop, Store, Rotate, CountReceived, StoreKeeps, OpenTimeout, SendAck, AckKeeps, Cancel,
     Panic, vars, main
<1> QED
  BY <1>2, <1>3, <1>4, <1>5, <1>6, <1>7, <1>8, <1>9 DEF Next, Handshake, Receive, Send

-----------------------------------------------------------------------------
(***************************************************************************)
(* The files.                                                              *)
(***************************************************************************)
\* What the invariant says of one file.
LEMMA FileFacts ==
    ASSUME Types, FilesInv, Opened
    PROVE  /\ writer.name \in DOMAIN files /\ reader.name \in DOMAIN files
           /\ \A f \in DOMAIN files :
                 /\ f \in Nat /\ (f = 0 \/ f > start) /\ reader.name <= f /\ f <= writer.name
                 /\ files[f] \in Seq(Nat) /\ Len(files[f]) \in Nat /\ First(start, f) \in Nat
                 /\ Past(f) = First(start, f) + Len(files[f]) /\ Past(f) \in Nat
           /\ First(start, writer.name) + Len(files[writer.name]) = writer.offset - start
           /\ writer.size = Len(files[writer.name]) /\ reader.pos <= Len(files[reader.name])
<1>1. FileNames /\ FileEnds
  BY DEF FilesInv
<1>2. start \in Nat /\ \A f \in DOMAIN files : f \in Nat /\ files[f] \in Seq(Nat) /\ Len(files[f]) \in Nat
  BY Fields
<1>3. /\ writer.name \in DOMAIN files /\ reader.name \in DOMAIN files
      /\ \A f \in DOMAIN files : (f = 0 \/ f > start) /\ reader.name <= f /\ f <= writer.name
  BY <1>1 DEF FileNames
<1>4. ASSUME NEW f \in DOMAIN files
      PROVE  First(start, f) \in Nat /\ Past(f) = First(start, f) + Len(files[f]) /\ Past(f) \in Nat
  <2>1. First(start, f) \in Nat
    BY <1>2, <1>3 DEF First
  <2>2. Past(f) = First(start, f) + Len(files[f])
    BY DEF Past
  <2> QED BY <1>2, <2>1, <2>2
<1>5. /\ First(start, writer.name) + Len(files[writer.name]) = writer.offset - start
      /\ writer.size = Len(files[writer.name]) /\ reader.pos <= Len(files[reader.name])
  BY <1>1 DEF FileEnds
<1> QED BY <1>2, <1>3, <1>4, <1>5

\* The first file.
LEMMA FilesAtOpen ==
    ASSUME Types, Stages, FilesInv, CountInv, OpenWriter
    PROVE  FilesInv'
<1>1. /\ wpc = "open" /\ files' = Created(0) /\ writer' = [writer EXCEPT !.offset = stat.received]
      /\ start' = start /\ reader' = reader
  BY DEF OpenWriter, StoreKeeps, main
<1>2. /\ ~ Opened /\ reader.name = 0 /\ reader.pos = 0 /\ writer = [name |-> 0, offset |-> 0, size |-> 0, n |-> 0]
  BY <1>1 DEF Stages
<1>3. stat.received = start + 0 - 0 /\ start \in Nat
  BY <1>1, <1>2, Fields DEF CountInv, Stored, Uncounted
<1>4. writer'.name = 0 /\ writer'.size = 0 /\ writer'.offset = start
  BY <1>1, <1>2, <1>3
<1>5. DOMAIN files' = {0} /\ files'[0] = <<>> /\ Len(files'[0]) = 0
  <2>1. files' = [f \in {0} |-> <<>>]
    BY <1>1, <1>2 DEF Created, Opened
  <2> QED BY <2>1
<1>6. FileNames'
  BY <1>1, <1>2, <1>4, <1>5 DEF FileNames
<1>7. FileBytes'
  BY <1>5 DEF FileBytes
<1>8. FileOrder'
  BY <1>5 DEF FileOrder
<1>9. FileEnds'
  <2>1. First(start', writer'.name) = 0 /\ files'[writer'.name] = <<>> /\ files'[reader'.name] = <<>>
    BY <1>1, <1>2, <1>4, <1>5 DEF First
  <2>2. writer'.offset - start' = 0
    BY <1>1, <1>3, <1>4
  <2> QED BY <1>1, <1>2, <1>4, <1>5, <2>1, <2>2 DEF FileEnds
<1>10. FilesCover'
  <2>1. First(start', reader'.name) = 0
    BY <1>1, <1>2 DEF First
  <2>2. writer'.offset - start' = 0
    BY <1>1, <1>3, <1>4
  <2>3. ~ \E k \in (First(start', reader'.name) + 1)..(writer'.offset - start') : TRUE
    BY <2>1, <2>2
  <2> QED BY <2>3 DEF FilesCover
<1> QED BY <1>6, <1>7, <1>8, <1>9, <1>10 DEF FilesInv

\* What is stored is appended to the last file: it is what comes next in the stream.
LEMMA FilesAtStore ==
    ASSUME Types, Stages, InputIsFlow, FilesInv, NEW n \in 1..ReadSize, Store(n)
    PROVE  FilesInv'
<1> DEFINE w == writer.name
           new == [i \in 1..n |-> input[i][2]]
           o == writer.offset - start
<1>1. /\ n \in Nat \ {0} /\ n <= Len(input) /\ Opened /\ DOMAIN files' = DOMAIN files
      /\ writer'.name = writer.name /\ writer'.offset = writer.offset + n /\ writer'.size = writer.size + n
      /\ wpc = "read" /\ start' = start
  BY StoreEffect
<1>2. files' = [files EXCEPT ![w] = files[w] \o new] /\ reader' = reader
  BY DEF Store, StoreKeeps
<1>3. /\ w \in DOMAIN files /\ reader.name \in DOMAIN files
      /\ First(start, w) + Len(files[w]) = o /\ writer.size = Len(files[w]) /\ reader.pos <= Len(files[reader.name])
  BY <1>1, FileFacts
<1>4. \A f \in DOMAIN files :
         /\ f \in Nat /\ (f = 0 \/ f > start) /\ reader.name <= f /\ f <= w
         /\ files[f] \in Seq(Nat) /\ Len(files[f]) \in Nat /\ First(start, f) \in Nat
         /\ Past(f) = First(start, f) + Len(files[f]) /\ Past(f) \in Nat
  BY <1>1, FileFacts
<1>5. start \in Nat /\ writer.offset \in Nat /\ reader.pos \in Nat /\ PayloadEnd \in Nat /\ PayloadEnd >= PayloadLen
      /\ PayloadLen \in Nat /\ Len(input) \in Nat
  BY Fields
<1>6. o \in Nat /\ First(start, w) \in Nat /\ Len(files[w]) \in Nat /\ w \in Nat
  <2>1. First(start, w) \in Nat /\ Len(files[w]) \in Nat /\ w \in Nat
    BY <1>3, <1>4
  <2> QED BY <1>3, <2>1
<1> HIDE DEF o
<1>7. ASSUME NEW i \in 1..n PROVE input[i][2] = o + i
  <2>1. i \in 1..Len(input) /\ i \in Nat /\ i >= 1
    BY <1>1, <1>5
  <2>2. pc \notin {"size", "eof"} /\ Taken = PayloadEnd + o
    BY <1>1 DEF Stages, Receiving, Taken, Stored, o
  <2>3. input[i] = Flow(opts.eof, Taken + i)
    BY <1>1, <2>1 DEF InputIsFlow
  <2> DEFINE m == Taken + i
  <2>4. ~ (m <= PayloadLen) /\ ~ (m <= PayloadEnd) /\ m - PayloadEnd = o + i
    BY <1>5, <1>6, <2>1, <2>2
  <2> HIDE DEF m
  <2>5. Flow(opts.eof, m) = <<"aof", m - PayloadEnd>>
    BY <2>4 DEF Flow, PayloadEnd
  <2> QED BY <2>3, <2>4, <2>5 DEF m
<1>8. new \in Seq(Nat) /\ Len(new) = n /\ \A i \in 1..n : new[i] = o + i
  <2>1. \A i \in 1..n : input[i][2] \in Nat
    BY <1>6, <1>7
  <2>2. new \in Seq(Nat)
    BY <1>1, <2>1, IsASeq
  <2> QED BY <1>1, <1>7, <2>2
<1> DEFINE old == files[w]
           joined == old \o new
<1> HIDE DEF new, old
<1>9. /\ joined \in Seq(Nat) /\ Len(joined) = Len(old) + Len(new)
      /\ \A i \in 1..Len(old) : joined[i] = old[i]
      /\ \A i \in 1..Len(new) : joined[Len(old) + i] = new[i]
  <2>1. old \in Seq(Nat)
    BY <1>3, <1>4 DEF old
  <2>2. new \in Seq(Nat)
    BY <1>8
  <2> QED BY <2>1, <2>2, Joined
<1> HIDE DEF joined
<1>10. files'[w] = joined /\ \A f \in DOMAIN files : f # w => files'[f] = files[f]
  BY <1>2, <1>3 DEF joined, old
<1>11. Len(files'[w]) = Len(files[w]) + n
  BY <1>8, <1>9, <1>10 DEF old
<1>12. \A f \in DOMAIN files : Len(files'[f]) \in Nat /\ Len(files'[f]) >= Len(files[f])
  <2>1. ASSUME NEW f \in DOMAIN files PROVE Len(files'[f]) \in Nat /\ Len(files'[f]) >= Len(files[f])
    <3>1. CASE f = w
      <4>1. Len(files'[w]) \in Nat /\ Len(files'[w]) >= Len(files[w])
        <5>1. n \in Nat
          BY <1>1
        <5> QED BY <1>6, <1>11, <5>1
      <4> QED BY <3>1, <4>1
    <3>2. CASE f # w
      <4>1. files'[f] = files[f] /\ Len(files[f]) \in Nat
        BY <1>4, <1>10, <3>2
      <4> QED BY <4>1
    <3> QED BY <3>1, <3>2
  <2> QED BY <2>1
<1>13. \A f \in DOMAIN files : Past(f)' = First(start, f) + Len(files'[f])
  BY <1>1 DEF Past
<1>14. FileNames'
  BY <1>1, <1>2, <1>3, <1>4 DEF FileNames
<1>15. FileBytes'
  <2>1. ASSUME NEW f \in DOMAIN files, NEW i \in 1..Len(files'[f]) PROVE files'[f][i] = First(start, f) + i
    <3>1. CASE f # w
      BY <1>1, <1>10, <2>1, <3>1 DEF FilesInv, FileBytes
    <3>2. CASE f = w /\ i <= Len(files[w])
      <4>1. i \in 1..Len(files[w])
        BY <1>6, <3>2
      <4>2. files[w][i] = First(start, w) + i
        BY <1>1, <1>3, <4>1 DEF FilesInv, FileBytes
      <4>3. files'[w][i] = files[w][i]
        BY <1>9, <1>10, <4>1 DEF old
      <4> QED BY <3>2, <4>2, <4>3
    <3>3. CASE f = w /\ i > Len(files[w])
      <4> DEFINE l == Len(files[w])
                 j == i - l
      <4>1. l \in Nat /\ i \in Nat /\ i <= l + n /\ i > l /\ n \in Nat
        BY <1>1, <1>6, <1>11, <3>3
      <4> HIDE DEF l
      <4>2. j \in 1..n /\ i = l + j /\ j \in Nat
        BY <4>1
      <4> HIDE DEF j
      <4>3. files'[w][i] = o + j
        BY <1>8, <1>9, <1>10, <4>2 DEF old, l
      <4>4. o = First(start, w) + l
        BY <1>3 DEF l
      <4>5. files'[w][i] = First(start, w) + i
        BY <1>6, <4>1, <4>2, <4>3, <4>4
      <4> QED BY <3>3, <4>5
    <3>4. i <= Len(files[w]) \/ i > Len(files[w])
      BY <1>6, <1>12
    <3> QED BY <3>1, <3>2, <3>3, <3>4
  <2> QED BY <1>1, <2>1 DEF FileBytes
<1>16. FileOrder'
  <2>1. ASSUME NEW f \in DOMAIN files, NEW g \in DOMAIN files, f < g PROVE Past(f)' <= First(start, g)
    <3>1. f # w
      BY <1>4, <1>6, <2>1
    <3>2. Past(f)' = Past(f)
      BY <1>4, <1>10, <1>13, <3>1
    <3> QED BY <1>1, <2>1, <3>2 DEF FilesInv, FileOrder
  <2> QED BY <1>1, <2>1 DEF FileOrder
<1>17. FileEnds'
  <2>1. First(start, w) + Len(files'[w]) = o + n
    BY <1>1, <1>3, <1>6, <1>11
  <2>2. o + n = writer'.offset - start'
    <3>1. writer'.offset = writer.offset + n /\ start' = start /\ n \in Nat
      BY <1>1
    <3> QED BY <1>5, <3>1 DEF o
  <2>3. writer'.size = Len(files'[w])
    BY <1>1, <1>3, <1>11
  <2>4. reader'.pos <= Len(files'[reader'.name])
    <3>1. Len(files[reader.name]) \in Nat /\ Len(files'[reader.name]) \in Nat
          /\ Len(files'[reader.name]) >= Len(files[reader.name])
      BY <1>3, <1>4, <1>12
    <3> QED BY <1>2, <1>3, <1>5, <3>1
  <2> QED BY <1>1, <2>1, <2>2, <2>3, <2>4 DEF FileEnds
<1>18. FilesCover'
  <2>1. writer'.offset - start' = o + n
    <3>1. writer'.offset = writer.offset + n /\ start' = start /\ n \in Nat
      BY <1>1
    <3> QED BY <1>5, <3>1 DEF o
  <2>2. ASSUME NEW k \in (First(start, reader.name) + 1)..(o + n)
        PROVE  \E f \in DOMAIN files : First(start, f) < k /\ k <= Past(f)'
    <3>0. First(start, reader.name) \in Nat /\ n \in Nat
      BY <1>1, <1>3, <1>4
    <3>1. CASE k <= o
      <4>1. k \in (First(start, reader.name) + 1)..o
        BY <1>6, <3>0, <3>1
      <4>2. PICK f \in DOMAIN files : First(start, f) < k /\ k <= Past(f)
        BY <1>1, <4>1 DEF FilesInv, FilesCover, o
      <4>3. Past(f) <= Past(f)' /\ Past(f)' \in Nat /\ Past(f) \in Nat
        <5>1. /\ Past(f) = First(start, f) + Len(files[f]) /\ Past(f)' = First(start, f) + Len(files'[f])
              /\ First(start, f) \in Nat /\ Len(files[f]) \in Nat /\ Len(files'[f]) \in Nat
              /\ Len(files'[f]) >= Len(files[f])
          BY <1>4, <1>12, <1>13
        <5> QED BY <5>1
      <4>4. k <= Past(f)'
        BY <3>0, <4>1, <4>2, <4>3
      <4> QED BY <4>2, <4>4
    <3>2. CASE k > o
      <4>1. First(start, w) < k /\ k <= First(start, w) + Len(files'[w])
        <5>1. First(start, w) + Len(files[w]) = o /\ Len(files'[w]) = Len(files[w]) + n
          BY <1>3, <1>11
        <5> QED BY <1>6, <3>0, <3>2, <5>1
      <4>2. \A f \in DOMAIN files : f = w => k <= Past(f)'
        BY <1>13, <4>1
      <4> HIDE DEF w
      <4> QED BY <1>3, <4>1, <4>2
    <3>3. k <= o \/ k > o
      BY <1>6, <3>0
    <3> QED BY <3>1, <3>2, <3>3
  <2> QED BY <1>1, <1>2, <2>1, <2>2 DEF FilesCover
<1> QED BY <1>14, <1>15, <1>16, <1>17, <1>18 DEF FilesInv

\* A new file is named by the offset behind the last byte stored, higher than every name in use.
LEMMA FilesAtRotate ==
    ASSUME Types, Stages, FilesInv, Rotate, writer.size > MaxFileSize
    PROVE  FilesInv'
<1> DEFINE w == writer.name
           c == writer.offset
<1>1. /\ wpc = "stored" /\ files' = Created(c) /\ writer' = [writer EXCEPT !.name = writer.offset, !.size = 0]
      /\ start' = start /\ reader' = reader
  BY DEF Rotate, StoreKeeps, main
<1>2. Opened
  BY <1>1 DEF Stages
<1>3. /\ w \in DOMAIN files /\ reader.name \in DOMAIN files
      /\ First(start, w) + Len(files[w]) = c - start /\ writer.size = Len(files[w]) /\ reader.pos <= Len(files[reader.name])
  BY <1>2, FileFacts
<1>4. \A f \in DOMAIN files :
         /\ f \in Nat /\ (f = 0 \/ f > start) /\ reader.name <= f /\ f <= w
         /\ files[f] \in Seq(Nat) /\ Len(files[f]) \in Nat /\ First(start, f) \in Nat
         /\ Past(f) = First(start, f) + Len(files[f]) /\ Past(f) \in Nat
  BY <1>2, FileFacts
<1>5. start \in Nat /\ c \in Nat /\ MaxFileSize \in Nat /\ w \in Nat /\ reader.name \in Nat
  BY Fields
<1>6. writer'.name = c /\ writer'.size = 0 /\ writer'.offset = c
  BY <1>1, Records
<1>7. First(start, w) \in Nat /\ Len(files[w]) \in Nat /\ Len(files[w]) > 0 /\ (w = 0 \/ w > start)
  <2>1. First(start, w) \in Nat /\ Len(files[w]) \in Nat /\ (w = 0 \/ w > start)
    BY <1>3, <1>4
  <2> QED BY <1>3, <1>5, <2>1
<1> HIDE DEF w, c
<1>8. c > start /\ c > w
  <2>1. c > start
    BY <1>3, <1>5, <1>7
  <2>2. CASE w = 0
    BY <1>5, <2>1, <2>2
  <2>3. CASE w # 0
    <3>1. First(start, w) = w - start
      BY <2>3 DEF First
    <3> QED BY <1>3, <1>5, <1>7, <3>1
  <2> QED BY <2>1, <2>2, <2>3
<1>9. c \notin DOMAIN files
  BY <1>4, <1>5, <1>8
<1>10. First(start, c) = c - start
  BY <1>5, <1>8 DEF First
<1>11. /\ DOMAIN files' = DOMAIN files \cup {c} /\ files'[c] = <<>> /\ Len(files'[c]) = 0
       /\ \A f \in DOMAIN files : files'[f] = files[f]
  BY <1>1, <1>9 DEF Created
<1>12. \A f \in DOMAIN files : Past(f)' = Past(f)
  BY <1>1, <1>11 DEF Past
<1>13. FileNames'
  <2>1. ASSUME NEW f \in DOMAIN files' PROVE (f = 0 \/ f > start) /\ reader.name <= f /\ f <= c
    <3>1. CASE f = c
      <4>1. reader.name <= w
        BY <1>3, <1>4
      <4> QED BY <1>5, <1>8, <3>1, <4>1
    <3>2. CASE f # c
      <4>1. f \in DOMAIN files
        BY <1>11, <3>2
      <4>2. f \in Nat /\ (f = 0 \/ f > start) /\ reader.name <= f /\ f <= w
        BY <1>4, <4>1
      <4> QED BY <1>5, <1>8, <4>2
    <3> QED BY <3>1, <3>2
  <2> QED BY <1>1, <1>3, <1>6, <1>11, <2>1 DEF FileNames
<1>14. FileBytes'
  BY <1>1, <1>2, <1>11 DEF FilesInv, FileBytes
<1>15. ASSUME NEW f \in DOMAIN files PROVE Past(f) <= c - start
  <2>1. f = w \/ f < w
    BY <1>4, <1>5
  <2>2. CASE f = w
    BY <1>3, <1>4, <1>5, <2>2
  <2>3. CASE f < w
    <3>1. Past(f) <= First(start, w)
      BY <1>2, <1>3, <2>3 DEF FilesInv, FileOrder
    <3>2. Past(f) \in Nat
      BY <1>4
    <3> QED BY <1>3, <1>5, <1>7, <3>1, <3>2
  <2> QED BY <2>1, <2>2, <2>3
<1>16. FileOrder'
  <2>1. ASSUME NEW f \in DOMAIN files', NEW g \in DOMAIN files', f < g PROVE Past(f)' <= First(start, g)
    <3>1. f # c
      <4>1. g = c \/ (g \in Nat /\ g <= w)
        BY <1>4, <1>11
      <4> QED BY <1>5, <1>8, <2>1, <4>1
    <3>2. f \in DOMAIN files
      BY <1>11, <3>1
    <3>3. CASE g = c
      BY <1>10, <1>12, <1>15, <3>2, <3>3
    <3>4. CASE g # c
      <4>1. g \in DOMAIN files
        BY <1>11, <3>4
      <4> QED BY <1>2, <1>12, <2>1, <3>2, <4>1 DEF FilesInv, FileOrder
    <3> QED BY <3>3, <3>4
  <2> QED BY <1>1, <2>1 DEF FileOrder
<1>17. FileEnds'
  <2>1. First(start', writer'.name) + Len(files'[writer'.name]) = writer'.offset - start'
    <3>1. First(start', writer'.name) = c - start /\ Len(files'[writer'.name]) = 0 /\ writer'.offset - start' = c - start
      BY <1>1, <1>6, <1>10, <1>11
    <3> QED BY <1>5, <3>1
  <2>2. reader'.pos <= Len(files'[reader'.name])
    BY <1>1, <1>3, <1>11
  <2> QED BY <1>6, <1>11, <2>1, <2>2 DEF FileEnds
<1>18. FilesCover'
  <2>1. \A k \in (First(start, reader.name) + 1)..(c - start) : \E f \in DOMAIN files : First(start, f) < k /\ k <= Past(f)
    BY <1>2 DEF FilesInv, FilesCover, c
  <2>2. \A k \in (First(start, reader.name) + 1)..(c - start) : \E f \in DOMAIN files' : First(start, f) < k /\ k <= Past(f)'
    BY <1>11, <1>12, <2>1
  <2> QED BY <1>1, <1>6, <2>2 DEF FilesCover
<1> QED BY <1>13, <1>14, <1>16, <1>17, <1>18 DEF FilesInv

\* The file named by the reader's offset is the next one: the reader has come to the end
\* of its own, and no file lies between.
LEMMA NextFile ==
    ASSUME Types, Stages, FilesInv, ReaderInv, Following, HasNext
    PROVE  /\ Opened /\ reader.name < reader.offset /\ First(start, reader.offset) = Past(reader.name)
           /\ reader.pos = Len(files[reader.name]) /\ Past(reader.name) \in Nat
           /\ \A f \in DOMAIN files : f # reader.name => reader.offset <= f
<1> DEFINE r == reader.name
           c == reader.offset
<1>1. Opened /\ c # r /\ c \in DOMAIN files
  BY DEF Stages, HasNext
<1>2. r \in DOMAIN files /\ reader.pos <= Len(files[r])
  BY <1>1, FileFacts
<1>3. \A f \in DOMAIN files :
         /\ f \in Nat /\ (f = 0 \/ f > start) /\ r <= f /\ Len(files[f]) \in Nat /\ First(start, f) \in Nat
         /\ Past(f) = First(start, f) + Len(files[f]) /\ Past(f) \in Nat
  BY <1>1, FileFacts
<1>4. start \in Nat /\ r \in Nat /\ c \in Nat /\ reader.pos \in Nat
  BY Fields
<1>5. c = start + First(start, r) + reader.pos
  BY DEF ReaderInv
<1> HIDE DEF r, c
<1>6. r < c /\ c > start
  <2>1. r <= c /\ (c = 0 \/ c > start)
    BY <1>1, <1>3
  <2> QED BY <1>1, <1>4, <2>1
<1>7. First(start, c) = First(start, r) + reader.pos
  <2>1. First(start, c) = c - start
    BY <1>4, <1>6 DEF First
  <2>2. First(start, r) \in Nat
    BY <1>2, <1>3
  <2> QED BY <1>4, <1>5, <2>1, <2>2
<1>8. Past(r) <= First(start, c)
  BY <1>1, <1>2, <1>6 DEF FilesInv, FileOrder
<1>9. reader.pos = Len(files[r]) /\ First(start, c) = Past(r) /\ Past(r) \in Nat
  <2>1. Len(files[r]) \in Nat /\ First(start, r) \in Nat /\ Past(r) = First(start, r) + Len(files[r])
    BY <1>2, <1>3
  <2> QED BY <1>2, <1>4, <1>7, <1>8, <2>1
<1>10. ASSUME NEW f \in DOMAIN files, f # r PROVE c <= f
  <2>1. SUFFICES ASSUME f < c PROVE FALSE
    <3>1. f \in Nat
      BY <1>3
    <3> QED BY <1>4, <2>1, <3>1
  <2>2. f \in Nat /\ (f = 0 \/ f > start) /\ r <= f /\ First(start, f) \in Nat /\ Past(f) \in Nat /\ Len(files[f]) \in Nat
        /\ Past(f) = First(start, f) + Len(files[f])
    BY <1>3
  <2>3. r < f /\ f > start
    BY <1>4, <1>10, <2>2
  <2>4. Past(r) <= First(start, f) /\ Past(f) <= First(start, c)
    BY <1>1, <1>2, <2>1, <2>3 DEF FilesInv, FileOrder
  <2>5. First(start, f) = First(start, c)
    BY <1>9, <2>2, <2>4
  <2>6. First(start, f) = f - start /\ First(start, c) = c - start
    BY <1>4, <1>6, <2>2, <2>3 DEF First
  <2>7. f - start = c - start
    BY <2>5, <2>6
  <2>8. f \in Nat
    BY <2>2
  <2> QED BY <1>4, <2>1, <2>7, <2>8
<1> QED BY <1>1, <1>6, <1>9, <1>10 DEF r, c

\* The reader leaves a file behind that it has read to its end.
LEMMA FilesAtNext ==
    ASSUME Types, Stages, FilesInv, ReaderInv, readNextFile, HasNext
    PROVE  FilesInv'
<1> DEFINE r == reader.name
           c == reader.offset
<1>1. /\ Following /\ reader' = [reader EXCEPT !.name = c, !.pos = 0] /\ UNCHANGED <<start, writer>>
      /\ files' = [f \in DOMAIN files \ {r} |-> files[f]]
  BY DEF readNextFile, SwitchTo, FileKeeps, storing, Following
<1>2. /\ Opened /\ r < c /\ First(start, c) = Past(r) /\ reader.pos = Len(files[r]) /\ Past(r) \in Nat
      /\ \A f \in DOMAIN files : f # r => c <= f
  BY <1>1, NextFile
<1>3. /\ writer.name \in DOMAIN files /\ r \in DOMAIN files
      /\ First(start, writer.name) + Len(files[writer.name]) = writer.offset - start
      /\ writer.size = Len(files[writer.name])
  BY <1>2, FileFacts
<1>4. \A f \in DOMAIN files :
         /\ f \in Nat /\ (f = 0 \/ f > start) /\ r <= f /\ f <= writer.name /\ Len(files[f]) \in Nat
         /\ First(start, f) \in Nat /\ Past(f) = First(start, f) + Len(files[f]) /\ Past(f) \in Nat
  BY <1>2, FileFacts
<1>5. start \in Nat /\ r \in Nat /\ c \in Nat /\ reader.pos \in Nat /\ writer.name \in Nat /\ writer.offset \in Nat
  BY Fields
<1>6. reader'.name = c /\ reader'.pos = 0
  BY <1>1, Records
<1>7. c \in DOMAIN files
  BY DEF HasNext
<1> HIDE DEF r, c
<1>8. DOMAIN files' = DOMAIN files \ {r} /\ \A f \in DOMAIN files' : files'[f] = files[f] /\ Past(f)' = Past(f)
  BY <1>1 DEF Past
<1>9. writer.name # r /\ c # r
  <2>1. c <= writer.name
    BY <1>4, <1>7
  <2> QED BY <1>2, <1>5, <2>1
<1>10. writer.name \in DOMAIN files' /\ c \in DOMAIN files'
  BY <1>3, <1>7, <1>8, <1>9
<1>11. FileNames'
  BY <1>1, <1>2, <1>4, <1>6, <1>8, <1>10 DEF FileNames
<1>12. FileBytes'
  BY <1>1, <1>2, <1>8 DEF FilesInv, FileBytes
<1>13. FileOrder'
  BY <1>1, <1>2, <1>8 DEF FilesInv, FileOrder
<1>14. FileEnds'
  <2>1. files'[writer.name] = files[writer.name] /\ Len(files'[c]) \in Nat
    BY <1>4, <1>7, <1>8, <1>10
  <2> QED BY <1>1, <1>3, <1>6, <2>1 DEF FileEnds
<1>15. FilesCover'
  <2>1. ASSUME NEW k \in (First(start, c) + 1)..(writer.offset - start)
        PROVE  \E f \in DOMAIN files' : First(start, f) < k /\ k <= Past(f)'
    <3>1. First(start, r) \in Nat /\ Past(r) = First(start, r) + Len(files[r]) /\ Len(files[r]) \in Nat
      BY <1>3, <1>4
    <3>2. k \in (First(start, r) + 1)..(writer.offset - start) /\ k > Past(r)
      BY <1>2, <1>5, <3>1
    <3>3. PICK f \in DOMAIN files : First(start, f) < k /\ k <= Past(f)
      BY <1>2, <3>2 DEF FilesInv, FilesCover, r
    <3>4. f # r
      BY <1>2, <1>5, <3>2, <3>3
    <3>5. f \in DOMAIN files' /\ Past(f)' = Past(f)
      BY <1>8, <3>4
    <3> QED BY <3>3, <3>5
  <2> QED BY <1>1, <1>6, <2>1 DEF FilesCover
<1> QED BY <1>11, <1>12, <1>13, <1>14, <1>15 DEF FilesInv

\* Every step of the two goroutines keeps the files.
LEMMA FilesStep ==
    ASSUME Types, Stages, InputInv, FilesInv, CountInv, ReaderInv, [Next]_vars
    PROVE  FilesInv'
<1>0. InputIsFlow
  BY DEF InputInv
<1>1. ASSUME UNCHANGED <<start, files, writer>>, reader'.name = reader.name, reader'.pos = reader.pos PROVE FilesInv'
  <2>1. CASE Opened
    <3>1. FileNames /\ FileBytes /\ FileOrder /\ FileEnds /\ FilesCover
      BY <2>1 DEF FilesInv
    <3>2. \A f : Past(f)' = Past(f)
      BY <1>1 DEF Past
    <3>3. FileNames' /\ FileBytes' /\ FileEnds'
      BY <1>1, <3>1 DEF FileNames, FileBytes, FileEnds
    <3>4. FileOrder'
      BY <1>1, <3>1, <3>2 DEF FileOrder
    <3>5. FilesCover'
      BY <1>1, <3>1, <3>2 DEF FilesCover
    <3> QED BY <3>3, <3>4, <3>5 DEF FilesInv
  <2>2. CASE ~ Opened
    BY <1>1, <2>2 DEF FilesInv, Opened
  <2> QED BY <2>1, <2>2
<1>2. ASSUME OpenWriter PROVE FilesInv'
  BY <1>2, FilesAtOpen
<1>3. ASSUME NEW n \in 1..ReadSize, Store(n) PROVE FilesInv'
  BY <1>0, <1>3, FilesAtStore
<1>4. ASSUME Rotate PROVE FilesInv'
  <2>1. CASE writer.size > MaxFileSize
    BY <1>4, <2>1, FilesAtRotate
  <2>2. CASE ~ (writer.size > MaxFileSize)
    <3>1. UNCHANGED <<start, files, writer, reader>>
      BY <1>4, <2>2 DEF Rotate, StoreKeeps, main
    <3> QED BY <1>1, <3>1
  <2> QED BY <2>1, <2>2
<1>5. ASSUME readNextFile PROVE FilesInv'
  <2>1. CASE HasNext
    BY <1>5, <2>1, FilesAtNext
  <2>2. CASE ~ HasNext
    <3>1. UNCHANGED <<start, files, writer, reader>>
      BY <1>5, <2>2 DEF readNextFile, FileKeeps, storing
    <3> QED BY <1>1, <3>1
  <2> QED BY <2>1, <2>2
<1>6. ASSUME ReadFile PROVE FilesInv'
  <2> DEFINE n == Least(Unread, ReadSize)
             part == SubSeq(files[reader.name], reader.pos + 1, reader.pos + n)
  <2>1. /\ UNCHANGED <<start, files, writer>> /\ Following /\ Unread > 0
        /\ reader' = [reader EXCEPT !.buf = @ \o part, !.pos = @ + n, !.offset = @ + n]
    BY <1>6 DEF ReadFile, FileKeeps, storing, Following
  <2>2. reader'.name = reader.name /\ reader'.pos = reader.pos + n
    <3> HIDE DEF n, part
    <3> QED BY <2>1, Records
  <2>3. Opened
    BY <2>1 DEF Stages
  <2>4. reader.pos + n <= Len(files[reader.name])
    <3>1. Len(files[reader.name]) \in Nat
      BY <2>3, FileFacts
    <3>2. reader.pos \in Nat /\ ReadSize \in Nat
      BY Fields
    <3>3. Unread = Len(files[reader.name]) - reader.pos
      BY DEF Unread
    <3> QED BY <3>1, <3>2, <3>3 DEF Least
  <2> HIDE DEF n
  <2>5. FileNames /\ FileBytes /\ FileOrder /\ FileEnds /\ FilesCover
    BY <2>3 DEF FilesInv
  <2>6. \A f : Past(f)' = Past(f)
    BY <2>1 DEF Past
  <2>7. FileNames' /\ FileBytes'
    BY <2>1, <2>2, <2>5 DEF FileNames, FileBytes
  <2>8. FileEnds'
    BY <2>1, <2>2, <2>4, <2>5 DEF FileEnds
  <2>9. FileOrder'
    BY <2>1, <2>5, <2>6 DEF FileOrder
  <2>10. FilesCover'
    BY <2>1, <2>2, <2>5, <2>6 DEF FilesCover
  <2> QED BY <2>7, <2>8, <2>9, <2>10 DEF FilesInv
<1>7. ASSUME StartSending PROVE FilesInv'
  <2>1. ~ Opened /\ files' = files
    BY <1>7 DEF StartSending, SendKeeps, Stages
  <2> QED BY <2>1 DEF FilesInv, Opened
<1>8. ASSUME OpenReader \/ SendCommand PROVE FilesInv'
  <2>1. UNCHANGED <<start, files, writer>>
    BY <1>8 DEF OpenReader, SendCommand, SendKeeps, storing
  <2>2. reader'.name = reader.name /\ reader'.pos = reader.pos
    <3>1. \/ reader' = [reader EXCEPT !.offset = start]
          \/ reader' = [reader EXCEPT !.buf = SubSeq(@, Size(CommandAt(Head(reader.buf))) + 1, Len(@))]
      BY <1>8 DEF OpenReader, SendCommand
    <3> QED BY <3>1, Records
  <2> QED BY <1>1, <2>1, <2>2
<1>9. ASSUME Source \/ Handshake \/ SendRdbEntry \/ EndRdb \/ SendBase \/ NextCommand \/ MeetEof \/ ReadCancelled
             \/ StoreOrStop \/ CountReceived \/ OpenTimeout \/ SendAck \/ Cancel \/ Panic \/ UNCHANGED vars
      PROVE  UNCHANGED <<start, files, writer, reader>>
  BY <1>9 DEF Source, Heartbeat, FullResync, SourcePayload, SourceCommand, SourceKeeps, Handshake, CheckContext,
     BgsaveInProgress, SendPSync, SkipBeat, ReadFullResync, MeetPayload, ReadHeader, Receive, ReceiveSized,
     ReceiveUntilMarker, HandshakeKeeps, SendRdbEntry, EndRdb, SendBase, NextCommand, SendKeeps, MeetEof,
     ReadCancelled, FileKeeps, StoreOrStop, CountReceived, StoreKeeps, OpenTimeout, SendAck, AckKeeps, Cancel,
     Panic, vars, main, storing
<1> QED
  BY <1>1, <1>2, <1>3, <1>4, <1>5, <1>6, <1>7, <1>8, <1>9 DEF Next, Send, Follow, Keep

-----------------------------------------------------------------------------
(***************************************************************************)
(* The offsets.                                                            *)
(***************************************************************************)
\* AofReceivedOffset is the start and what was stored, but for bytes not yet counted.
LEMMA CountStep ==
    ASSUME Types, Stages, FilesInv, CountInv, [Next]_vars
    PROVE  CountInv'
<1>0. /\ start \in Nat /\ acked \in Nat /\ stat.received \in Nat /\ writer.offset \in Nat /\ writer.n \in Nat
      /\ stat \in [received : Nat, sent : Int]
  BY Fields, Records
<1>1. Stages'
  BY StagesStep
<1>2. Stored \in Nat /\ Uncounted \in Nat
  <2>1. CASE Opened
    <3>1. /\ First(start, writer.name) + Len(files[writer.name]) = writer.offset - start
          /\ First(start, writer.name) \in Nat /\ Len(files[writer.name]) \in Nat
      BY <2>1, FileFacts
    <3> QED BY <1>0, <2>1, <3>1 DEF Stored, Uncounted
  <2>2. CASE ~ Opened
    BY <1>0, <2>2 DEF Stored, Uncounted
  <2> QED BY <2>1, <2>2
<1>3. ASSUME UNCHANGED <<start, acked, wpc>>, stat'.received = stat.received, Stored' = Stored, Uncounted' = Uncounted
      PROVE  CountInv'
  BY <1>3 DEF CountInv
<1>4. ASSUME wpc = "none", wpc' = "none" PROVE CountInv'
  <2>1. acked' = 0 /\ ~ Opened'
    BY <1>1, <1>4 DEF Stages
  <2>2. Stored' = 0
    BY <2>1 DEF Stored
  <2>3. start' \in Nat
    <3>1. start' = start \/ start' = stat.received
      BY DEF Next, vars, Source, Heartbeat, FullResync, SourcePayload, SourceCommand, SourceKeeps,
         Handshake, CheckContext, BgsaveInProgress, SendPSync, SkipBeat, ReadFullResync, MeetPayload,
         ReadHeader, Receive, ReceiveSized, ReceiveUntilMarker, HandshakeKeeps, Send, StartSending,
         SendRdbEntry, EndRdb, SendBase, OpenReader, NextCommand, SendCommand, SendKeeps,
         Follow, ReadFile, MeetEof, ReadCancelled, readNextFile, FileKeeps, Keep, OpenWriter, StoreOrStop,
         Store, Rotate, CountReceived, StoreKeeps, OpenTimeout, SendAck, AckKeeps, Cancel, Panic, main
    <3> QED BY <1>0, <3>1
  <2>4. acked' <= start' + Stored'
    <3>1. \A n \in Nat : n + 0 = n /\ 0 <= n
      OBVIOUS
    <3>2. start' + 0 = start' /\ 0 <= start'
      BY <2>3, <3>1
    <3> QED BY <2>1, <2>2, <3>2
  <2> QED BY <1>4, <2>4 DEF CountInv
<1>5. ASSUME StartSending PROVE CountInv'
  <2>1. start' = stat.received /\ stat' = stat /\ acked' = acked /\ wpc' \in {"open", "closed"} /\ wpc = "none"
    BY <1>5 DEF StartSending, SendKeeps, Stages
  <2>2. acked = 0 /\ ~ Opened'
    BY <1>5, <2>1 DEF Stages, StartSending, SendKeeps, Opened
  <2>3. Stored' = 0 /\ Uncounted' = 0
    BY <2>1, <2>2 DEF Stored, Uncounted
  <2> QED BY <1>0, <2>1, <2>2, <2>3 DEF CountInv
<1>6. ASSUME OpenWriter PROVE CountInv'
  <2>1. /\ UNCHANGED <<start, acked, stat>> /\ wpc = "open" /\ wpc' = "top"
        /\ writer' = [writer EXCEPT !.offset = stat.received]
    BY <1>6 DEF OpenWriter, StoreKeeps, main
  <2>2. ~ Opened /\ Opened' /\ writer'.offset = stat.received
    BY <1>1, <2>1, Records DEF Stages
  <2>3. stat.received = start + 0 - 0 /\ acked <= stat.received
    BY <2>1, <2>2 DEF CountInv, Stored, Uncounted
  <2>4. Stored' = stat.received - start /\ Uncounted' = 0
    BY <2>1, <2>2 DEF Stored, Uncounted
  <2> QED BY <1>0, <2>1, <2>3, <2>4 DEF CountInv
<1>7. ASSUME NEW n \in 1..ReadSize, Store(n) PROVE CountInv'
  <2>1. /\ n \in Nat \ {0} /\ writer'.offset = writer.offset + n /\ writer'.n = n /\ Opened
        /\ DOMAIN files' = DOMAIN files /\ wpc = "read" /\ wpc' = "stored" /\ start' = start
    BY <1>7, StoreEffect
  <2>2. stat' = stat /\ acked' = acked
    BY <1>7 DEF Store, StoreKeeps
  <2>3. stat.received = start + Stored - 0 /\ acked <= stat.received
    BY <2>1 DEF CountInv, Uncounted
  <2>4. Stored = writer.offset - start
    BY <2>1 DEF Stored
  <2>5. Opened'
    BY <2>1 DEF Opened
  <2>6. Stored' = writer'.offset - start'
    BY <2>5 DEF Stored
  <2>7. Stored' = Stored + n
    <3>1. writer'.offset = writer.offset + n /\ start' = start /\ n \in Nat
      BY <2>1
    <3> QED BY <1>0, <2>4, <2>6, <3>1
  <2>8. Uncounted' = n
    BY <2>1 DEF Uncounted
  <2>9. stat'.received = start' + Stored' - Uncounted' /\ acked' <= start' + Stored'
    <3>1. n \in Nat /\ start' = start
      BY <2>1
    <3> QED BY <1>0, <1>2, <2>2, <2>3, <2>7, <2>8, <3>1
  <2> QED BY <2>2, <2>3, <2>9 DEF CountInv
<1>8. ASSUME Rotate PROVE CountInv'
  <2>1. UNCHANGED <<start, acked, stat>> /\ wpc = "stored" /\ wpc' = "counting"
    BY <1>8 DEF Rotate, StoreKeeps, main
  <2>2. writer'.offset = writer.offset /\ writer'.n = writer.n
    <3>1. writer' = writer \/ writer' = [writer EXCEPT !.name = writer.offset, !.size = 0]
      BY <1>8 DEF Rotate
    <3> QED BY <3>1, Records
  <2>3. Opened /\ Opened'
    BY <1>1, <2>1 DEF Stages
  <2>4. Stored' = Stored /\ Uncounted' = Uncounted
    BY <2>1, <2>2, <2>3 DEF Stored, Uncounted
  <2> QED BY <2>1, <2>4 DEF CountInv
<1>9. ASSUME CountReceived PROVE CountInv'
  <2>1. /\ UNCHANGED <<start, acked, writer, files>> /\ wpc = "counting" /\ wpc' = "top"
        /\ stat' = [stat EXCEPT !.received = @ + writer.n]
    BY <1>9 DEF CountReceived, StoreKeeps, main
  <2>2. stat'.received = stat.received + writer.n
    BY <1>0, <2>1
  <2>3. Stored' = Stored /\ Uncounted' = 0 /\ Uncounted = writer.n
    BY <2>1 DEF Stored, Uncounted, Opened
  <2>4. stat.received = start + Stored - writer.n /\ acked <= stat.received
    BY <2>1, <2>3 DEF CountInv
  <2>5. stat'.received = start + Stored
    BY <1>0, <1>2, <2>2, <2>4
  <2> QED BY <1>0, <1>2, <2>1, <2>3, <2>4, <2>5 DEF CountInv
<1>10. ASSUME StoreOrStop PROVE CountInv'
  <2>1. UNCHANGED <<start, acked, writer, files, stat>> /\ wpc = "top" /\ wpc' \in {"closed", "read"}
    BY <1>10 DEF StoreOrStop, StoreKeeps, main
  <2>2. Stored' = Stored /\ Uncounted' = 0 /\ Uncounted = 0
    BY <2>1 DEF Stored, Uncounted, Opened
  <2> QED BY <2>1, <2>2 DEF CountInv
<1>11. ASSUME SendAck PROVE CountInv'
  <2>1. UNCHANGED <<start, writer, files, stat, wpc>> /\ wpc # "none" /\ acked' = stat.received
    BY <1>11 DEF SendAck, AckKeeps, main, storing
  <2>2. Stored' = Stored /\ Uncounted' = Uncounted
    BY <2>1 DEF Stored, Uncounted, Opened
  <2>3. stat.received = start + Stored - Uncounted
    BY <2>1 DEF CountInv
  <2> QED BY <1>0, <1>2, <2>1, <2>2, <2>3 DEF CountInv
<1>12. ASSUME SendRdbEntry \/ EndRdb \/ SendBase \/ OpenReader \/ NextCommand \/ SendCommand \/ Follow PROVE CountInv'
  <2>1. /\ UNCHANGED <<start, acked, writer, wpc>> /\ (files' = files \/ (pc = "eof of file" /\ pc' = "reply"))
        /\ (stat' = stat \/ stat' = [stat EXCEPT !.sent = SentOffset(Size(CommandAt(Head(reader.buf))))])
    BY <1>12 DEF SendRdbEntry, EndRdb, SendBase, OpenReader, NextCommand, SendCommand, Follow, SendKeeps, storing,
         ReadFile, MeetEof, ReadCancelled, readNextFile, FileKeeps
  <2>2. stat'.received = stat.received
    BY <1>0, <2>1
  <2>3. Opened' <=> Opened
    BY <1>1, <2>1 DEF Stages, Following, Opened
  <2>4. Stored' = Stored /\ Uncounted' = Uncounted
    BY <2>1, <2>3 DEF Stored, Uncounted
  <2> QED BY <1>3, <2>1, <2>2, <2>4
<1>13. ASSUME Source \/ OpenTimeout \/ Cancel \/ Panic \/ UNCHANGED vars PROVE CountInv'
  <2>1. UNCHANGED <<start, acked, writer, wpc, stat, files>>
    BY <1>13 DEF Source, Heartbeat, FullResync, SourcePayload, SourceCommand, SourceKeeps, OpenTimeout, Cancel,
       Panic, vars, main, storing
  <2>2. Stored' = Stored /\ Uncounted' = Uncounted
    BY <2>1 DEF Stored, Uncounted, Opened
  <2> QED BY <1>3, <2>1, <2>2
<1>14. ASSUME Handshake PROVE CountInv'
  <2>1. wpc' = wpc /\ (Waiting \/ Receiving)
    BY <1>14 DEF Handshake, CheckContext, BgsaveInProgress, SendPSync, SkipBeat, ReadFullResync, MeetPayload,
       ReadHeader, Receive, ReceiveSized, ReceiveUntilMarker, HandshakeKeeps, storing, Waiting, Receiving
  <2>2. wpc = "none"
    BY <2>1 DEF Stages
  <2> QED BY <1>4, <2>1, <2>2
<1> QED
  BY <1>5, <1>6, <1>7, <1>8, <1>9, <1>10, <1>11, <1>12, <1>13, <1>14 DEF Next, Send, Keep

\* A command leaves the parser: what is sent as its offset is where it ends.
LEMMA SendEffect ==
    ASSUME Types, Stages, InputIsFlow, FilesInv, ReaderInv, SendCommand
    PROVE  \E i \in 1..Len(stream) :
              /\ Read - Len(reader.buf) = Ends[i - 1] /\ CommandAt(Head(reader.buf)) = i
              /\ SentOffset(Size(i)) = start + Ends[i] /\ Size(i) \in 0..Len(reader.buf)
              /\ Following /\ Following' /\ UNCHANGED <<start, files>>
              /\ reader'.name = reader.name /\ reader'.pos = reader.pos /\ reader'.offset = reader.offset
              /\ Len(reader'.buf) = Len(reader.buf) - Size(i) /\ Read' = Read
              /\ Read - Len(reader'.buf) = Ends[i] /\ Read \in Nat /\ Len(reader'.buf) \in Nat
              /\ \A j \in 1..Len(reader'.buf) : reader'.buf[j] = reader.buf[Size(i) + j]
<1>1. Following /\ Following' /\ reader.buf # <<>> /\ UNCHANGED <<start, files>>
  BY DEF SendCommand, Following, Complete, SendKeeps
<1>2. PICK i \in 1..Len(stream) : Read - Len(reader.buf) = Ends[i - 1] /\ CommandAt(Head(reader.buf)) = i
  BY <1>1, CommandHere
<1>3. Len(reader.buf) \in Nat /\ reader.offset \in Nat /\ start \in Nat
      /\ reader \in [name : Nat, pos : Nat, offset : Nat, buf : Seq(Nat)]
  BY Fields, Records
<1>4. Read \in Nat
  BY <1>1, ReadBound
<1>5. Ends[i] \in Nat /\ Ends[i - 1] \in Nat /\ Size(i) = Ends[i] - Ends[i - 1] /\ Size(i) \in Nat
  <2>1. i \in 0..Len(stream) /\ i - 1 \in 0..Len(stream)
    BY EndsFacts
  <2> QED BY <2>1, EndsFacts
<1>6. Size(i) \in 0..Len(reader.buf)
  <2>1. Len(reader.buf) >= Size(i)
    BY <1>2 DEF SendCommand, Complete
  <2> QED BY <1>3, <1>5, <2>1
<1>7. reader' = [reader EXCEPT !.buf = SubSeq(reader.buf, Size(i) + 1, Len(reader.buf))]
  BY <1>2 DEF SendCommand
<1>8. /\ reader'.name = reader.name /\ reader'.pos = reader.pos /\ reader'.offset = reader.offset
      /\ reader'.buf = SubSeq(reader.buf, Size(i) + 1, Len(reader.buf))
  BY <1>3, <1>7
<1>9. /\ Len(reader'.buf) = Len(reader.buf) - Size(i)
      /\ \A j \in 1..Len(reader'.buf) : reader'.buf[j] = reader.buf[Size(i) + j]
  <2>1. reader.buf \in Seq(Nat)
    BY <1>3
  <2> DEFINE rest == SubSeq(reader.buf, Size(i) + 1, Len(reader.buf))
  <2>2. Len(rest) = Len(reader.buf) - Size(i) /\ \A j \in 1..Len(rest) : rest[j] = reader.buf[Size(i) + j]
    BY <1>6, <2>1, Dropped
  <2> QED BY <1>8, <2>2
<1>10. Read' = Read /\ Read = reader.offset - start
  BY <1>1, <1>8 DEF Read
<1>11. Read - Len(reader'.buf) = Ends[i] /\ Len(reader'.buf) \in Nat
  <2>1. Len(reader'.buf) = Len(reader.buf) - Size(i) /\ Size(i) <= Len(reader.buf)
    BY <1>3, <1>6, <1>9
  <2> DEFINE l == Len(reader.buf)
             l2 == Len(reader'.buf)
             z == Size(i)
             a == Ends[i - 1]
             b == Ends[i]
  <2>2. l \in Nat /\ z \in Nat /\ a \in Nat /\ b \in Nat /\ Read \in Nat
    BY <1>3, <1>4, <1>5
  <2>3. l2 = l - z /\ z <= l /\ z = b - a /\ Read - l = a
    BY <1>2, <1>5, <2>1
  <2> HIDE DEF l, l2, z, a, b
  <2>4. Read - l2 = b /\ l2 \in Nat
    BY <2>2, <2>3
  <2> QED BY <2>4 DEF l2, b
<1>12. SentOffset(Size(i)) = start + Ends[i]
  <2>1. SentOffset(Size(i)) = reader.offset - (Len(reader.buf) - Size(i))
    BY DEF SentOffset
  <2> DEFINE l == Len(reader.buf)
             z == Size(i)
             a == Ends[i - 1]
             b == Ends[i]
  <2>2. l \in Nat /\ z \in Nat /\ a \in Nat /\ b \in Nat /\ Read \in Nat /\ reader.offset \in Nat /\ start \in Nat
    BY <1>3, <1>4, <1>5
  <2>3. z = b - a /\ Read - l = a /\ Read = reader.offset - start
    BY <1>2, <1>5, <1>10
  <2> HIDE DEF l, z, a, b
  <2>4. l = Read - a /\ Read = reader.offset - start
    BY <2>2, <2>3
  <2>5. l - z = Read - b
    BY <2>2, <2>3, <2>4
  <2>6. reader.offset = start + Read
    BY <2>2, <2>4
  <2>7. reader.offset - (l - z) = start + b
    BY <2>2, <2>5, <2>6
  <2> QED BY <2>1, <2>7 DEF l, z, b
<1>13. reader'.name = reader.name /\ reader'.pos = reader.pos /\ reader'.offset = reader.offset
  BY <1>8
<1> WITNESS i \in 1..Len(stream)
<1> QED BY <1>1, <1>2, <1>4, <1>6, <1>9, <1>10, <1>11, <1>12, <1>13

\* Reading appends the next bytes of the stream to the buffer of the parser.
LEMMA ReadEffect ==
    ASSUME Types, Stages, InputIsFlow, FilesInv, ReaderInv, ReadFile
    PROVE  \E n \in Nat :
              /\ Following /\ Following' /\ UNCHANGED <<start, stream>> /\ reader'.name = reader.name
              /\ reader'.pos = reader.pos + n /\ reader'.offset = reader.offset + n /\ Read' = Read + n /\ Read \in Nat
              /\ Len(reader'.buf) = Len(reader.buf) + n /\ Len(reader.buf) \in Nat
              /\ \A i \in 1..Len(reader.buf) : reader'.buf[i] = reader.buf[i]
              /\ \A i \in 1..n : reader'.buf[Len(reader.buf) + i] = Read + i
<1> DEFINE n == Least(Unread, ReadSize)
           r == reader.name
           part == SubSeq(files[r], reader.pos + 1, reader.pos + n)
<1>1. /\ Following /\ Following' /\ UNCHANGED <<start, stream>> /\ Unread > 0
      /\ reader' = [reader EXCEPT !.buf = reader.buf \o part, !.pos = reader.pos + n, !.offset = reader.offset + n]
  BY DEF ReadFile, FileKeeps, config, Following
<1>2. /\ Opened /\ Read = First(start, r) + reader.pos /\ First(start, r) \in Nat /\ Read \in Nat
      /\ r \in DOMAIN files /\ files[r] \in Seq(Nat) /\ Len(files[r]) \in Nat /\ reader.pos <= Len(files[r])
  BY <1>1, ReadBound
<1>3. /\ reader.pos \in Nat /\ reader.offset \in Nat /\ start \in Nat /\ ReadSize \in Nat /\ Len(reader.buf) \in Nat
      /\ reader \in [name : Nat, pos : Nat, offset : Nat, buf : Seq(Nat)]
  BY Fields, Records
<1>4. n \in Nat /\ reader.pos + n <= Len(files[r])
  <2>1. Unread = Len(files[r]) - reader.pos
    BY DEF Unread
  <2>2. Len(files[r]) \in Nat /\ reader.pos \in Nat /\ reader.pos <= Len(files[r]) /\ ReadSize \in Nat
    BY <1>2, <1>3
  <2> HIDE DEF r
  <2> QED BY <2>1, <2>2 DEF Least
<1> HIDE DEF n
<1>5. part \in Seq(Nat) /\ Len(part) = n /\ \A i \in 1..n : part[i] = Read + i
  <2> DEFINE f == files[r]
             p == reader.pos
  <2>1. f \in Seq(Nat) /\ p \in Nat /\ n \in Nat /\ Len(f) \in Nat /\ p + n <= Len(f)
    BY <1>2, <1>3, <1>4
  <2>2. \A i \in 1..Len(f) : f[i] \in Nat
    BY <2>1, ElementOfSeq
  <2>3. \A i \in 1..Len(f) : f[i] = First(start, r) + i
    BY <1>2 DEF FilesInv, FileBytes
  <2> HIDE DEF f, p
  <2>4. \A i \in (p + 1)..(p + n) : f[i] \in Nat
    BY <2>1, <2>2
  <2>5. /\ SubSeq(f, p + 1, p + n) \in Seq(Nat)
        /\ Len(SubSeq(f, p + 1, p + n)) = IF p + 1 <= p + n THEN (p + n) - (p + 1) + 1 ELSE 0
        /\ \A i \in 1..((p + n) - (p + 1) + 1) : SubSeq(f, p + 1, p + n)[i] = f[(p + 1) + i - 1]
    <3>1. p + 1 \in Int /\ p + n \in Int
      BY <2>1
    <3> QED BY <2>1, <2>4, <3>1, SubSeqProperties
  <2>6. Len(SubSeq(f, p + 1, p + n)) = n
    BY <2>1, <2>5
  <2>7. ASSUME NEW i \in 1..n PROVE SubSeq(f, p + 1, p + n)[i] = Read + i
    <3>1. i \in 1..((p + n) - (p + 1) + 1) /\ (p + 1) + i - 1 = p + i /\ p + i \in 1..Len(f)
      BY <2>1
    <3>2. SubSeq(f, p + 1, p + n)[i] = First(start, r) + (p + i)
      BY <2>3, <2>5, <3>1
    <3>3. First(start, r) \in Nat /\ p \in Nat /\ Read = First(start, r) + p
      BY <1>2, <2>1 DEF p
    <3>4. First(start, r) + (p + i) = (First(start, r) + p) + i
      BY <3>3
    <3> QED BY <3>2, <3>3, <3>4
  <2> QED BY <2>5, <2>6, <2>7 DEF f, p
<1> HIDE DEF part
<1>6. /\ reader'.name = reader.name /\ reader'.pos = reader.pos + n /\ reader'.offset = reader.offset + n
      /\ reader'.buf = reader.buf \o part
  BY <1>1, <1>3
<1> DEFINE buf == reader.buf
<1>7. /\ Len(buf \o part) = Len(buf) + Len(part) /\ \A i \in 1..Len(buf) : (buf \o part)[i] = buf[i]
      /\ \A i \in 1..Len(part) : (buf \o part)[Len(buf) + i] = part[i]
  <2>1. buf \in Seq(Nat)
    BY <1>3
  <2>2. part \in Seq(Nat)
    BY <1>5
  <2> HIDE DEF buf
  <2> QED BY <2>1, <2>2, Joined
<1>8. Read' = Read + n
  <2>1. Read = reader.offset - start /\ Read' = reader'.offset - start'
    BY <1>1 DEF Read
  <2>2. reader'.offset = reader.offset + n /\ start' = start
    BY <1>1, <1>6
  <2> QED BY <1>3, <1>4, <2>1, <2>2
<1>9. /\ Len(reader'.buf) = Len(reader.buf) + n
      /\ \A i \in 1..Len(reader.buf) : reader'.buf[i] = reader.buf[i]
      /\ \A i \in 1..n : reader'.buf[Len(reader.buf) + i] = Read + i
  BY <1>5, <1>6, <1>7
<1>10. /\ Following /\ Following' /\ UNCHANGED <<start, stream>> /\ reader'.name = reader.name
       /\ reader'.pos = reader.pos + n /\ reader'.offset = reader.offset + n /\ Read \in Nat /\ Len(reader.buf) \in Nat
  BY <1>1, <1>2, <1>3, <1>6
<1> QED BY <1>4, <1>8, <1>9, <1>10

\* Every step keeps the reader's offset, its place in the files and its buffer in agreement.
LEMMA ReaderStep ==
    ASSUME Types, Stages, InputIsFlow, FilesInv, ReaderInv, [Next]_vars
    PROVE  ReaderInv'
<1>0. stream' = stream /\ Ends' = Ends
  BY ConfigStep
<1>1. ASSUME Following => Following /\ UNCHANGED <<start, reader>>, Following' => Following PROVE ReaderInv'
  <2>1. CASE Following'
    <3>1. Following /\ start' = start /\ reader' = reader
      BY <1>1, <2>1
    <3>2. Read' = Read
      BY <2>1, <3>1 DEF Read
    <3>3. /\ reader.offset = start + First(start, reader.name) + reader.pos /\ Len(reader.buf) <= Read
          /\ \A i \in 1..Len(reader.buf) : reader.buf[i] = Read - Len(reader.buf) + i
          /\ \E i \in 0..Len(stream) : Read - Len(reader.buf) = Ends[i]
      BY <3>1 DEF ReaderInv
    <3> QED BY <1>0, <3>1, <3>2, <3>3 DEF ReaderInv
  <2>2. CASE ~ Following'
    BY <2>2 DEF ReaderInv
  <2> QED BY <2>1, <2>2
<1>2. ASSUME OpenReader PROVE ReaderInv'
  <2>1. pc = "open" /\ pc' = "aof" /\ start' = start /\ reader' = [reader EXCEPT !.offset = start]
    BY <1>2 DEF OpenReader
  <2>2. reader = [name |-> 0, pos |-> 0, offset |-> 0, buf |-> <<>>]
    BY <2>1 DEF Stages, Following
  <2>3. reader'.name = 0 /\ reader'.pos = 0 /\ reader'.offset = start /\ reader'.buf = <<>> /\ start \in Nat
    BY <2>1, <2>2, Fields
  <2>4. Following' /\ Read' = start' - start'
    BY <2>1, <2>3 DEF Following, Read
  <2>5. Read' = 0 /\ First(start', reader'.name) = 0 /\ Len(reader'.buf) = 0
    BY <2>1, <2>3, <2>4 DEF First
  <2>6. 0 \in 0..Len(stream) /\ Ends[0] = 0
    BY EndsFacts
  <2>7. reader'.offset = start' + First(start', reader'.name) + reader'.pos
    BY <2>1, <2>3, <2>5
  <2>8. Len(reader'.buf) <= Read' /\ Read' - Len(reader'.buf) = Ends[0]
    BY <2>5, <2>6
  <2>9. \A i \in 1..Len(reader'.buf) : reader'.buf[i] = Read' - Len(reader'.buf) + i
    BY <2>5
  <2> QED BY <1>0, <2>6, <2>7, <2>8, <2>9 DEF ReaderInv
<1>3. ASSUME ReadFile PROVE ReaderInv'
  <2>1. PICK n \in Nat :
              /\ Following /\ UNCHANGED start /\ reader'.name = reader.name
              /\ reader'.pos = reader.pos + n /\ reader'.offset = reader.offset + n /\ Read' = Read + n /\ Read \in Nat
              /\ Len(reader'.buf) = Len(reader.buf) + n /\ Len(reader.buf) \in Nat
              /\ \A i \in 1..Len(reader.buf) : reader'.buf[i] = reader.buf[i]
              /\ \A i \in 1..n : reader'.buf[Len(reader.buf) + i] = Read + i
    BY <1>3, ReadEffect
  <2>2. /\ reader.offset = start + First(start, reader.name) + reader.pos /\ Len(reader.buf) <= Read
        /\ \A i \in 1..Len(reader.buf) : reader.buf[i] = Read - Len(reader.buf) + i
    BY <2>1 DEF ReaderInv
  <2>3. PICK e \in 0..Len(stream) : Read - Len(reader.buf) = Ends[e]
    BY <2>1 DEF ReaderInv
  <2>4. First(start, reader.name) \in Nat
    BY <2>1, ReadBound
  <2>5. start \in Nat /\ reader.pos \in Nat
    BY Fields
  <2>6. reader'.offset = start' + First(start', reader'.name) + reader'.pos
    <3>1. reader'.offset = (start + First(start, reader.name) + reader.pos) + n
      BY <2>1, <2>2
    <3>2. start' = start /\ reader'.name = reader.name /\ reader'.pos = reader.pos + n
      BY <2>1
    <3> QED BY <2>4, <2>5, <3>1, <3>2
  <2> DEFINE l == Len(reader.buf)
             l2 == Len(reader'.buf)
  <2>7. l \in Nat /\ l2 = l + n /\ Read' = Read + n /\ Read \in Nat /\ l <= Read
    BY <2>1, <2>2
  <2>8. l2 <= Read' /\ Read' - l2 = Read - l /\ l2 \in Nat
    <3> HIDE DEF l, l2
    <3> QED BY <2>7
  <2>9. ASSUME NEW i \in 1..l2 PROVE reader'.buf[i] = Read' - l2 + i
    <3>0. i \in Nat
      OBVIOUS
    <3>1. CASE i <= l
      <4>1. i \in 1..l
        BY <2>7, <3>1
      <4>2. reader'.buf[i] = Read - l + i
        BY <2>1, <2>2, <4>1
      <4> QED BY <2>8, <4>2
    <3>2. CASE i > l
      <4> HIDE DEF l2
      <4> DEFINE j == i - l
      <4>1. j \in 1..n /\ i = l + j
        <5> HIDE DEF l
        <5> QED BY <2>7, <3>0, <3>2
      <4> HIDE DEF j
      <4>2. reader'.buf[i] = Read + j
        BY <2>1, <4>1
      <4>3. Read' - l2 + i = Read + j
        <5> HIDE DEF l
        <5> QED BY <2>7, <2>8, <4>1
      <4> QED BY <4>2, <4>3
    <3>3. i <= l \/ i > l
      <4>1. l \in Nat
        BY <2>7
      <4> HIDE DEF l
      <4> QED BY <3>0, <4>1
    <3> QED BY <3>1, <3>2, <3>3
  <2>10. Read' - l2 = Ends[e]
    BY <2>3, <2>8
  <2> QED BY <1>0, <2>6, <2>8, <2>9, <2>10 DEF ReaderInv
<1>4. ASSUME readNextFile PROVE ReaderInv'
  <2>1. CASE HasNext
    <3> DEFINE c == reader.offset
    <3>1. /\ Following /\ Following' /\ reader' = [reader EXCEPT !.name = c, !.pos = 0] /\ start' = start
      BY <1>4, <2>1 DEF readNextFile, SwitchTo, FileKeeps, Following
    <3>2. /\ Opened /\ First(start, c) = Past(reader.name) /\ reader.pos = Len(files[reader.name])
      BY <2>1, <3>1, NextFile
    <3>3. reader'.name = c /\ reader'.pos = 0 /\ reader'.offset = c /\ reader'.buf = reader.buf
      BY <3>1, Records
    <3>4. Read' = Read
      BY <3>1, <3>3 DEF Read
    <3>5. /\ c = start + First(start, reader.name) + reader.pos /\ Len(reader.buf) <= Read
          /\ \A i \in 1..Len(reader.buf) : reader.buf[i] = Read - Len(reader.buf) + i
          /\ \E i \in 0..Len(stream) : Read - Len(reader.buf) = Ends[i]
      BY <3>1 DEF ReaderInv
    <3>6. c = start' + First(start', reader'.name) + reader'.pos
      <4>1. start \in Nat /\ reader.pos \in Nat
        BY Fields
      <4>2. First(start, reader.name) \in Nat /\ Len(files[reader.name]) \in Nat
            /\ Past(reader.name) = First(start, reader.name) + Len(files[reader.name])
        BY <3>2, FileFacts
      <4>3. First(start', reader'.name) = First(start, c) /\ reader'.pos = 0 /\ start' = start
        BY <3>1, <3>3
      <4>4. First(start, c) = First(start, reader.name) + reader.pos
        BY <3>2, <4>2
      <4>5. c = start + First(start, reader.name) + reader.pos
        BY <3>5
      <4> HIDE DEF c
      <4> QED BY <4>1, <4>2, <4>3, <4>4, <4>5
    <3> QED BY <1>0, <3>3, <3>4, <3>5, <3>6 DEF ReaderInv
  <2>2. CASE ~ HasNext
    <3>1. Following /\ UNCHANGED <<start, reader>>
      BY <1>4, <2>2 DEF readNextFile, FileKeeps, Following
    <3> QED BY <1>1, <3>1
  <2> QED BY <2>1, <2>2
<1>5. ASSUME SendCommand PROVE ReaderInv'
  <2>1. PICK c \in 1..Len(stream) :
              /\ Size(c) \in 0..Len(reader.buf)
              /\ Following /\ UNCHANGED start
              /\ reader'.name = reader.name /\ reader'.pos = reader.pos /\ reader'.offset = reader.offset
              /\ Len(reader'.buf) = Len(reader.buf) - Size(c) /\ Read' = Read
              /\ Read - Len(reader'.buf) = Ends[c] /\ Read \in Nat /\ Len(reader'.buf) \in Nat
              /\ \A j \in 1..Len(reader'.buf) : reader'.buf[j] = reader.buf[Size(c) + j]
    BY <1>5, SendEffect
  <2>2. /\ reader.offset = start + First(start, reader.name) + reader.pos /\ Len(reader.buf) <= Read
        /\ \A i \in 1..Len(reader.buf) : reader.buf[i] = Read - Len(reader.buf) + i
    BY <2>1 DEF ReaderInv
  <2>3. Ends[c] \in Nat /\ c \in 0..Len(stream)
    <3>1. c \in 0..Len(stream)
      BY EndsFacts
    <3> QED BY <3>1, EndsFacts
  <2> DEFINE l == Len(reader.buf)
             l2 == Len(reader'.buf)
             z == Size(c)
  <2>4. l \in Nat /\ z \in 0..l /\ l2 = l - z /\ Read \in Nat /\ l <= Read
    <3>1. l \in Nat
      BY Fields
    <3> QED BY <2>1, <2>2, <3>1
  <2>5. l2 <= Read
    <3> HIDE DEF l, l2, z
    <3> QED BY <2>4
  <2>6. ASSUME NEW i \in 1..l2 PROVE reader'.buf[i] = Read - l2 + i
    <3>1. z + i \in 1..l /\ Read - l + (z + i) = Read - l2 + i
      <4>1. i \in 1..l2
        OBVIOUS
      <4> HIDE DEF l, l2, z
      <4> QED BY <2>4, <4>1
    <3>2. reader'.buf[i] = reader.buf[z + i]
      BY <2>1
    <3>3. reader.buf[z + i] = Read - l + (z + i)
      BY <2>2, <3>1
    <3> QED BY <3>1, <3>2, <3>3
  <2>7. Read - l2 = Ends[c]
    BY <2>1
  <2>8. Read' = Read /\ UNCHANGED start
        /\ reader'.name = reader.name /\ reader'.pos = reader.pos /\ reader'.offset = reader.offset
    BY <2>1
  <2> QED BY <1>0, <2>2, <2>3, <2>5, <2>6, <2>7, <2>8 DEF ReaderInv
<1>6. ASSUME NextCommand \/ MeetEof PROVE ReaderInv'
  <2>1. Following /\ UNCHANGED <<start, reader>>
    BY <1>6 DEF NextCommand, MeetEof, FileKeeps, Following
  <2> QED BY <1>1, <2>1
<1>7. ASSUME Handshake \/ StartSending \/ SendRdbEntry \/ EndRdb \/ SendBase \/ ReadCancelled PROVE ReaderInv'
  <2>1. ~ Following'
    BY <1>7 DEF Handshake, CheckContext, BgsaveInProgress, SendPSync, SkipBeat, ReadFullResync, MeetPayload,
       ReadHeader, Receive, ReceiveSized, ReceiveUntilMarker, StartSending, SendRdbEntry, EndRdb, SendBase,
       ReadCancelled, Following
  <2> QED BY <2>1 DEF ReaderInv
<1>8. ASSUME Source \/ Keep \/ OpenTimeout \/ SendAck \/ Cancel \/ Panic \/ UNCHANGED vars PROVE ReaderInv'
  <2>1. UNCHANGED <<start, reader, pc>>
    BY <1>8 DEF Source, Heartbeat, FullResync, SourcePayload, SourceCommand, SourceKeeps, Keep, OpenWriter,
       StoreOrStop, Store, Rotate, CountReceived, StoreKeeps, OpenTimeout, SendAck, AckKeeps, Cancel, Panic, vars, main
  <2> QED BY <1>1, <2>1 DEF Following
<1> QED
  BY <1>2, <1>3, <1>4, <1>5, <1>6, <1>7, <1>8 DEF Next, Send, Follow

-----------------------------------------------------------------------------
(***************************************************************************)
(* What the consumer gets.                                                 *)
(***************************************************************************)
\* The numbers the ranks are counted with.
LEMMA Numbers ==
    ASSUME Types
    PROVE  /\ Len(stream) \in Nat \ {0} /\ PayloadLen \in Nat \ {0} /\ Base \in Nat /\ Base = PayloadLen + 1
           /\ Len(out) \in Nat /\ Len(rdb) \in Nat
<1>1. Len(stream) \in Nat \ {0}
  BY EndsFacts
<1>2. PayloadLen \in Nat \ {0} /\ Len(out) \in Nat /\ Len(rdb) \in Nat
  BY Fields
<1> QED BY <1>1, <1>2 DEF Base

\* A message that is due says its own rank.
LEMMA RankOfDue ==
    ASSUME Types, NEW q \in Ranks
    PROVE  Rank(Due(q)) = q /\ q \in Nat \ {0}
<1>1. Len(stream) \in Nat /\ PayloadLen \in Nat \ {0}
  BY EndsFacts, Fields
<1>2. q \in Nat \ {0} /\ Base \in Nat /\ Base = PayloadLen + 1
  BY <1>1 DEF Ranks, Base
<1>3. CASE q < Base
  <2>1. Due(q).phase = "rdb" /\ Due(q).nr[2] = q
    BY <1>3 DEF Due, Entry
  <2> QED BY <1>2, <2>1 DEF Rank
<1>4. CASE q = Base
  <2>1. Due(q).phase = "base" /\ Due(q).nr[2] = 0
    BY <1>2, <1>4 DEF Due, Entry
  <2>2. Rank(Due(q)) = Base + 0
    BY <2>1 DEF Rank
  <2> QED BY <1>2, <1>4, <2>2
<1>5. CASE q > Base
  <2>1. ~ (q < Base) /\ q # Base
    BY <1>2, <1>5
  <2>2. Due(q).phase # "rdb" /\ Due(q).nr[2] = q - Base
    BY <2>1 DEF Due, Entry
  <2>3. Rank(Due(q)) = Base + (q - Base)
    BY <2>2 DEF Rank
  <2> QED BY <1>2, <2>3
<1> QED BY <1>2, <1>3, <1>4, <1>5

\* SELECT chooses the database, other commands leave it.
LEMMA DbStep ==
    ASSUME Types, NEW i \in 1..Len(stream)
    PROVE  DbOf(i) = IF stream[i].kind = "select" THEN stream[i].db ELSE DbOf(i - 1)
<1>1. Len(stream) \in Nat /\ i \in Nat
  BY EndsFacts
<1>2. CASE stream[i].kind = "select"
  <2>1. i \in Selects(i) /\ \A k \in Selects(i) : k \in Nat /\ i >= k
    BY <1>1, <1>2 DEF Selects
  <2>2. (CHOOSE j \in Selects(i) : \A k \in Selects(i) : j >= k) = i
    <3>1. ASSUME NEW j \in Selects(i), \A k \in Selects(i) : j >= k PROVE j = i
      BY <1>1, <2>1, <3>1
    <3> QED BY <2>1, <3>1
  <2> QED BY <1>2, <2>1, <2>2 DEF DbOf
<1>3. CASE stream[i].kind # "select"
  <2>1. Selects(i) = Selects(i - 1)
    <3>1. \A j : j \in 1..i <=> j \in 1..(i - 1) \/ j = i
      BY <1>1
    <3> QED BY <1>3, <3>1 DEF Selects
  <2> QED BY <1>3, <2>1 DEF DbOf
<1> QED BY <1>2, <1>3

\* Before the first SELECT the database is the one the RDB file has left, or 0.
LEMMA DbAtStart == DbOf(0) = FirstDb
<1>1. Selects(0) = {}
  BY DEF Selects
<1> QED BY <1>1 DEF DbOf

\* What is due does not depend on the rest of the state.
LEMMA DueStays ==
    ASSUME UNCHANGED <<opts, stream, start>>
    PROVE  /\ \A q : Due(q)' = Due(q) /\ Wanted(q)' = Wanted(q)
           /\ \A i : DbOf(i)' = DbOf(i)
           /\ Ranks' = Ranks
<1>1. ASSUME NEW i PROVE DbOf(i)' = DbOf(i)
  BY DEF DbOf, Selects, FirstDb
<1>2. Ends' = Ends
  BY DEF Ends
<1>3. ASSUME NEW q PROVE Due(q)' = Due(q)
  <2>1. DbOf(q - Base)' = DbOf(q - Base)
    BY <1>1
  <2> QED BY <1>2, <2>1 DEF Due, Tracked, Entry
<1>4. ASSUME NEW q PROVE Wanted(q)' = Wanted(q)
  BY DEF Wanted
<1> QED BY <1>1, <1>3, <1>4 DEF Ranks

\* A step that sends nothing may pass messages that are not wanted or given up.
LEMMA OutSame ==
    ASSUME Types, OutIsDue, NEW r \in 0..(Base + Len(stream)), NEW s \in r..(Base + Len(stream)),
           OutUpTo(r), UNCHANGED <<opts, stream, start, out>>, cancelled => cancelled',
           cancelled /\ pc \in {"aof", "closed"} => pc' \in {"aof", "closed"} /\ s = r,
           \A q \in (r + 1)..s : Wanted(q) => GivenUp(q, s)', AtRank(s)'
    PROVE  OutInv'
<1>1. Len(stream) \in Nat /\ Base \in Nat
  BY Numbers
<1>2. r \in Nat /\ s \in Nat /\ r <= s /\ s \in 0..(Base + Len(stream))
  BY <1>1
<1>3. /\ \A q : Due(q)' = Due(q) /\ Wanted(q)' = Wanted(q)
      /\ Ranks' = Ranks
  BY DueStays
<1>4. OutIsDue'
  BY <1>3 DEF OutIsDue
<1>5. ASSUME NEW j \in 1..Len(out) PROVE Rank(out[j]) <= s
  <2>1. Rank(out[j]) <= r
    BY DEF OutUpTo
  <2>2. Rank(out[j]) \in Ranks
    BY DEF OutIsDue
  <2>3. Rank(out[j]) \in Nat
    BY <1>1, <2>2 DEF Ranks
  <2> QED BY <1>2, <2>1, <2>3
<1>6. ASSUME NEW q \in 1..s, Wanted(q) PROVE GivenUp(q, s)' \/ \E j \in 1..Len(out) : out[j] = Due(q)
  <2>1. CASE q <= r
    <3>1. q \in 1..r
      BY <1>2, <2>1
    <3>2. GivenUp(q, r) \/ \E j \in 1..Len(out) : out[j] = Due(q)
      BY <1>6, <3>1 DEF OutUpTo
    <3>3. GivenUp(q, r) => GivenUp(q, s)'
      BY DEF GivenUp
    <3> QED BY <3>2, <3>3
  <2>2. CASE q > r
    <3>1. q \in (r + 1)..s
      BY <1>2, <2>2
    <3> QED BY <1>6, <3>1
  <2> QED BY <1>2, <2>1, <2>2
<1>7. OutUpTo(s)'
  BY <1>3, <1>5, <1>6 DEF OutUpTo
<1>8. s \in 0..(Base + Len(stream'))
  BY <1>2
<1> QED BY <1>4, <1>7, <1>8 DEF OutInv

\* A step that sends the next message.
LEMMA OutMore ==
    ASSUME Types, OutIsDue, NEW r \in 0..(Base + Len(stream)), r + 1 \in Ranks,
           OutUpTo(r), UNCHANGED <<opts, stream, start>>, cancelled => cancelled', pc \notin {"aof", "closed"},
           Due(r + 1) \in Message, Wanted(r + 1), out' = Append(out, Due(r + 1)), AtRank(r + 1)'
    PROVE  OutInv'
<1> DEFINE s == r + 1
           n == Len(out)
<1>1. Len(stream) \in Nat /\ Base \in Nat /\ n \in Nat
  BY Numbers
<1>2. r \in Nat /\ s \in Nat /\ s \in 0..(Base + Len(stream))
  BY <1>1 DEF Ranks
<1>3. /\ \A q : Due(q)' = Due(q) /\ Wanted(q)' = Wanted(q)
      /\ Ranks' = Ranks
  BY DueStays
<1>4. Len(out') = n + 1 /\ out'[n + 1] = Due(s) /\ \A j \in 1..n : out'[j] = out[j]
  <2>1. out \in Seq(Message)
    BY Records
  <2> QED BY <2>1, AppendProperties
<1>5. Rank(Due(s)) = s
  BY RankOfDue
<1>6. \A j \in 1..n : Rank(out[j]) <= r /\ Rank(out[j]) \in Nat
  <2>1. \A j \in 1..n : Rank(out[j]) \in Ranks
    BY DEF OutIsDue
  <2> QED BY <1>1, <2>1 DEF OutUpTo, Ranks
<1>7. ASSUME NEW j \in 1..Len(out')
      PROVE  /\ \E q \in Ranks : Wanted(q) /\ out'[j] = Due(q) /\ Rank(out'[j]) = q
             /\ \A i \in 1..(j - 1) : Rank(out'[i]) < Rank(out'[j])
             /\ Rank(out'[j]) <= s
  <2>1. CASE j = n + 1
    <3>1. out'[j] = Due(s) /\ Rank(out'[j]) = s
      BY <1>4, <1>5, <2>1
    <3>2. ASSUME NEW i \in 1..(j - 1) PROVE Rank(out'[i]) < s
      <4>1. i \in 1..n
        BY <1>1, <2>1
      <4>2. Rank(out'[i]) <= r /\ Rank(out'[i]) \in Nat
        BY <1>4, <1>6, <4>1
      <4> QED BY <1>2, <4>2
    <3> QED BY <1>2, <3>1, <3>2
  <2>2. CASE j # n + 1
    <3>1. j \in 1..n /\ \A i \in 1..(j - 1) : i \in 1..n
      BY <1>1, <1>4, <2>2
    <3>2. out'[j] = out[j] /\ \A i \in 1..(j - 1) : out'[i] = out[i]
      BY <1>4, <3>1
    <3>3. Rank(out[j]) <= s
      <4>1. Rank(out[j]) <= r /\ Rank(out[j]) \in Nat
        BY <1>6, <3>1
      <4> QED BY <1>2, <4>1
    <3> QED BY <3>1, <3>2, <3>3 DEF OutIsDue
  <2> QED BY <2>1, <2>2
<1>8. OutIsDue'
  BY <1>3, <1>7 DEF OutIsDue
<1>9. ASSUME NEW q \in 1..s, Wanted(q) PROVE GivenUp(q, s)' \/ \E j \in 1..Len(out') : out'[j] = Due(q)
  <2>1. CASE q = s
    <3>1. n + 1 \in 1..Len(out')
      BY <1>1, <1>4
    <3> QED BY <1>4, <2>1, <3>1
  <2>2. CASE q # s
    <3>1. q \in 1..r
      BY <1>2, <2>2
    <3>2. GivenUp(q, r) \/ \E j \in 1..n : out[j] = Due(q)
      BY <1>9, <3>1 DEF OutUpTo
    <3>3. GivenUp(q, r) => GivenUp(q, s)'
      BY DEF GivenUp
    <3>4. \A j \in 1..n : j \in 1..Len(out')
      BY <1>1, <1>4
    <3> QED BY <1>4, <3>2, <3>3, <3>4
  <2> QED BY <2>1, <2>2
<1> HIDE DEF s
<1>10. OutUpTo(s)'
  BY <1>3, <1>7, <1>9 DEF OutUpTo
<1>11. AtRank(s)'
  BY DEF s
<1> QED BY <1>2, <1>8, <1>10, <1>11 DEF OutInv

\* An entry of the snapshot is the next one.
LEMMA OutAtRdb ==
    ASSUME Types, PayloadIsKept, OutIsDue, NEW r \in 0..(Base + Len(stream)), OutUpTo(r), AtRank(r),
           SendRdbEntry
    PROVE  OutInv'
<1>1. /\ Len(stream) \in Nat \ {0} /\ PayloadLen \in Nat \ {0} /\ Base \in Nat /\ Base = PayloadLen + 1 /\ Len(rdb) \in Nat
  BY Numbers
<1>2. /\ pc = "rdb" /\ pc' = "rdb" /\ rdb # <<>> /\ rdb' = Tail(rdb) /\ out' = Append(out, Entry("rdb", Head(rdb), 0, 0))
      /\ UNCHANGED <<opts, stream, start, cancelled>>
  BY DEF SendRdbEntry, SendKeeps, config
<1>3. rdb \in Seq(Token)
  BY Records
<1>4. Len(rdb) \in Nat \ {0} /\ Len(rdb') = Len(rdb) - 1 /\ Head(rdb) = rdb[1]
  BY <1>2, <1>3, Shortened
<1>5. opts.syncRdb /\ r = PayloadLen - Len(rdb)
  BY <1>2 DEF AtRank
<1>6. r + 1 \in Ranks /\ r + 1 < Base /\ r + 1 = PayloadLen - Len(rdb') /\ r + 1 \in Nat
  BY <1>1, <1>4, <1>5 DEF Ranks
<1>7. Head(rdb) = <<"rdb", r + 1>>
  <2>1. 1 \in 1..Len(rdb)
    BY <1>4
  <2>2. rdb[1] = <<"rdb", PayloadLen - Len(rdb) + 1>>
    BY <1>2, <2>1 DEF PayloadIsKept
  <2> QED BY <1>4, <1>5, <2>2
<1>8. Due(r + 1) = Entry("rdb", <<"rdb", r + 1>>, 0, 0) /\ Wanted(r + 1)
  BY <1>5, <1>6 DEF Due, Wanted
<1>9. Due(r + 1) \in Message
  <2>1. <<"rdb", r + 1>> \in Token
    BY <1>6 DEF Token, Kind
  <2> QED BY <1>8, <2>1 DEF Entry, Message
<1>10. out' = Append(out, Due(r + 1))
  BY <1>2, <1>7, <1>8
<1>11. AtRank(r + 1)'
  BY <1>2, <1>5, <1>6 DEF AtRank, Waiting, Receiving, Following
<1> QED BY <1>2, <1>6, <1>8, <1>9, <1>10, <1>11, OutMore

\* The base offset comes behind the snapshot.
LEMMA OutAtBase ==
    ASSUME Types, OutIsDue, NEW r \in 0..(Base + Len(stream)), OutUpTo(r), AtRank(r), SendBase
    PROVE  OutInv'
<1>1. /\ Len(stream) \in Nat \ {0} /\ PayloadLen \in Nat \ {0} /\ Base \in Nat /\ Base = PayloadLen + 1
  BY Numbers
<1>2. /\ pc = "base" /\ pc' \in {"open", "closed"} /\ UNCHANGED <<opts, stream, start, cancelled, db>>
      /\ sendProgress(Entry("base", <<"base", 0>>, start, 0))
  BY DEF SendBase, SendKeeps, config
<1>3. r = PayloadLen /\ Selected(0)
  BY <1>2 DEF AtRank
<1>4. r + 1 = Base /\ Base \in Ranks /\ Base \in r..(Base + Len(stream)) /\ \A q \in (r + 1)..Base : q = Base
  BY <1>1, <1>3 DEF Ranks
<1>5. Selected(0)'
  <2>1. DbOf(0)' = DbOf(0)
    BY <1>2, DueStays
  <2> QED BY <1>2, <1>3, <2>1 DEF Selected
<1>6. AtRank(Base)'
  BY <1>2, <1>5 DEF AtRank, Waiting, Receiving, Following
<1>7. Due(Base) = Entry("base", <<"base", 0>>, start, 0) /\ (Wanted(Base) <=> opts.psync)
  BY <1>1 DEF Due, Wanted
<1>8. CASE opts.psync /\ out' = Append(out, Entry("base", <<"base", 0>>, start, 0))
  <2>1. Due(Base) \in Message
    <3>1. <<"base", 0>> \in Token
      BY DEF Token, Kind
    <3>2. start \in Int
      BY Fields
    <3> QED BY <1>7, <3>1, <3>2 DEF Entry, Message
  <2>2. out' = Append(out, Due(Base)) /\ Wanted(Base)
    BY <1>7, <1>8
  <2>3. /\ r + 1 \in Ranks /\ Due(r + 1) \in Message /\ Wanted(r + 1) /\ out' = Append(out, Due(r + 1))
        /\ AtRank(r + 1)'
    BY <1>4, <1>6, <2>1, <2>2
  <2> QED BY <1>2, <2>3, OutMore
<1>9. CASE (~ opts.psync \/ cancelled) /\ UNCHANGED out
  <2>1. ASSUME NEW q \in (r + 1)..Base, Wanted(q) PROVE GivenUp(q, Base)'
    <3>1. q = Base /\ q <= Base
      BY <1>1, <1>4, <2>1
    <3> QED BY <1>2, <1>7, <1>9, <2>1, <3>1 DEF GivenUp
  <2> QED BY <1>2, <1>4, <1>6, <1>9, <2>1, OutSame
<1> QED BY <1>2, <1>8, <1>9 DEF sendProgress

\* A command of the stream comes behind the one before, with its own end and database.
LEMMA OutAtCommand ==
    ASSUME Types, Stages, InputIsFlow, FilesInv, ReaderInv,
           OutIsDue, NEW r \in 0..(Base + Len(stream)), OutUpTo(r), AtRank(r), SendCommand
    PROVE  OutInv'
<1>1. Len(stream) \in Nat \ {0} /\ Base \in Nat
  BY Numbers
<1>2. PICK i \in 1..Len(stream) :
              /\ Read - Len(reader.buf) = Ends[i - 1] /\ CommandAt(Head(reader.buf)) = i
              /\ SentOffset(Size(i)) = start + Ends[i]
              /\ Following /\ UNCHANGED start /\ Read' = Read /\ Read - Len(reader'.buf) = Ends[i]
  BY SendEffect
<1>3. r >= Base /\ Selected(r - Base) /\ Read - Len(reader.buf) = Ends[r - Base]
  BY <1>2 DEF AtRank
<1>4. r - Base = i - 1 /\ r + 1 = Base + i /\ r \in Nat /\ i \in Nat \ {0}
  <2>1. r - Base \in 0..Len(stream) /\ i - 1 \in 0..Len(stream)
    BY <1>1, <1>3
  <2>2. \A a, b \in 0..Len(stream) : a < b => Ends[a] < Ends[b]
    BY EndsFacts
  <2>3. \A a \in 0..Len(stream) : Ends[a] \in Nat
    BY EndsFacts
  <2>4. Ends[r - Base] = Ends[i - 1] /\ Ends[r - Base] \in Nat
    BY <1>2, <1>3, <2>1, <2>3
  <2>5. r - Base = i - 1
    <3> DEFINE a == r - Base
               b == i - 1
    <3>1. a \in 0..Len(stream) /\ b \in 0..Len(stream) /\ Ends[a] = Ends[b] /\ Ends[a] \in Nat
      BY <2>1, <2>4
    <3> HIDE DEF a, b
    <3>2. ~ (a < b) /\ ~ (b < a)
      BY <2>2, <3>1
    <3>3. a = b
      BY <3>1, <3>2
    <3> QED BY <3>3 DEF a, b
  <2> QED BY <1>1, <2>5
<1>5. r + 1 \in Ranks /\ r + 1 \in r..(Base + Len(stream)) /\ ~ (r + 1 < Base) /\ r + 1 # Base /\ r + 1 > Base
      /\ (r + 1) - Base = i /\ \A q \in (r + 1)..(r + 1) : q = r + 1
  BY <1>1, <1>4 DEF Ranks
<1> DEFINE c == stream[i]
           offset == SentOffset(Size(i))
<1>6. /\ pc = "reply" /\ pc' = "aof" /\ UNCHANGED <<opts, stream, start, cancelled>>
      /\ db' = IF c.kind = "select" THEN c.db ELSE db
      /\ IF c.kind = "data" THEN out' = Append(out, Entry("aof", <<"aof", i>>, Tracked(offset), db))
                            ELSE sendProgress(Entry("progress", <<"aof", i>>, offset, 0))
  BY <1>2 DEF SendCommand, SendKeeps, config
<1>7. offset = start + Ends[i] /\ start + Ends[i] \in Nat
  <2>1. i \in 0..Len(stream)
    BY <1>1
  <2>2. Ends[i] \in Nat
    BY <2>1, EndsFacts
  <2>3. start \in Nat
    BY Fields
  <2> QED BY <1>2, <2>2, <2>3
<1> HIDE DEF offset
<1>8. DbOf(i) = IF c.kind = "select" THEN c.db ELSE DbOf(i - 1)
  BY DbStep
<1>9. Selected(i - 1)
  BY <1>3, <1>4
<1>10. db = DbOf(i - 1)
  BY <1>9 DEF Selected
<1>11. db' = DbOf(i)
  BY <1>6, <1>8, <1>10
<1> HIDE DEF c
<1>12. AtRank(r + 1)'
  <2>1. Selected(i)'
    <3>1. DbOf(i)' = DbOf(i)
      BY <1>6, DueStays
    <3> QED BY <1>11, <3>1 DEF Selected
  <2>2. Ends' = Ends
    BY <1>6 DEF Ends
  <2>3. r + 1 >= Base
    BY <1>1, <1>4, <1>5
  <2>4. \A a : a = r + 1 => AtRank(a)'
    <3>1. SUFFICES ASSUME NEW a, a = r + 1 PROVE AtRank(a)'
      OBVIOUS
    <3>2. a - Base = i /\ a >= Base
      BY <1>5, <2>3, <3>1
    <3>3. Selected(a - Base)'
      BY <2>1, <3>2
    <3>4. (Read - Len(reader.buf))' = Ends'[a - Base]
      BY <1>2, <2>2, <3>2
    <3> QED BY <1>6, <3>2, <3>3, <3>4 DEF AtRank, Waiting, Receiving
  <2> QED BY <2>4
<1>13. <<"aof", i>> \in Token
  BY <1>4 DEF Token, Kind
<1>14. CASE c.kind = "data"
  <2>1. Due(r + 1) = Entry("aof", <<"aof", i>>, Tracked(start + Ends[i]), DbOf(i)) /\ Wanted(r + 1)
    BY <1>5, <1>14 DEF Due, Wanted, c
  <2>2. DbOf(i) = db /\ db \in Nat
    BY <1>6, <1>11, <1>14, Fields
  <2>3. Due(r + 1) = Entry("aof", <<"aof", i>>, Tracked(offset), db) /\ Tracked(offset) \in Int
    BY <1>7, <2>1, <2>2 DEF Tracked
  <2>4. Due(r + 1) \in Message
    BY <1>13, <2>2, <2>3 DEF Entry, Message
  <2>5. out' = Append(out, Due(r + 1))
    BY <1>6, <1>14, <2>3
  <2> QED BY <1>5, <1>6, <1>12, <2>1, <2>4, <2>5, OutMore
<1>15. CASE c.kind # "data"
  <2>1. /\ Due(r + 1) = Entry("progress", <<"aof", i>>, start + Ends[i], 0)
        /\ (Wanted(r + 1) <=> opts.psync)
    BY <1>5, <1>15 DEF Due, Wanted, c
  <2>2. CASE opts.psync /\ out' = Append(out, Entry("progress", <<"aof", i>>, offset, 0))
    <3>1. Due(r + 1) \in Message
      BY <1>7, <1>13, <2>1 DEF Entry, Message
    <3>2. out' = Append(out, Due(r + 1)) /\ Wanted(r + 1)
      BY <1>7, <2>1, <2>2
    <3> QED BY <1>5, <1>6, <1>12, <3>1, <3>2, OutMore
  <2>3. CASE (~ opts.psync \/ cancelled) /\ UNCHANGED out
    <3> DEFINE s == r + 1
    <3>1. ASSUME NEW q \in (r + 1)..s, Wanted(q) PROVE GivenUp(q, s)'
      <4>1. q = s
        BY <1>5
      <4>2. cancelled
        BY <2>1, <2>3, <3>1, <4>1
      <4> HIDE DEF s
      <4> QED BY <1>6, <4>1, <4>2 DEF GivenUp
    <3>2. s \in r..(Base + Len(stream)) /\ AtRank(s)'
      BY <1>5, <1>12
    <3> HIDE DEF s
    <3>3. cancelled /\ pc \in {"aof", "closed"} => pc' \in {"aof", "closed"} /\ s = r
      BY <1>6
    <3> QED BY <1>6, <2>3, <3>1, <3>2, <3>3, OutSame
  <2> QED BY <1>6, <1>15, <2>2, <2>3 DEF sendProgress
<1> QED BY <1>14, <1>15

\* Every step keeps what the consumer has got in order and complete up to some rank.
LEMMA OutStep ==
    ASSUME Types, Stages, InputInv, FilesInv, ReaderInv, OutInv, [Next]_vars
    PROVE  OutInv'
<1>0. opts' = opts /\ stream' = stream /\ Ends' = Ends
  BY ConfigStep
<1>2. OutIsDue
  BY DEF OutInv
<1>3. PICK r \in 0..(Base + Len(stream)) : OutUpTo(r) /\ AtRank(r)
  BY DEF OutInv
<1>4. /\ Len(stream) \in Nat \ {0} /\ PayloadLen \in Nat \ {0} /\ Base \in Nat /\ Base = PayloadLen + 1
      /\ Len(rdb) \in Nat /\ Len(out) \in Nat /\ r \in Nat /\ r \in r..(Base + Len(stream))
  <2>1. /\ Len(stream) \in Nat \ {0} /\ PayloadLen \in Nat \ {0} /\ Base \in Nat /\ Base = PayloadLen + 1
        /\ Len(rdb) \in Nat /\ Len(out) \in Nat
    BY Numbers
  <2> QED BY <2>1
<1>5. InputIsFlow /\ PayloadIsKept
  BY DEF InputInv
<1>6. ASSUME UNCHANGED <<start, out>>, cancelled => cancelled',
             cancelled /\ pc \in {"aof", "closed"} => pc' \in {"aof", "closed"}, AtRank(r)'
      PROVE  OutInv'
  <2>1. \A q \in (r + 1)..r : Wanted(q) => GivenUp(q, r)'
    BY <1>4
  <2> QED BY <1>0, <1>2, <1>3, <1>4, <1>6, <2>1, OutSame
<1>7. ASSUME Handshake PROVE OutInv'
  <2>1. /\ UNCHANGED <<start, out, cancelled, db>> /\ (Waiting \/ Receiving) /\ ~ Following
        /\ pc \notin {"aof", "closed"} /\ pc' \notin {"rdb", "base", "open", "aof", "reply", "eof of file"}
    BY <1>7 DEF Handshake, CheckContext, BgsaveInProgress, SendPSync, SkipBeat, ReadFullResync, MeetPayload,
       ReadHeader, Receive, ReceiveSized, ReceiveUntilMarker, HandshakeKeeps, Waiting, Receiving, Following
  <2>2. r = 0 /\ db = 0
    BY <1>3, <2>1 DEF AtRank
  <2>3. AtRank(r)'
    BY <2>1, <2>2 DEF AtRank, Following
  <2> QED BY <1>6, <2>1, <2>3
<1>8. ASSUME StartSending PROVE OutInv'
  <2>1. /\ pc = "start" /\ pc' = (IF opts.syncRdb THEN "rdb" ELSE "base") /\ UNCHANGED <<out, rdb, db>>
    BY <1>8 DEF StartSending
  <2>2. r = 0 /\ Len(rdb) = PayloadLen
    BY <1>3, <1>5, <2>1 DEF AtRank, PayloadIsKept
  <2>3. Len(out) = 0
    <3>1. ASSUME Len(out) # 0 PROVE FALSE
      <4>1. 1 \in 1..Len(out)
        BY <1>4, <3>1
      <4>2. Rank(out[1]) <= 0 /\ Rank(out[1]) \in Ranks
        BY <1>2, <1>3, <2>2, <4>1 DEF OutUpTo, OutIsDue
      <4> QED BY <1>4, <4>2 DEF Ranks
    <3> QED BY <3>1
  <2>4. OutIsDue'
    BY <2>1, <2>3 DEF OutIsDue
  <2>5. CASE opts.syncRdb
    <3>1. OutUpTo(0)'
      BY <2>1, <2>3 DEF OutUpTo
    <3>2. AtRank(0)'
      <4>1. 0 = PayloadLen - Len(rdb')
        BY <1>4, <2>1, <2>2
      <4>2. ~ (Waiting \/ Receiving)' /\ pc' = "rdb"
        BY <2>1, <2>5 DEF Waiting, Receiving
      <4> QED BY <1>0, <2>5, <4>1, <4>2 DEF AtRank, Following
    <3>3. 0 \in 0..(Base + Len(stream'))
      BY <1>0, <1>4
    <3> QED BY <2>4, <3>1, <3>2, <3>3 DEF OutInv
  <2>6. CASE ~ opts.syncRdb
    <3>1. ASSUME NEW q \in 1..PayloadLen PROVE ~ Wanted(q)'
      <4>1. q < Base
        BY <1>4
      <4> QED BY <1>0, <2>6, <4>1 DEF Wanted
    <3>2. OutUpTo(PayloadLen)'
      BY <2>1, <2>3, <3>1 DEF OutUpTo
    <3>3. AtRank(PayloadLen)'
      <4>1. db' = 0 /\ opts' = opts /\ stream' = stream
        BY <1>0, <1>3, <2>1 DEF AtRank
      <4>2. DbOf(0)' = 0
        <5>1. Selects(0)' = {}
          BY DEF Selects
        <5> QED BY <2>6, <4>1, <5>1 DEF DbOf, FirstDb
      <4>3. Selected(0)'
        BY <4>1, <4>2 DEF Selected
      <4> QED BY <2>1, <2>6, <4>3 DEF AtRank, Following, Waiting, Receiving
    <3>4. PayloadLen \in 0..(Base + Len(stream'))
      BY <1>0, <1>4
    <3> QED BY <2>4, <3>2, <3>3, <3>4 DEF OutInv
  <2> QED BY <2>5, <2>6
<1>9. ASSUME EndRdb PROVE OutInv'
  <2>1. /\ pc = "rdb" /\ pc' = "base" /\ (rdb = <<>> \/ cancelled) /\ db' = RdbDb
        /\ UNCHANGED <<out, start, cancelled>>
    BY <1>9 DEF EndRdb, SendKeeps
  <2>2. r = PayloadLen - Len(rdb)
    BY <1>3, <2>1 DEF AtRank
  <2>3. PayloadLen \in r..(Base + Len(stream))
    BY <1>4, <2>2
  <2>4. ASSUME NEW q \in (r + 1)..PayloadLen PROVE GivenUp(q, PayloadLen)'
    <3>1. q <= Base
      BY <1>4
    <3>2. rdb # <<>>
      BY <1>4, <2>2, <2>4
    <3> QED BY <2>1, <3>1, <3>2 DEF GivenUp
  <2>5. Selected(0)'
    <3>1. DbOf(0)' = DbOf(0)
      BY <1>0, <2>1, DueStays
    <3>2. opts.syncRdb
      BY <1>3, <2>1 DEF AtRank
    <3> QED BY <2>1, <3>1, <3>2, DbAtStart DEF Selected, FirstDb
  <2>6. AtRank(PayloadLen)'
    BY <2>1, <2>5 DEF AtRank, Waiting, Receiving, Following
  <2> QED BY <1>0, <1>2, <1>3, <2>1, <2>3, <2>4, <2>6, OutSame
<1>10. ASSUME SendRdbEntry PROVE OutInv'
  BY <1>2, <1>3, <1>5, <1>10, OutAtRdb
<1>11. ASSUME SendBase PROVE OutInv'
  BY <1>2, <1>3, <1>11, OutAtBase
<1>12. ASSUME SendCommand PROVE OutInv'
  BY <1>2, <1>3, <1>5, <1>12, OutAtCommand
<1>13. ASSUME OpenReader PROVE OutInv'
  <2>1. pc = "open" /\ pc' = "aof" /\ UNCHANGED <<start, out, cancelled, db>> /\ reader' = [reader EXCEPT !.offset = start]
    BY <1>13 DEF OpenReader, SendKeeps
  <2>2. reader = [name |-> 0, pos |-> 0, offset |-> 0, buf |-> <<>>]
    BY <2>1 DEF Stages, Following
  <2>3. reader'.offset = start /\ reader'.buf = <<>> /\ start \in Nat
    BY <2>1, <2>2, Fields
  <2>4. r = Base /\ Selected(0) /\ r - Base = 0
    BY <1>3, <1>4, <2>1 DEF AtRank
  <2>5. Read' = 0 /\ Len(reader'.buf) = 0
    <3>1. Read' = start - start
      BY <2>1, <2>3 DEF Read, Following
    <3> QED BY <2>3, <3>1
  <2>6. Ends[0] = 0
    BY EndsFacts
  <2>7. (Read - Len(reader.buf))' = Ends'[r - Base]
    BY <1>0, <2>4, <2>5, <2>6
  <2>8. Selected(r - Base)'
    <3>1. \A i : DbOf(i)' = DbOf(i)
      BY <1>0, <2>1, DueStays
    <3>2. Selected(r - Base)
      BY <2>4
    <3> QED BY <1>0, <2>1, <3>1, <3>2 DEF Selected
  <2>9. r >= Base
    BY <1>4, <2>4
  <2>10. AtRank(r)'
    BY <2>1, <2>7, <2>8, <2>9 DEF AtRank, Waiting, Receiving
  <2> QED BY <1>6, <2>1, <2>10
<1>14. ASSUME Following, UNCHANGED <<start, out, cancelled, db>>, (Read - Len(reader.buf))' = Read - Len(reader.buf),
              pc' \in {"reply", "eof of file"}, pc # "aof" \/ ~ cancelled
       PROVE  OutInv'
  <2>1. r >= Base /\ Selected(r - Base) /\ Read - Len(reader.buf) = Ends[r - Base]
    BY <1>3, <1>14 DEF AtRank
  <2>2. Selected(r - Base)'
    <3>1. \A i : DbOf(i)' = DbOf(i)
      BY <1>0, <1>14, DueStays
    <3> QED BY <1>0, <1>14, <2>1, <3>1 DEF Selected
  <2>3. AtRank(r)'
    BY <1>0, <1>14, <2>1, <2>2 DEF AtRank, Waiting, Receiving
  <2>4. ~ (cancelled /\ pc \in {"aof", "closed"})
    BY <1>14 DEF Following
  <2> QED BY <1>6, <1>14, <2>3, <2>4
<1>15. ASSUME ReadFile PROVE OutInv'
  <2>1. PICK n \in Nat : /\ Following /\ Read' = Read + n /\ Read \in Nat
                         /\ Len(reader'.buf) = Len(reader.buf) + n /\ Len(reader.buf) \in Nat
    BY <1>5, <1>15, ReadEffect
  <2>2. (Read - Len(reader.buf))' = Read - Len(reader.buf)
    BY <2>1
  <2>3. UNCHANGED <<start, out, cancelled, db>> /\ pc = "reply" /\ pc' = "reply"
    BY <1>15 DEF ReadFile, FileKeeps
  <2> QED BY <1>14, <2>1, <2>2, <2>3
<1>16. ASSUME readNextFile PROVE OutInv'
  <2>1. UNCHANGED <<start, out, cancelled, db>> /\ pc = "eof of file" /\ pc' = "reply"
    BY <1>16 DEF readNextFile, FileKeeps
  <2>2. reader'.offset = reader.offset /\ reader'.buf = reader.buf
    <3>1. reader' = reader \/ reader' = [reader EXCEPT !.name = reader.offset, !.pos = 0]
      BY <1>16 DEF readNextFile, SwitchTo
    <3> QED BY <3>1, Records
  <2>3. (Read - Len(reader.buf))' = Read - Len(reader.buf)
    BY <2>1, <2>2 DEF Read, Following
  <2> QED BY <1>14, <2>1, <2>3 DEF Following
<1>17. ASSUME MeetEof PROVE OutInv'
  <2>1. UNCHANGED <<start, out, cancelled, db, reader>> /\ pc = "reply" /\ pc' = "eof of file"
    BY <1>17 DEF MeetEof, FileKeeps
  <2>2. (Read - Len(reader.buf))' = Read - Len(reader.buf)
    BY <2>1 DEF Read, Following
  <2> QED BY <1>14, <2>1, <2>2 DEF Following
<1>18. ASSUME NextCommand PROVE OutInv'
  <2>1. UNCHANGED <<start, out, cancelled, db, reader>> /\ pc = "aof" /\ pc' = IF cancelled THEN "closed" ELSE "reply"
    BY <1>18 DEF NextCommand, SendKeeps
  <2>2. CASE cancelled
    <3>1. AtRank(r)'
      BY <2>1, <2>2 DEF AtRank, Waiting, Receiving, Following
    <3> QED BY <1>6, <2>1, <2>2, <3>1
  <2>3. CASE ~ cancelled
    <3>1. (Read - Len(reader.buf))' = Read - Len(reader.buf)
      BY <2>1, <2>3 DEF Read, Following
    <3> QED BY <1>14, <2>1, <2>3, <3>1 DEF Following
  <2> QED BY <2>2, <2>3
<1>19. ASSUME ReadCancelled PROVE OutInv'
  <2>1. UNCHANGED <<start, out, cancelled>> /\ pc' = "closed"
    BY <1>19 DEF ReadCancelled, FileKeeps
  <2>2. AtRank(r)'
    BY <2>1 DEF AtRank, Waiting, Receiving, Following
  <2> QED BY <1>6, <2>1, <2>2
<1>20. ASSUME Source \/ Keep \/ OpenTimeout \/ SendAck \/ Cancel \/ Panic \/ UNCHANGED vars PROVE OutInv'
  <2>1. UNCHANGED <<start, out, pc, rdb, db, reader>> /\ (cancelled => cancelled')
    <3>1. UNCHANGED <<start, out, pc, rdb, db, reader>>
      BY <1>20 DEF Source, Heartbeat, FullResync, SourcePayload, SourceCommand, SourceKeeps, Keep, OpenWriter,
         StoreOrStop, Store, Rotate, CountReceived, StoreKeeps, OpenTimeout, SendAck, AckKeeps, Cancel, Panic, vars, main
    <3>2. cancelled' = cancelled \/ cancelled' = TRUE
      BY <1>20 DEF Source, Heartbeat, FullResync, SourcePayload, SourceCommand, SourceKeeps, Keep, OpenWriter,
         StoreOrStop, Store, Rotate, CountReceived, StoreKeeps, OpenTimeout, SendAck, AckKeeps, Cancel, Panic, vars, main
    <3> QED BY <3>1, <3>2
  <2>2. \A i : DbOf(i)' = DbOf(i)
    BY <1>0, <2>1, DueStays
  <2>3. Read' = Read
    BY <2>1 DEF Read, Following
  <2>4. AtRank(r)'
    <3>1. \A i : Selected(i) => Selected(i)'
      BY <1>0, <2>1, <2>2 DEF Selected
    <3>2. Selected(0) => Selected(0)'
      BY <3>1
    <3>3. Selected(r - Base) => Selected(r - Base)'
      BY <3>1
    <3> QED BY <1>0, <1>3, <2>1, <2>3, <3>2, <3>3 DEF AtRank, Waiting, Receiving, Following
  <2> QED BY <1>6, <2>1, <2>4
<1> QED
  BY <1>7, <1>8, <1>9, <1>10, <1>11, <1>12, <1>13, <1>15, <1>16, <1>17, <1>18, <1>19, <1>20 DEF Next, Send, Follow

-----------------------------------------------------------------------------
(***************************************************************************)
(* The theorems.                                                           *)
(***************************************************************************)
\* The invariant holds before the first handshake.
LEMMA InitInv == Init => Inv
<1> SUFFICES ASSUME Init PROVE Inv
  OBVIOUS
<1>1. DOMAIN files = {} /\ ~ Opened
  BY DEF Init, Opened
<1>2. Types
  <2>1. files \in [DOMAIN files -> Seq(Nat)]
    BY <1>1 DEF Init
  <2>2. source \in [step : {"idle", "asked", "saving", "streaming"}, beats : Nat, fed : Nat] /\ source.fed = 0
    BY DEF Init
  <2>3. stream \in Streams /\ Len(stream) \in Nat
    <3>1. stream \in Streams
      BY DEF Init
    <3>2. stream \in Seq([kind : {"data", "select", "ping"}, db : Nat, end : Nat \ {0}])
      BY <3>1, StreamsAssumption
    <3> QED BY <3>1, <3>2, LenProperties
  <2>4. source.fed \in 0..Len(stream)
    BY <2>2, <2>3
  <2>5. writer \in [name : Nat, offset : Nat, size : Nat, n : Nat] /\ stat \in [received : Nat, sent : Int]
    BY DEF Init
  <2>6. reader \in [name : Nat, pos : Nat, offset : Nat, buf : Seq(Nat)]
    <3>1. <<>> \in Seq(Nat)
      OBVIOUS
    <3> QED BY <3>1 DEF Init
  <2>7. input \in Seq(Token) /\ rdb \in Seq(Token) /\ tail \in Seq(Token) /\ out \in Seq(Message)
    BY DEF Init
  <2>8. /\ opts \in Options /\ cancelled \in BOOLEAN /\ dead \in BOOLEAN
        /\ pc = "bgsave" /\ wpc = "none" /\ start \in Nat /\ db \in Nat /\ acked \in Nat
    BY DEF Init
  <2> QED BY <1>1, <2>1, <2>2, <2>3, <2>4, <2>5, <2>6, <2>7, <2>8 DEF Types
<1>3. Stages
  BY <1>1 DEF Init, Stages, Waiting, Receiving, Sending, Following
<1>4. InputInv
  <2>1. Waiting /\ ~ Receiving /\ pc = "bgsave" /\ wpc = "none" /\ source.step # "streaming" /\ source.fed = 0 /\ Len(input) = 0
    BY DEF Init, Waiting, Receiving
  <2>2. InputWaits
    BY <2>1 DEF InputWaits
  <2>3. InputIsFlow
    BY <2>1 DEF InputIsFlow
  <2>4. PayloadIsKept
    BY <2>1 DEF PayloadIsKept
  <2> QED BY <2>2, <2>3, <2>4 DEF InputInv
<1>5. FilesInv
  BY <1>1 DEF FilesInv
<1>6. CountInv
  BY <1>1 DEF Init, CountInv, Stored
<1>7. ReaderInv
  BY DEF Init, ReaderInv, Following
<1>8. OutInv
  <2>1. Len(out) = 0 /\ pc = "bgsave" /\ db = 0
    BY DEF Init
  <2>2. OutIsDue /\ OutUpTo(0)
    BY <2>1 DEF OutIsDue, OutUpTo
  <2>3. AtRank(0)
    BY <2>1 DEF AtRank, Following
  <2>4. 0 \in 0..(Base + Len(stream))
    BY <1>2, Numbers
  <2> QED BY <2>2, <2>3, <2>4 DEF OutInv
<1> QED BY <1>2, <1>3, <1>4, <1>5, <1>6, <1>7, <1>8 DEF Inv

\* Every step of the source and of the three goroutines keeps it.
LEMMA NextInv == Inv /\ [Next]_vars => Inv'
<1> SUFFICES ASSUME Inv, [Next]_vars PROVE Inv'
  OBVIOUS
<1>1. Types /\ Stages /\ InputInv /\ FilesInv /\ CountInv /\ ReaderInv /\ OutInv
  BY DEF Inv
<1>2. InputWaits /\ InputIsFlow /\ PayloadIsKept
  BY <1>1 DEF InputInv
<1>3. Types'
  BY <1>1, <1>2, TypesStep
<1>4. Stages'
  BY <1>1, StagesStep
<1>5. InputWaits'
  BY <1>1, <1>2, WaitsStep
<1>6. InputIsFlow'
  BY <1>1, FlowStep
<1>7. PayloadIsKept'
  BY <1>1, PayloadStep
<1>8. FilesInv'
  BY <1>1, FilesStep
<1>9. CountInv'
  BY <1>1, CountStep
<1>10. ReaderInv'
  BY <1>1, <1>2, ReaderStep
<1>11. OutInv'
  BY <1>1, OutStep
<1> QED BY <1>3, <1>4, <1>5, <1>6, <1>7, <1>8, <1>9, <1>10, <1>11 DEF Inv, InputInv

\* The inductive invariant holds: what the connection, the files, the counters, the
\* buffer of the parser and the channel hold fits together in every reachable state.
THEOREM ReaderInductive == Spec => []Inv
<1>1. Inv /\ UNCHANGED vars => Inv'
  BY NextInv
<1> QED BY InitInv, NextInv, PTL DEF Spec

\* The messages up to a rank, each at its own rank, are SentInOrder.
LEMMA OrderFollows == Inv => SentInOrder
<1> SUFFICES ASSUME Inv, NEW j \in 1..Len(out)
             PROVE  LET rank == Rank(out[j])
                    IN  /\ rank \in Ranks /\ Wanted(rank) /\ out[j] = Due(rank)
                        /\ \A i \in 1..(j - 1) : Rank(out[i]) < rank
                        /\ \A r \in 1..(rank - 1) : Wanted(r) /\ (r > Base \/ ~ cancelled) =>
                               \E i \in 1..(j - 1) : out[i] = Due(r)
  BY DEF SentInOrder
<1>1. Types /\ OutIsDue
  BY DEF Inv, OutInv
<1>2. PICK s \in 0..(Base + Len(stream)) : OutUpTo(s)
  BY DEF Inv, OutInv
<1>3. Len(stream) \in Nat /\ Base \in Nat /\ Len(out) \in Nat
  BY <1>1, Numbers
<1>4. \A i \in 1..Len(out) : /\ Rank(out[i]) \in Ranks /\ Wanted(Rank(out[i])) /\ out[i] = Due(Rank(out[i]))
                             /\ \A k \in 1..(i - 1) : Rank(out[k]) < Rank(out[i])
  BY <1>1 DEF OutIsDue
<1>5. \A i \in 1..Len(out) : Rank(out[i]) \in Nat \ {0} /\ Rank(out[i]) <= s
  BY <1>2, <1>3, <1>4 DEF OutUpTo, Ranks
<1> DEFINE rank == Rank(out[j])
<1>6. ASSUME NEW r \in 1..(rank - 1), Wanted(r), r > Base \/ ~ cancelled
      PROVE  \E i \in 1..(j - 1) : out[i] = Due(r)
  <2>1. rank \in Nat /\ rank <= s /\ s \in Nat
    BY <1>3, <1>5
  <2> HIDE DEF rank
  <2>2. r \in 1..s /\ r < rank /\ r < s /\ r \in Nat
    BY <2>1
  <2>3. ~ GivenUp(r, s)
    BY <1>3, <1>6, <2>1, <2>2 DEF GivenUp
  <2>4. PICK i \in 1..Len(out) : out[i] = Due(r)
    BY <1>2, <1>6, <2>2, <2>3 DEF OutUpTo
  <2>5. r \in Ranks
    <3>1. rank \in Ranks
      BY <1>4 DEF rank
    <3> QED BY <1>3, <2>2, <3>1 DEF Ranks
  <2>6. Rank(out[i]) = r
    BY <1>1, <2>4, <2>5, RankOfDue
  <2>7. i # j
    BY <2>1, <2>2, <2>6 DEF rank
  <2>8. ~ (j < i)
    <3>1. ASSUME j < i PROVE FALSE
      <4>1. j \in 1..(i - 1)
        BY <1>3, <3>1
      <4>2. rank < r
        BY <1>4, <2>6, <4>1 DEF rank
      <4> QED BY <2>1, <2>2, <4>2
    <3> QED BY <3>1
  <2>9. i \in 1..(j - 1)
    BY <1>3, <2>7, <2>8
  <2> QED BY <2>4, <2>9
<1>7. /\ rank \in Ranks /\ Wanted(rank) /\ out[j] = Due(rank) /\ \A i \in 1..(j - 1) : Rank(out[i]) < rank
  BY <1>4
<1> QED BY <1>6, <1>7

\* Whatever the pieces in which the source sends and the reader reads, wherever the files
\* rotate, the consumer gets the snapshot, the base offset and every command once, in
\* order, with the offset at which it ends and the database of the SELECT before it, else
\* of the RDB file; without sync_rdb it is 0 before the first SELECT, whatever the file says.
THEOREM MessagesAreInOrder == Spec => []SentInOrder
<1> QED BY ReaderInductive, OrderFollows, PTL

\* A byte that was stored lies in a file, at the place that its number says.
LEMMA ByteIsKept ==
    ASSUME Inv, Opened, NEW k \in (First(start, reader.name) + 1)..(writer.offset - start)
    PROVE  \E f \in DOMAIN files : \E i \in 1..Len(files[f]) : k = First(start, f) + i /\ files[f][i] = k
<1>1. Types /\ FilesInv
  BY DEF Inv
<1>2. PICK f \in DOMAIN files : First(start, f) < k /\ k <= Past(f)
  BY <1>1 DEF FilesInv, FilesCover
<1>3. First(start, f) \in Nat /\ Len(files[f]) \in Nat /\ Past(f) = First(start, f) + Len(files[f]) /\ Past(f) \in Nat
  BY <1>1, FileFacts
<1>4. k \in Int
  <2>1. First(start, reader.name) \in Nat
    BY <1>1, FileFacts
  <2> QED BY <2>1
<1> DEFINE i == k - First(start, f)
<1>5. i \in 1..Len(files[f]) /\ k = First(start, f) + i
  BY <1>2, <1>3, <1>4
<1>6. files[f][i] = First(start, f) + i
  BY <1>1, <1>5 DEF FilesInv, FileBytes
<1> QED BY <1>5, <1>6

\* Acknowledged bytes are counted, counted ones are stored, stored ones lie in a file.
LEMMA KeptFollows == Inv => AckedIsKept
<1> SUFFICES ASSUME Inv, NEW k \in 1..(acked - start), pc # "closed"
             PROVE  k <= Read \/ \E f \in DOMAIN files : k \in Range(files[f])
  BY DEF AckedIsKept
<1>1. Types /\ Stages /\ InputIsFlow /\ FilesInv /\ CountInv /\ ReaderInv
  BY DEF Inv, InputInv
<1>2. acked \in Nat /\ start \in Nat /\ writer.offset \in Nat
  BY <1>1, Fields
<1>3. Opened /\ k <= writer.offset - start /\ k \in Nat
  <2>1. acked <= start + Stored
    BY <1>1 DEF CountInv
  <2>2. CASE Opened
    BY <1>2, <2>1, <2>2 DEF Stored
  <2>3. CASE ~ Opened
    BY <1>2, <2>1, <2>3 DEF Stored
  <2> QED BY <2>2, <2>3
<1>4. First(start, reader.name) \in Nat /\ (First(start, reader.name) < k \/ k <= Read)
  <2>1. CASE Following
    <3>1. Read = First(start, reader.name) + reader.pos /\ First(start, reader.name) \in Nat /\ Read \in Nat
      BY <1>1, <2>1, ReadBound
    <3>2. reader.pos \in Nat
      BY <1>1, Fields
    <3> QED BY <1>3, <3>1, <3>2
  <2>2. CASE ~ Following
    <3>1. reader.name = 0
      BY <1>1, <2>2 DEF Stages
    <3>2. First(start, reader.name) = 0
      BY <3>1 DEF First
    <3> QED BY <3>2
  <2> QED BY <2>1, <2>2
<1>5. ASSUME ~ (k <= Read) PROVE \E f \in DOMAIN files : k \in Range(files[f])
  <2>1. k \in (First(start, reader.name) + 1)..(writer.offset - start)
    BY <1>2, <1>3, <1>4, <1>5
  <2>2. PICK f \in DOMAIN files : \E i \in 1..Len(files[f]) : files[f][i] = k
    BY <1>3, <2>1, ByteIsKept
  <2>3. PICK i \in 1..Len(files[f]) : files[f][i] = k
    BY <2>2
  <2>4. DOMAIN files[f] = 1..Len(files[f])
    <3>1. files[f] \in Seq(Nat)
      BY <1>1, Fields
    <3> QED BY <3>1, LenProperties
  <2>5. k \in Range(files[f])
    BY <2>3, <2>4 DEF Range
  <2> QED BY <2>5
<1> QED BY <1>5

\* Acknowledged bytes, which the source may forget, are on disk or read: AckedIsKept is
\* proved although storing, counting and acknowledging are steps of two goroutines.
THEOREM AckedBytesAreKept == Spec => []AckedIsKept
<1> QED BY ReaderInductive, KeptFollows, PTL

\* Files that follow one another hold what lies ahead of the reader, once and in order.
LEMMA UnreadFollows == Inv => UnreadIsKept
<1> SUFFICES ASSUME Inv, Following
             PROVE  /\ reader.name \in DOMAIN files
                    /\ {Byte(p) : p \in Ahead} = (Read + 1)..(writer.offset - start)
                    /\ \A p, q \in Ahead : Precedes(p, q) => Byte(p) < Byte(q)
  BY DEF UnreadIsKept
<1> DEFINE r == reader.name
           o == writer.offset - start
<1>1. Types /\ Stages /\ InputIsFlow /\ FilesInv /\ ReaderInv
  BY DEF Inv, InputInv
<1>2. /\ Opened /\ Read = First(start, r) + reader.pos /\ First(start, r) \in Nat /\ Read \in Nat
      /\ r \in DOMAIN files /\ Len(files[r]) \in Nat /\ reader.pos <= Len(files[r])
  BY <1>1, ReadBound
<1>3. writer.offset \in Nat /\ start \in Nat /\ reader.pos \in Nat /\ r \in Nat /\ writer.name \in Nat
  BY <1>1, Fields
<1>4. \A f \in DOMAIN files :
         /\ f \in Nat /\ r <= f /\ f <= writer.name /\ Len(files[f]) \in Nat /\ First(start, f) \in Nat
         /\ Past(f) = First(start, f) + Len(files[f]) /\ Past(f) \in Nat
  BY <1>1, <1>2, FileFacts
<1>5. writer.name \in DOMAIN files /\ First(start, writer.name) + Len(files[writer.name]) = o
  BY <1>1, <1>2, FileFacts
<1>6. \A f, g \in DOMAIN files : f < g => Past(f) <= First(start, g)
  BY <1>1, <1>2 DEF FilesInv, FileOrder
<1> HIDE DEF r
<1>7. ASSUME NEW f \in DOMAIN files PROVE Past(f) <= o
  <2>1. f = writer.name \/ f < writer.name
    BY <1>3, <1>4
  <2>2. CASE f = writer.name
    BY <1>4, <1>5, <2>2
  <2>3. CASE f < writer.name
    <3>1. Past(f) <= First(start, writer.name)
      BY <1>5, <1>6, <2>3
    <3>2. Past(f) \in Nat /\ First(start, writer.name) \in Nat /\ Len(files[writer.name]) \in Nat
      BY <1>4, <1>5
    <3> QED BY <1>5, <3>1, <3>2
  <2> QED BY <2>1, <2>2, <2>3
<1>8. ASSUME NEW p PROVE p \in Places <=> \E f \in DOMAIN files : \E i \in 1..Len(files[f]) : p = <<f, i>>
  BY DEF Places
<1>9. ASSUME NEW f \in DOMAIN files, NEW i \in 1..Len(files[f])
      PROVE  /\ Byte(<<f, i>>) = First(start, f) + i /\ First(start, f) \in Nat /\ i \in Nat \ {0}
             /\ First(start, f) + i <= Past(f) /\ Past(f) \in Nat
             /\ <<f, i>> \in Places
  <2>1. Byte(<<f, i>>) = files[f][i]
    BY DEF Byte
  <2>2. files[f][i] = First(start, f) + i
    BY <1>1, <1>2 DEF FilesInv, FileBytes
  <2>3. First(start, f) \in Nat /\ Past(f) = First(start, f) + Len(files[f]) /\ Len(files[f]) \in Nat /\ Past(f) \in Nat
    BY <1>4
  <2>4. First(start, f) + i <= Past(f) /\ i \in Nat \ {0}
    BY <2>3
  <2>5. <<f, i>> \in Places
    BY <1>8
  <2> QED BY <2>1, <2>2, <2>3, <2>4, <2>5
<1>10. ASSUME NEW p \in Ahead PROVE Byte(p) \in (Read + 1)..o
  <2>1. PICK f \in DOMAIN files : \E i \in 1..Len(files[f]) : p = <<f, i>>
    BY <1>8 DEF Ahead
  <2>2. PICK i \in 1..Len(files[f]) : p = <<f, i>>
    BY <2>1
  <2>3. f > r \/ (f = r /\ i > reader.pos)
    BY <2>2 DEF Ahead, r
  <2>4. /\ Byte(p) = First(start, f) + i /\ First(start, f) \in Nat /\ i \in Nat \ {0}
        /\ First(start, f) + i <= Past(f) /\ Past(f) \in Nat /\ Past(f) <= o
    BY <1>7, <1>9, <2>2
  <2>5. First(start, f) + i > Read
    <3>1. CASE f > r
      <4>1. f \in Nat /\ r < f
        BY <1>3, <1>4, <3>1
      <4>2. Past(r) <= First(start, f)
        BY <1>2, <1>6, <4>1
      <4>3. Past(r) = First(start, r) + Len(files[r])
        BY <1>2, <1>4
      <4>4. /\ Read = First(start, r) + reader.pos /\ reader.pos <= Len(files[r]) /\ Len(files[r]) \in Nat
            /\ First(start, r) \in Nat /\ reader.pos \in Nat
        BY <1>2, <1>3, <1>4
      <4> DEFINE a == First(start, f)
                 b == First(start, r)
                 l == Len(files[r])
      <4>5. /\ a \in Nat /\ b \in Nat /\ l \in Nat /\ reader.pos \in Nat /\ i \in Nat \ {0}
            /\ Read = b + reader.pos /\ reader.pos <= l /\ b + l <= a
        BY <2>4, <4>2, <4>3, <4>4
      <4> HIDE DEF a, b, l
      <4>6. a + i > Read
        BY <4>5
      <4> QED BY <4>6 DEF a
    <3>2. CASE f = r /\ i > reader.pos
      <4> DEFINE b == First(start, r)
      <4>1. b \in Nat /\ reader.pos \in Nat /\ i \in Nat /\ Read = b + reader.pos
        BY <1>2, <1>3, <2>4, <3>2
      <4> HIDE DEF b
      <4>2. b + i > Read
        BY <3>2, <4>1
      <4> QED BY <3>2, <4>2 DEF b
    <3> QED BY <2>3, <3>1, <3>2
  <2> DEFINE b == First(start, f) + i
  <2>6. b \in Nat /\ Read \in Nat /\ o \in Int /\ b > Read /\ b <= o
    <3>1. b \in Nat /\ b <= Past(f) /\ Past(f) \in Nat /\ Past(f) <= o
      BY <2>4
    <3>2. Read \in Nat /\ o \in Int
      BY <1>2, <1>3
    <3>3. b > Read
      BY <2>5
    <3> HIDE DEF b, o
    <3> QED BY <3>1, <3>2, <3>3
  <2>7. Byte(p) = b
    BY <2>4
  <2> HIDE DEF b, o
  <2> QED BY <2>6, <2>7
<1>11. ASSUME NEW k \in (Read + 1)..o PROVE \E p \in Ahead : k = Byte(p)
  <2>1. k \in (First(start, r) + 1)..o /\ k > First(start, r) + reader.pos
    BY <1>2, <1>3
  <2>2. PICK f \in DOMAIN files : \E i \in 1..Len(files[f]) : k = First(start, f) + i /\ files[f][i] = k
    BY <1>2, <2>1, ByteIsKept DEF r
  <2>3. PICK i \in 1..Len(files[f]) : k = First(start, f) + i
    BY <2>2
  <2>4. f > r \/ (f = r /\ i > reader.pos)
    <3>1. f \in Nat /\ r <= f
      BY <1>4
    <3>2. CASE f = r
      BY <1>2, <1>3, <2>1, <2>3, <3>2
    <3>3. CASE f # r
      BY <1>3, <3>1, <3>3
    <3> QED BY <3>2, <3>3
  <2>5. <<f, i>> \in Ahead
    BY <1>9, <2>4 DEF Ahead, r
  <2>6. k = Byte(<<f, i>>)
    BY <1>9, <2>3
  <2> QED BY <2>5, <2>6
<1>12. {Byte(p) : p \in Ahead} = (Read + 1)..o
  BY <1>10, <1>11
<1>13. ASSUME NEW p \in Ahead, NEW q \in Ahead, Precedes(p, q) PROVE Byte(p) < Byte(q)
  <2>1. PICK f \in DOMAIN files : \E i \in 1..Len(files[f]) : p = <<f, i>>
    BY <1>8 DEF Ahead
  <2>2. PICK i \in 1..Len(files[f]) : p = <<f, i>>
    BY <2>1
  <2>3. PICK g \in DOMAIN files : \E j \in 1..Len(files[g]) : q = <<g, j>>
    BY <1>8 DEF Ahead
  <2>4. PICK j \in 1..Len(files[g]) : q = <<g, j>>
    BY <2>3
  <2>5. f < g \/ (f = g /\ i < j)
    BY <1>13, <2>2, <2>4 DEF Precedes
  <2>6. /\ Byte(p) = First(start, f) + i /\ First(start, f) \in Nat /\ i \in Nat
        /\ First(start, f) + i <= Past(f) /\ Past(f) \in Nat
    BY <1>9, <2>2
  <2>7. Byte(q) = First(start, g) + j /\ First(start, g) \in Nat /\ j \in Nat \ {0}
    BY <1>9, <2>4
  <2>8. CASE f < g
    <3>1. Past(f) <= First(start, g)
      BY <1>6, <2>8
    <3> QED BY <2>6, <2>7, <3>1
  <2>9. CASE f = g /\ i < j
    BY <2>6, <2>7, <2>9
  <2> QED BY <2>5, <2>8, <2>9
<1> QED BY <1>2, <1>12, <1>13 DEF r

\* Around a rotation no byte is skipped, read twice or removed unread: from where the
\* reader stands the files hold exactly what was stored and comes next, in order.
THEOREM UnreadBytesAreKept == Spec => []UnreadIsKept
<1> QED BY ReaderInductive, UnreadFollows, PTL
=============================================================================
