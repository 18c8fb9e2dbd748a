-------------------------- MODULE ScanReaderProofs --------------------------
(***************************************************************************)
(* Proofs about ScanReader, for any keys, databases, options and size of   *)
(* the channels.                                                           *)
(***************************************************************************)
EXTENDS ScanReader, SequenceTheorems, TLAPS

Event == [key : Keys, event : {"set", "del", "expired"}]
Request == [op : {"SELECT"}, arg : {k[1] : k \in Keys}]
           \cup [op : {"DUMP", "PTTL", "TYPE"}, arg : {k[2] : k \in Keys}]
Reply == [reply : {"OK", "Nil"}]
         \cup [reply : {"dump"}, key : Keys, version : Nat]
         \cup [reply : {"pttl"}, ms : {-2, -1, 0, 7}]
         \cup [reply : {"type"}, skipped : BOOLEAN]
Entry == [op : {"DEL", "PEXPIRE"}, key : Keys]
         \cup [op : {"WRITE"}, key : Keys, of : Keys, version : Nat]
         \cup [op : {"RESTORE"}, key : Keys, of : Keys, version : Nat, ttl : Int, replace : BOOLEAN]

ScanType == [pc : {"new", "call", "put", "send", "cursor", "finished", "stopped"}, db : 0..Len(Dbs),
             due : SUBSET Keys, key : Keys \cup {None}, repeats : Nat]
SubType == [pc : {"off", "psubscribe", "loop", "receive", "send", "stopped"}, key : Keys \cup {None}]
QueueType == [set : SUBSET Keys, inner : Seq(Keys), closed : BOOLEAN]

Types ==
    /\ opts \in Options
    /\ source \in [Keys -> Nat] /\ changes \in Nat /\ events \in Seq(Event)
    /\ scan \in ScanType /\ sub \in SubType /\ queue \in QueueType
    /\ pump \in [item : Keys \cup {None}, ended : BOOLEAN]
    /\ dumpDb \in Int
    /\ needRestore \in [items : Seq(Keys), closed : BOOLEAN]
    /\ restoring \in [db : Int, out : Seq(Entry)]
    /\ ch \in [entries : Seq(Entry), closed : BOOLEAN]
    /\ target \in [Keys -> Nat]

\* What the goroutines hold, and how far the versions of the source go.
Held ==
    /\ scan.pc \in {"put", "send"} => scan.key \in Keys
    /\ scan.pc \in {"call", "put", "send", "cursor"} => scan.db >= 1
    /\ sub.pc = "send" => sub.key \in Keys
    /\ \A k \in Keys : source[k] <= changes + 1

(***************************************************************************)
(* Who closes what: the queue is closed once, then the channels behind it  *)
(* one after the other.                                                    *)
(***************************************************************************)
Closes ==
    /\ opts.ksn <=> sub.pc # "off"
    /\ queue.closed => IF opts.ksn THEN cancelled /\ (sub.pc = "stopped" \/ scan.pc = "stopped")
                       ELSE scan.pc \in {"finished", "stopped"}
    /\ pump.ended => queue.closed
    /\ needRestore.closed => pump.ended
    /\ ch.closed => needRestore.closed

(***************************************************************************)
(* The connection of dump.  The replies that were not taken, followed by   *)
(* the requests that were not answered, are what dump sent for the keys of *)
(* needRestore: at[i] of them belong to the first i keys, and the source   *)
(* is at the key cur.                                                      *)
(***************************************************************************)
Before(its, first, i) == IF i = 1 THEN first ELSE its[i - 1][1]
Sel(its, first, i) == IF its[i][1] # Before(its, first, i) THEN 1 ELSE 0
Extra(skip) == IF skip # {} THEN 1 ELSE 0

\* The milliseconds a PTTL of a key may have returned.
MsOf(k) == IF k \in Volatile THEN {-2, 0, 7} ELSE {-2, -1}
Answers(a, op, k) ==
    /\ op = "SELECT" => a.reply = "OK"
    /\ op = "DUMP" => a.reply = "Nil" \/ (a.reply = "dump" /\ a.key = k /\ a.version > 0)
    /\ op = "PTTL" => a.reply = "pttl" /\ a.ms \in MsOf(k)
    /\ op = "TYPE" => a.reply = "type"
Fits(rq, rp, p, op, k) ==
    /\ p <= Len(rp) => Answers(rp[p], op, k)
    /\ p > Len(rp) => rq[p - Len(rp)] = [op |-> op, arg |-> IF op = "SELECT" THEN k[1] ELSE k[2]]

\* The requests of key k, from behind position b on, and the SELECT at b.
Block(rq, rp, b, sel, k, src, skip) ==
    /\ sel = 1 => Fits(rq, rp, b, "SELECT", k)
    /\ Fits(rq, rp, b + 1, "DUMP", k) /\ Fits(rq, rp, b + 2, "PTTL", k)
    /\ skip # {} => Fits(rq, rp, b + 3, "TYPE", k)
    /\ k \in skip /\ b + 3 <= Len(rp) /\ rp[b + 1].reply = "dump" /\ ~ rp[b + 3].skipped =>
           rp[b + 1].version # src[k]

\* A reply to DUMP is no newer than the source.
Known(rp, n) == \A p \in 1..Len(rp) : rp[p].reply = "dump" => rp[p].version <= n + 1

Places(at, its, first, skip, total) ==
    /\ at \in [0..Len(its) -> Nat] /\ at[0] = 0 /\ at[Len(its)] = total
    /\ \A i \in 1..Len(its) : at[i] = at[i - 1] + Sel(its, first, i) + 2 + Extra(skip)
    /\ \A i, j \in 0..Len(its) : i < j => at[i] < at[j]
Serving(at, cur, its, first, last, rp, db) ==
    /\ cur \in 1..(Len(its) + 1) /\ at[cur - 1] <= Len(rp)
    /\ cur <= Len(its) => /\ Len(rp) < at[cur]
                          /\ Len(rp) >= at[cur - 1] + Sel(its, first, cur) => db = its[cur][1]
    /\ cur = Len(its) + 1 => db = last
    /\ last = IF its = <<>> THEN first ELSE its[Len(its)][1]
Blocks(at, its, first, rq, rp, src, skip) ==
    \A i \in 1..Len(its) :
        Block(rq, rp, at[i - 1] + Sel(its, first, i), Sel(its, first, i), its[i], src, skip)

Wired(at, cur, its, first, last, rq, rp, db, src, skip) ==
    /\ Places(at, its, first, skip, Len(rp) + Len(rq))
    /\ Serving(at, cur, its, first, last, rp, db)
    /\ Blocks(at, its, first, rq, rp, src, skip)

WireInv ==
    /\ wire \in [requests : Seq(Request), db : Int, replies : Seq(Reply)]
    /\ \E its, first, last, rq, rp, db, src, skip, n :
          /\ its = needRestore.items /\ first = restoring.db /\ last = dumpDb /\ rq = wire.requests
          /\ rp = wire.replies /\ db = wire.db /\ src = source /\ skip = opts.skip /\ n = changes
          /\ Known(rp, n)
          /\ \E at, cur : Wired(at, cur, its, first, last, rq, rp, db, src, skip)

(***************************************************************************)
(* What restore is about to send, and what it sent.                        *)
(***************************************************************************)
Value(e, src, n, skip) ==
    /\ e.of = e.key /\ e.version > 0 /\ e.version <= n + 1
    /\ e.key \in skip => src[e.key] # e.version
Shape(o, rewrite) ==
    \/ Len(o) = 1 /\ o[1].op = "RESTORE" /\ (o[1].key \in Volatile <=> o[1].ttl # 0) /\ o[1].replace = rewrite
    \/ Len(o) = 1 /\ o[1].op = "WRITE" /\ o[1].key \notin Volatile
    \/ Len(o) = 2 /\ o[1].op = "WRITE" /\ o[1].key \in Volatile /\ o[2].op = "PEXPIRE"
OutFits(o, src, n, skip, rewrite) ==
    \/ o = <<>>
    \/ Len(o) = 1 /\ o[1].op = "PEXPIRE"
    \/ Shape(o, rewrite) /\ Value(o[1], src, n, skip)
OutInv ==
    \E o, src, n, skip, rewrite :
        /\ o = restoring.out /\ src = source /\ n = changes /\ skip = opts.skip /\ rewrite = opts.rewrite
        /\ OutFits(o, src, n, skip, rewrite)
SentInv ==
    \A i \in 1..Len(ch.entries) : ch.entries[i].op = "RESTORE" => ch.entries[i].replace = opts.rewrite

(***************************************************************************)
(* Without notifications, repeated keys and repeated databases a key is in *)
(* one place only on its way to the target.                                *)
(***************************************************************************)
Plain == ~ opts.ksn /\ scan.repeats = 0 /\ ~ ListedTwice
InScan == IF scan.pc \in {"put", "send"} THEN {scan.key} ELSE {}
InQueue == {k \in Keys : \E i \in 1..Len(queue.inner) : queue.inner[i] = k}
InPump == {k \in Keys : pump.item = k}
InDump == {k \in Keys : \E i \in 1..Len(needRestore.items) : needRestore.items[i] = k}
InOut == {k \in Keys : restoring.out # <<>> /\ restoring.out[1].key = k /\ restoring.out[1].op \in {"WRITE", "RESTORE"}}
InCh == {k \in Keys : \E i \in 1..Len(ch.entries) : ch.entries[i].key = k /\ ch.entries[i].op \in {"WRITE", "RESTORE"}}
Written == {k \in Keys : target[k] # 0}

\* The places behind scan, none of them twice the same key.
Apart ==
    /\ scan.due \cap (InScan \cup InQueue \cup InPump \cup InDump \cup InOut \cup InCh \cup Written) = {}
    /\ InScan \cap (InQueue \cup InPump \cup InDump \cup InOut \cup InCh \cup Written) = {}
    /\ InQueue \cap (InPump \cup InDump \cup InOut \cup InCh \cup Written) = {}
    /\ InPump \cap (InDump \cup InOut \cup InCh \cup Written) = {}
    /\ InDump \cap (InOut \cup InCh \cup Written) = {}
    /\ InOut \cap (InCh \cup Written) = {}
    /\ InCh \cap Written = {}
OnceQueued == \A i, j \in 1..Len(queue.inner) : queue.inner[i] = queue.inner[j] => i = j
OnceDumped == \A i, j \in 1..Len(needRestore.items) : needRestore.items[i] = needRestore.items[j] => i = j
OnceSent ==
    \A i, j \in 1..Len(ch.entries) :
        /\ ch.entries[i].op \in {"WRITE", "RESTORE"} /\ ch.entries[j].op \in {"WRITE", "RESTORE"}
        /\ ch.entries[i].key = ch.entries[j].key
        => i = j
\* The keys on the way are of the databases that scan has come to.
OnTheWay == InScan \cup InQueue \cup InPump \cup InDump \cup InOut \cup InCh \cup Written
Visited == \A k \in OnTheWay : \E j \in 1..scan.db : Dbs[j] = k[1]
Once == Apart /\ OnceQueued /\ OnceDumped /\ OnceSent /\ Visited
OnceInv == Plain => Once

Inv == Types /\ Held /\ Closes /\ WireInv /\ OutInv /\ SentInv /\ OnceInv /\ PanicsAreExplained
-----------------------------------------------------------------------------
(***************************************************************************)
(* Sequences.                                                              *)
(***************************************************************************)
\* Requests are sent behind the ones under way.
LEMMA Joined ==
    ASSUME NEW X, NEW s \in Seq(X), NEW t \in Seq(X)
    PROVE  /\ s \o t \in Seq(X) /\ Len(s) \in Nat /\ Len(t) \in Nat /\ Len(s \o t) = Len(s) + Len(t)
           /\ \A i \in 1..Len(s) : (s \o t)[i] = s[i]
           /\ \A i \in 1..Len(t) : (s \o t)[Len(s) + i] = t[i]
BY ConcatProperties, LenProperties

\* A key, a reply or an entry put behind the others.
LEMMA Longer ==
    ASSUME NEW X, NEW s \in Seq(X), NEW x \in X
    PROVE  /\ Append(s, x) \in Seq(X) /\ Len(s) \in Nat /\ Len(Append(s, x)) = Len(s) + 1
           /\ \A i \in 1..Len(s) : Append(s, x)[i] = s[i]
           /\ Append(s, x)[Len(s) + 1] = x
BY AppendProperties, LenProperties

\* What restore leaves of the replies when it takes the first n of them.
LEMMA Dropped ==
    ASSUME NEW X, NEW s \in Seq(X), NEW n \in 0..Len(s)
    PROVE  /\ SubSeq(s, n + 1, Len(s)) \in Seq(X) /\ Len(SubSeq(s, n + 1, Len(s))) = Len(s) - n /\ Len(s) \in Nat
           /\ \A i \in 1..(Len(s) - n) : SubSeq(s, n + 1, Len(s))[i] = s[n + i]
<1>1. Len(s) \in Nat /\ \A i \in 1..Len(s) : s[i] \in X
  BY LenProperties, ElementOfSeq
<1>2. \A i \in (n + 1)..Len(s) : s[i] \in X
  BY <1>1
<1>3. /\ SubSeq(s, n + 1, Len(s)) \in Seq(X)
      /\ Len(SubSeq(s, n + 1, Len(s))) = IF n + 1 <= Len(s) THEN Len(s) - (n + 1) + 1 ELSE 0
      /\ \A i \in 1..(Len(s) - (n + 1) + 1) : SubSeq(s, n + 1, Len(s))[i] = s[n + 1 + i - 1]
  BY <1>1, <1>2, SubSeqProperties
<1>4. Len(SubSeq(s, n + 1, Len(s))) = Len(s) - n
  BY <1>1, <1>3
<1>5. \A i \in 1..(Len(s) - n) : SubSeq(s, n + 1, Len(s))[i] = s[n + i]
  BY <1>1, <1>3
<1> QED BY <1>1, <1>3, <1>4, <1>5

\* The replies restore takes.
LEMMA Taking ==
    ASSUME NEW X, NEW s \in Seq(X), NEW n \in 0..Len(s)
    PROVE  \A i \in 1..n : SubSeq(s, 1, n)[i] = s[i]
<1>1. Len(s) \in Nat /\ \A i \in 1..Len(s) : s[i] \in X
  BY LenProperties, ElementOfSeq
<1>2. \A i \in 1..n : s[i] \in X
  BY <1>1
<1>3. \A i \in 1..(n - 1 + 1) : SubSeq(s, 1, n)[i] = s[1 + i - 1]
  BY <1>1, <1>2, SubSeqProperties
<1> QED BY <1>1, <1>3

\* Nothing is there.
LEMMA EmptyLen == ASSUME NEW X, NEW s \in Seq(X) PROVE s = <<>> <=> Len(s) = 0
BY EmptySeq

\* A key, a reply, an entry or a notification taken from the front.
LEMMA Shortened ==
    ASSUME NEW X, NEW s \in Seq(X), s # <<>>
    PROVE  /\ Head(s) \in X /\ Head(s) = s[1] /\ Tail(s) \in Seq(X) /\ Len(s) \in Nat \ {0}
           /\ Len(Tail(s)) = Len(s) - 1
           /\ \A i \in 1..(Len(s) - 1) : Tail(s)[i] = s[1 + i]
BY HeadTailProperties, EmptySeq

-----------------------------------------------------------------------------
(***************************************************************************)
(* The connection of dump.                                                 *)
(***************************************************************************)
\* A key has at least two requests, and its requests have their places between those of the others.
LEMMA PlaceFacts ==
    ASSUME NEW at, NEW its \in Seq(Keys), NEW first, NEW skip, NEW total, Places(at, its, first, skip, total)
    PROVE  /\ Len(its) \in Nat /\ total \in Nat /\ Extra(skip) \in 0..1 /\ at[0] = 0 /\ at[Len(its)] = total
           /\ \A i \in 0..Len(its) : at[i] \in Nat /\ at[i] <= total
           /\ \A i, j \in 0..Len(its) : i <= j => at[i] <= at[j]
           /\ \A i \in 1..Len(its) : /\ i - 1 \in 0..Len(its) /\ i \in 0..Len(its) /\ its[i] \in Keys
                                     /\ Sel(its, first, i) \in 0..1
                                     /\ at[i] = at[i - 1] + Sel(its, first, i) + 2 + Extra(skip)
<1>1. Len(its) \in Nat /\ \A i \in 1..Len(its) : its[i] \in Keys
  BY LenProperties, ElementOfSeq
<1>2. \A i \in 0..Len(its) : at[i] \in Nat
  BY DEF Places
<1>3. ASSUME NEW i \in 0..Len(its), NEW j \in 0..Len(its), i <= j PROVE at[i] <= at[j]
  <2>1. at[i] \in Nat /\ at[j] \in Nat
    BY <1>2
  <2>2. CASE i = j
    BY <2>1, <2>2
  <2>3. CASE i # j
    <3>1. i < j
      BY <1>1, <1>3, <2>3
    <3>2. at[i] < at[j]
      BY <3>1 DEF Places
    <3> QED BY <3>2, <2>1
  <2> QED BY <2>2, <2>3
<1>4. at[0] = 0 /\ at[Len(its)] = total /\ Len(its) \in 0..Len(its)
  BY <1>1 DEF Places
<1>5. total \in Nat
  BY <1>2, <1>4
<1>6. \A i \in 0..Len(its) : at[i] <= total
  <2>1. \A i \in 0..Len(its) : i <= Len(its)
    BY <1>1
  <2> QED BY <2>1, <1>3, <1>4
<1>7. Extra(skip) \in 0..1
  BY DEF Extra
<1>8. ASSUME NEW i \in 1..Len(its)
      PROVE  /\ i - 1 \in 0..Len(its) /\ i \in 0..Len(its) /\ its[i] \in Keys
             /\ Sel(its, first, i) \in 0..1
             /\ at[i] = at[i - 1] + Sel(its, first, i) + 2 + Extra(skip)
  <2>1. i - 1 \in 0..Len(its) /\ i \in 0..Len(its) /\ its[i] \in Keys
    BY <1>1
  <2>2. Sel(its, first, i) \in 0..1
    BY DEF Sel
  <2>3. at[i] = at[i - 1] + Sel(its, first, i) + 2 + Extra(skip)
    BY DEF Places
  <2> QED BY <2>1, <2>2, <2>3
<1> QED BY <1>1, <1>2, <1>3, <1>4, <1>5, <1>6, <1>7, <1>8

\* A position belongs to one key only.
LEMMA OnePlace ==
    ASSUME NEW at, NEW its \in Seq(Keys), NEW first, NEW skip, NEW total, Places(at, its, first, skip, total),
           NEW i \in 1..Len(its), NEW j \in 1..Len(its), NEW p \in Int,
           at[i - 1] < p, p <= at[i], at[j - 1] < p, p <= at[j]
    PROVE  i = j
<1>1. /\ Len(its) \in Nat /\ \A l, m \in 0..Len(its) : l <= m => at[l] <= at[m]
      /\ \A l \in 0..Len(its) : at[l] \in Nat
  BY PlaceFacts
<1>2. i - 1 \in 0..Len(its) /\ j - 1 \in 0..Len(its) /\ i \in 0..Len(its) /\ j \in 0..Len(its)
  BY <1>1
<1>3. at[i - 1] \in Nat /\ at[j - 1] \in Nat /\ at[i] \in Nat /\ at[j] \in Nat
  BY <1>1, <1>2
<1>4. ~ (i <= j - 1)
  <2>1. i <= j - 1 => at[i] <= at[j - 1]
    BY <1>1, <1>2
  <2> QED BY <2>1, <1>3
<1>5. ~ (j <= i - 1)
  <2>1. j <= i - 1 => at[j] <= at[i - 1]
    BY <1>1, <1>2
  <2> QED BY <2>1, <1>3
<1> QED BY <1>4, <1>5, <1>1

\* A reply arrives: the first request under way has become the last reply.
LEMMA FitsServe ==
    ASSUME NEW rq \in Seq(Request), NEW rp \in Seq(Reply), NEW a \in Reply, rq # <<>>,
           NEW p \in 1..(Len(rp) + Len(rq)), NEW op, NEW k, Fits(rq, rp, p, op, k),
           p = Len(rp) + 1 => Answers(a, op, k)
    PROVE  Fits(Tail(rq), Append(rp, a), p, op, k)
<1> DEFINE R == Len(rp)
<1> DEFINE Q == Len(rq)
<1> DEFINE rp2 == Append(rp, a)
<1> DEFINE rq2 == Tail(rq)
<1>1. /\ R \in Nat /\ Len(rp2) = R + 1 /\ rp2[R + 1] = a /\ \A i \in 1..R : rp2[i] = rp[i]
  BY Longer
<1>2. /\ Q \in Nat \ {0} /\ \A i \in 1..(Q - 1) : rq2[i] = rq[1 + i]
  BY Shortened
<1>3. p <= R => Answers(rp[p], op, k)
  BY DEF Fits
<1>4. p > R => rq[p - R] = [op |-> op, arg |-> IF op = "SELECT" THEN k[1] ELSE k[2]]
  BY DEF Fits
<1>5. p \in 1..(R + Q)
  OBVIOUS
<1>6. p = R + 1 => Answers(a, op, k)
  OBVIOUS
<1> HIDE DEF R, Q, rp2, rq2
<1>7. ASSUME p <= Len(rp2) PROVE Answers(rp2[p], op, k)
  <2>1. CASE p = R + 1
    BY <2>1, <1>1, <1>6
  <2>2. CASE p # R + 1
    <3>1. p \in 1..R /\ p <= R
      BY <2>2, <1>7, <1>1, <1>5, <1>2
    <3>2. rp2[p] = rp[p]
      BY <3>1, <1>1
    <3> QED BY <3>1, <3>2, <1>3
  <2> QED BY <2>1, <2>2
<1>8. ASSUME p > Len(rp2)
      PROVE  rq2[p - Len(rp2)] = [op |-> op, arg |-> IF op = "SELECT" THEN k[1] ELSE k[2]]
  <2>1. p > R /\ p - Len(rp2) \in 1..(Q - 1) /\ 1 + (p - Len(rp2)) = p - R
    BY <1>8, <1>1, <1>2, <1>5
  <2>2. rq2[p - Len(rp2)] = rq[1 + (p - Len(rp2))]
    BY <2>1, <1>2
  <2>3. rq2[p - Len(rp2)] = rq[p - R]
    BY <2>1, <2>2
  <2> QED BY <2>3, <2>1, <1>4
<1> QED BY <1>7, <1>8 DEF Fits, rp2, rq2

\* More requests follow.
LEMMA FitsMore ==
    ASSUME NEW rq \in Seq(Request), NEW rp \in Seq(Reply), NEW more \in Seq(Request),
           NEW p \in 1..(Len(rp) + Len(rq)), NEW op, NEW k, Fits(rq, rp, p, op, k)
    PROVE  Fits(rq \o more, rp, p, op, k)
<1>1. /\ Len(rq) \in Nat /\ \A i \in 1..Len(rq) : (rq \o more)[i] = rq[i]
  BY Joined
<1>2. Len(rp) \in Nat
  BY LenProperties
<1>3. ASSUME p > Len(rp) PROVE (rq \o more)[p - Len(rp)] = rq[p - Len(rp)]
  <2>1. p - Len(rp) \in 1..Len(rq)
    BY <1>1, <1>2, <1>3
  <2> QED BY <2>1, <1>1
<1>4. p <= Len(rp) => Answers(rp[p], op, k)
  BY DEF Fits
<1>5. p > Len(rp) => rq[p - Len(rp)] = [op |-> op, arg |-> IF op = "SELECT" THEN k[1] ELSE k[2]]
  BY DEF Fits
<1> QED BY <1>3, <1>4, <1>5 DEF Fits

\* The first n replies are gone.
LEMMA FitsDropped ==
    ASSUME NEW rq \in Seq(Request), NEW rp \in Seq(Reply), NEW n \in 0..Len(rp), NEW p \in Int, p > n,
           NEW op, NEW k, Fits(rq, rp, p, op, k)
    PROVE  Fits(rq, SubSeq(rp, n + 1, Len(rp)), p - n, op, k)
<1> DEFINE R == Len(rp)
<1> DEFINE rp2 == SubSeq(rp, n + 1, Len(rp))
<1>1. /\ R \in Nat /\ n \in 0..R /\ Len(rp2) = R - n /\ \A i \in 1..(R - n) : rp2[i] = rp[n + i]
  BY Dropped
<1>2. p <= R => Answers(rp[p], op, k)
  BY DEF Fits
<1>3. p > R => rq[p - R] = [op |-> op, arg |-> IF op = "SELECT" THEN k[1] ELSE k[2]]
  BY DEF Fits
<1> HIDE DEF R, rp2
<1>4. ASSUME p - n <= Len(rp2) PROVE Answers(rp2[p - n], op, k)
  <2>1. p <= R /\ p - n \in 1..(R - n) /\ n + (p - n) = p
    BY <1>4, <1>1
  <2>2. rp2[p - n] = rp[n + (p - n)]
    BY <2>1, <1>1
  <2>3. rp2[p - n] = rp[p]
    BY <2>1, <2>2
  <2> QED BY <2>1, <2>3, <1>2
<1>5. ASSUME p - n > Len(rp2)
      PROVE  rq[(p - n) - Len(rp2)] = [op |-> op, arg |-> IF op = "SELECT" THEN k[1] ELSE k[2]]
  <2>1. p > R /\ (p - n) - Len(rp2) = p - R
    BY <1>5, <1>1
  <2> QED BY <2>1, <1>3
<1> QED BY <1>4, <1>5 DEF Fits, rp2

\* The source changes: a value that was dumped does not come back.
LEMMA WiredSource ==
    ASSUME NEW at, NEW cur, NEW its \in Seq(Keys), NEW first, NEW last, NEW rq \in Seq(Request),
           NEW rp \in Seq(Reply), NEW db, NEW src, NEW src2, NEW skip, NEW n \in Nat,
           Wired(at, cur, its, first, last, rq, rp, db, src, skip), Known(rp, n),
           \A k \in Keys : src2[k] = src[k] \/ src2[k] = 0 \/ src2[k] = n + 2
    PROVE  Wired(at, cur, its, first, last, rq, rp, db, src2, skip)
<1>1. Places(at, its, first, skip, Len(rp) + Len(rq)) /\ Blocks(at, its, first, rq, rp, src, skip)
  BY DEF Wired
<1>2. ASSUME NEW i \in 1..Len(its)
      PROVE  Block(rq, rp, at[i - 1] + Sel(its, first, i), Sel(its, first, i), its[i], src2, skip)
  <2> DEFINE b == at[i - 1] + Sel(its, first, i)
  <2> DEFINE k == its[i]
  <2>1. Block(rq, rp, b, Sel(its, first, i), k, src, skip)
    BY <1>1 DEF Blocks
  <2>2. k \in Keys /\ b \in Nat
    <3>1. k \in Keys /\ at[i - 1] \in Nat /\ Sel(its, first, i) \in 0..1
      BY <1>1, PlaceFacts
    <3> QED BY <3>1
  <2> HIDE DEF b, k
  <2>3. ASSUME k \in skip, b + 3 <= Len(rp), rp[b + 1].reply = "dump", ~ rp[b + 3].skipped
        PROVE  rp[b + 1].version # src2[k]
    <3>1. rp[b + 1].version # src[k]
      BY <2>1, <2>3 DEF Block
    <3>2. Len(rp) \in Nat
      BY LenProperties
    <3>3. b + 1 \in 1..Len(rp) /\ b + 1 <= Len(rp)
      BY <2>2, <2>3, <3>2
    <3>4. Fits(rq, rp, b + 1, "DUMP", k)
      BY <2>1 DEF Block
    <3>5. Answers(rp[b + 1], "DUMP", k)
      BY <3>3, <3>4 DEF Fits
    <3>6. rp[b + 1].version > 0
      BY <3>5, <2>3 DEF Answers
    <3>7. rp[b + 1].version <= n + 1
      BY <3>3, <2>3 DEF Known
    <3>8. rp[b + 1] \in Reply
      BY <3>3, ElementOfSeq
    <3>9. rp[b + 1].version \in Nat
      BY <3>8, <2>3 DEF Reply
    <3> DEFINE v == rp[b + 1].version
    <3>10. v \in Nat /\ v > 0 /\ v <= n + 1 /\ v # src[k]
      BY <3>1, <3>6, <3>7, <3>9
    <3> HIDE DEF v
    <3>11. v # src2[k]
      BY <3>10, <2>2
    <3> QED BY <3>11 DEF v
  <2> QED BY <2>1, <2>3 DEF Block, b, k
<1>3. Blocks(at, its, first, rq, rp, src2, skip)
  BY <1>2 DEF Blocks
<1> QED BY <1>3 DEF Wired

\* The key the source is at when a request waits for its answer.
LEMMA ServingKey ==
    ASSUME NEW at, NEW cur, NEW its \in Seq(Keys), NEW first, NEW last, NEW rq \in Seq(Request),
           NEW rp \in Seq(Reply), NEW db, NEW skip, rq # <<>>,
           Places(at, its, first, skip, Len(rp) + Len(rq)), Serving(at, cur, its, first, last, rp, db)
    PROVE  /\ cur \in 1..Len(its) /\ at[cur - 1] <= Len(rp) /\ Len(rp) < at[cur]
           /\ Len(rp) >= at[cur - 1] + Sel(its, first, cur) => db = its[cur][1]
<1>1. Len(rp) \in Nat /\ Len(its) \in Nat
  BY LenProperties
<1>2. Len(rq) \in Nat \ {0}
  BY Shortened
<1>3. at[Len(its)] = Len(rp) + Len(rq)
  BY DEF Places
<1>4. cur \in 1..(Len(its) + 1) /\ at[cur - 1] <= Len(rp)
  BY DEF Serving
<1>5. cur # Len(its) + 1
  <2>1. ASSUME cur = Len(its) + 1 PROVE FALSE
    <3>1. cur - 1 = Len(its)
      BY <2>1, <1>1
    <3>2. at[Len(its)] <= Len(rp)
      BY <3>1, <1>4
    <3> QED BY <3>2, <1>1, <1>2, <1>3
  <2> QED BY <2>1
<1>6. cur \in 1..Len(its) /\ cur <= Len(its)
  BY <1>1, <1>4, <1>5
<1> QED BY <1>4, <1>6 DEF Serving

\* The request that follows the SELECT and R - b more.
LEMMA Behind ==
    ASSUME NEW R \in Nat, NEW b \in Nat, NEW x \in 0..1, R >= b, R < b + 2 + x
    PROVE  R + 1 = b + 1 \/ R + 1 = b + 2 \/ (R + 1 = b + 3 /\ x = 1)
OBVIOUS

\* What a has to be as the reply to the request r, whichever key r is for, and the database after it.
DbAfter(r, db) == IF r.op = "SELECT" THEN r.arg ELSE db
IsAnswer(a, r, db, src, skip) ==
    \A k \in Keys : \A op \in {"SELECT", "DUMP", "PTTL", "TYPE"} :
        /\ r = [op |-> op, arg |-> IF op = "SELECT" THEN k[1] ELSE k[2]]
        /\ op = "SELECT" \/ db = k[1]
        => Answers(a, op, k) /\ (op = "TYPE" /\ k \in skip /\ ~ a.skipped => src[k] = 0)

\* The source answers the first request under way for the key it belongs to.
LEMMA WiredServe ==
    ASSUME NEW at, NEW cur, NEW its \in Seq(Keys), NEW first, NEW last, NEW rq \in Seq(Request),
           NEW rp \in Seq(Reply), NEW db, NEW src, NEW skip, NEW a \in Reply, rq # <<>>, NEW db2,
           Wired(at, cur, its, first, last, rq, rp, db, src, skip),
           db2 = DbAfter(rq[1], db),
           IsAnswer(a, rq[1], db, src, skip)
    PROVE  \E c : Wired(at, c, its, first, last, Tail(rq), Append(rp, a), db2, src, skip)
<1> DEFINE R == Len(rp)
<1> DEFINE n == Len(its)
<1> DEFINE Q == Len(rq)
<1> DEFINE rp2 == Append(rp, a)
<1> DEFINE rq2 == Tail(rq)
<1> DEFINE x == Extra(skip)
<1> DEFINE S(i) == Sel(its, first, i)
<1>1. Places(at, its, first, skip, R + Q) /\ Serving(at, cur, its, first, last, rp, db)
      /\ Blocks(at, its, first, rq, rp, src, skip)
  BY DEF Wired
<1>2. /\ n \in Nat /\ x \in 0..1 /\ at[0] = 0 /\ at[n] = R + Q
      /\ \A i \in 0..n : at[i] \in Nat /\ at[i] <= R + Q
      /\ \A i, j \in 0..n : i <= j => at[i] <= at[j]
      /\ \A i \in 1..n : /\ i - 1 \in 0..n /\ i \in 0..n /\ its[i] \in Keys /\ S(i) \in 0..1
                         /\ at[i] = at[i - 1] + S(i) + 2 + x
  BY <1>1, PlaceFacts, SMTT(30)
<1>3. /\ R \in Nat /\ Len(rp2) = R + 1 /\ rp2[R + 1] = a /\ (\A i \in 1..R : rp2[i] = rp[i]) /\ rp2 \in Seq(Reply)
  BY Longer
<1>4. /\ Q \in Nat \ {0} /\ Len(rq2) = Q - 1 /\ rq2 \in Seq(Request)
  BY Shortened
<1>5. /\ cur \in 1..n /\ at[cur - 1] <= R /\ R < at[cur]
      /\ R >= at[cur - 1] + S(cur) => db = its[cur][1]
  BY <1>1, ServingKey
<1> DEFINE k == its[cur]
<1> DEFINE b == at[cur - 1] + S(cur)
<1>6. /\ k \in Keys /\ S(cur) \in 0..1 /\ at[cur - 1] \in Nat /\ at[cur] \in Nat /\ b = at[cur - 1] + S(cur)
      /\ at[cur] = b + 2 + x /\ b \in Nat
  BY <1>2, <1>5, SMTT(30)
<1>7. Block(rq, rp, b, S(cur), k, src, skip)
  BY <1>1, <1>5 DEF Blocks
<1>8. x = 1 <=> skip # {}
  BY DEF Extra
<1>9. R >= b => db = k[1]
  BY <1>5
<1> DEFINE lo == at[cur - 1]
<1> DEFINE hi == at[cur]
<1>20. /\ x \in 0..1 /\ R \in Nat /\ Q \in Nat /\ Len(rp2) = R + 1
       /\ lo <= R /\ R < hi /\ lo \in Nat /\ hi \in Nat /\ b \in Nat /\ hi = b + 2 + x
       /\ b = lo + S(cur) /\ S(cur) \in 0..1 /\ cur \in 1..n /\ n \in Nat
  BY <1>2, <1>3, <1>4, <1>5, <1>6
\* What the next request is.
<1> HIDE DEF R, n, Q, rp2, rq2, x, S, k, b, lo, hi
<1>10. /\ S(cur) = 1 /\ R + 1 = b => rq[1] = [op |-> "SELECT", arg |-> k[1]]
       /\ R + 1 = b + 1 => rq[1] = [op |-> "DUMP", arg |-> k[2]]
       /\ R + 1 = b + 2 => rq[1] = [op |-> "PTTL", arg |-> k[2]]
       /\ skip # {} /\ R + 1 = b + 3 => rq[1] = [op |-> "TYPE", arg |-> k[2]]
  <2>1. ASSUME NEW op, Fits(rq, rp, R + 1, op, k)
        PROVE  rq[1] = [op |-> op, arg |-> IF op = "SELECT" THEN k[1] ELSE k[2]]
    <3>1. R + 1 > R /\ (R + 1) - R = 1
      BY <1>3
    <3> QED BY <2>1, <3>1 DEF Fits, R
  <2>2. S(cur) = 1 => Fits(rq, rp, b, "SELECT", k)
    BY <1>7 DEF Block
  <2>3. Fits(rq, rp, b + 1, "DUMP", k) /\ Fits(rq, rp, b + 2, "PTTL", k)
    BY <1>7 DEF Block
  <2>4. skip # {} => Fits(rq, rp, b + 3, "TYPE", k)
    BY <1>7 DEF Block
  <2>5. S(cur) = 1 /\ R + 1 = b => rq[1] = [op |-> "SELECT", arg |-> k[1]]
    BY <2>1, <2>2
  <2>6. R + 1 = b + 1 => rq[1] = [op |-> "DUMP", arg |-> k[2]]
    BY <2>1, <2>3
  <2>7. R + 1 = b + 2 => rq[1] = [op |-> "PTTL", arg |-> k[2]]
    BY <2>1, <2>3
  <2>8. skip # {} /\ R + 1 = b + 3 => rq[1] = [op |-> "TYPE", arg |-> k[2]]
    BY <2>1, <2>4
  <2> QED BY <2>5, <2>6, <2>7, <2>8
<1>11. /\ S(cur) = 1 /\ R + 1 = b => Answers(a, "SELECT", k)
       /\ R + 1 = b + 1 => Answers(a, "DUMP", k)
       /\ R + 1 = b + 2 => Answers(a, "PTTL", k)
       /\ skip # {} /\ R + 1 = b + 3 => Answers(a, "TYPE", k) /\ (k \in skip /\ ~ a.skipped => src[k] = 0)
  <2>1. S(cur) = 1 /\ R + 1 = b => Answers(a, "SELECT", k)
    BY <1>6, <1>10 DEF IsAnswer
  <2>2. R + 1 = b + 1 => Answers(a, "DUMP", k)
    <3>1. R + 1 = b + 1 => db = k[1]
      BY <1>9, <1>3, <1>6
    <3> QED BY <3>1, <1>6, <1>10 DEF IsAnswer
  <2>3. R + 1 = b + 2 => Answers(a, "PTTL", k)
    <3>1. R + 1 = b + 2 => db = k[1]
      BY <1>9, <1>3, <1>6
    <3> QED BY <3>1, <1>6, <1>10 DEF IsAnswer
  <2>4. skip # {} /\ R + 1 = b + 3 => Answers(a, "TYPE", k) /\ (k \in skip /\ ~ a.skipped => src[k] = 0)
    <3>1. R + 1 = b + 3 => db = k[1]
      BY <1>9, <1>3, <1>6
    <3> QED BY <3>1, <1>6, <1>10 DEF IsAnswer
  <2> QED BY <2>1, <2>2, <2>3, <2>4
<1>12. Places(at, its, first, skip, Len(rp2) + Len(rq2))
  <2>1. Len(rp2) + Len(rq2) = R + Q
    BY <1>3, <1>4
  <2> QED BY <2>1, <1>1
<1>13. Blocks(at, its, first, rq2, rp2, src, skip)
  <2> SUFFICES ASSUME NEW i \in 1..Len(its)
               PROVE  Block(rq2, rp2, at[i - 1] + S(i), S(i), its[i], src, skip)
    BY DEF Blocks, S
  <2> DEFINE c == at[i - 1] + S(i)
  <2> DEFINE h == its[i]
  <2>1. Block(rq, rp, c, S(i), h, src, skip)
    BY <1>1 DEF Blocks, S
  <2> DEFINE u == at[i - 1]
  <2> DEFINE v == at[i]
  <2>2. /\ h \in Keys /\ S(i) \in 0..1 /\ u \in Nat /\ v \in Nat /\ v = c + 2 + x
        /\ v <= R + Q /\ c = u + S(i) /\ c \in Nat
    <3>1. i \in 1..n
      BY DEF n
    <3>2. i - 1 \in 0..n /\ i \in 0..n /\ h \in Keys /\ S(i) \in 0..1 /\ v = u + S(i) + 2 + x
      BY <3>1, <1>2
    <3>3. u \in Nat /\ v \in Nat /\ v <= R + Q
      BY <3>2, <1>2
    <3> QED BY <3>2, <3>3
  <2> HIDE DEF c, h, u, v
  <2> DEFINE s == S(i)
  <2>9. s \in 0..1 /\ u \in Nat /\ v \in Nat /\ c \in Nat /\ v = c + 2 + x /\ v <= R + Q /\ c = u + s
        /\ x \in 0..1 /\ R \in Nat /\ Q \in Nat
    BY <2>2, <1>20
  <2> HIDE DEF s
  <2>10. s = 1 => c \in 1..(R + Q) /\ u < c /\ c <= v
    BY <2>9
  <2>11. c + 1 \in 1..(R + Q) /\ u < c + 1 /\ c + 1 <= v /\ c + 1 \in Int
    BY <2>9
  <2>12. c + 2 \in 1..(R + Q) /\ u < c + 2 /\ c + 2 <= v /\ c + 2 \in Int
    BY <2>9
  <2>13. x = 1 => c + 3 \in 1..(R + Q) /\ u < c + 3 /\ c + 3 <= v /\ c + 3 \in Int
    BY <2>9
  <2>14. c + 3 <= R + 1 => c + 1 \in 1..R /\ c + 1 <= R /\ (c + 3 # R + 1 => c + 3 \in 1..R /\ c + 3 <= R)
    BY <2>9
  <2>3. ASSUME NEW p \in Int, u < p, p <= v, p = R + 1 PROVE i = cur /\ h = k /\ c = b
    <3>1. lo < p /\ p <= hi
      BY <2>3, <1>20
    <3>2. cur \in 1..Len(its)
      BY <1>20 DEF n
    <3>3. i = cur
      BY <3>1, <3>2, <2>3, <1>1, OnePlace DEF lo, hi, u, v
    <3> QED BY <3>3 DEF k, b, c, h
  <2>4. S(i) = 1 => Fits(rq2, rp2, c, "SELECT", h)
    <3> SUFFICES ASSUME S(i) = 1 PROVE Fits(rq2, rp2, c, "SELECT", h)
      OBVIOUS
    <3>1. c \in 1..(R + Q) /\ u < c /\ c <= v
      BY <2>10 DEF s
    <3>2. Fits(rq, rp, c, "SELECT", h)
      BY <2>1 DEF Block
    <3>3. c = R + 1 => Answers(a, "SELECT", h)
      BY <3>1, <2>3, <1>11
    <3> QED BY <3>1, <3>2, <3>3, FitsServe DEF R, Q, rp2, rq2
  <2>5. Fits(rq2, rp2, c + 1, "DUMP", h)
    <3>1. c + 1 \in 1..(R + Q) /\ u < c + 1 /\ c + 1 <= v /\ c + 1 \in Int
      BY <2>11
    <3>2. Fits(rq, rp, c + 1, "DUMP", h)
      BY <2>1 DEF Block
    <3>3. c + 1 = R + 1 => Answers(a, "DUMP", h)
      BY <3>1, <2>3, <1>11
    <3> QED BY <3>1, <3>2, <3>3, FitsServe DEF R, Q, rp2, rq2
  <2>6. Fits(rq2, rp2, c + 2, "PTTL", h)
    <3>1. c + 2 \in 1..(R + Q) /\ u < c + 2 /\ c + 2 <= v /\ c + 2 \in Int
      BY <2>12
    <3>2. Fits(rq, rp, c + 2, "PTTL", h)
      BY <2>1 DEF Block
    <3>3. c + 2 = R + 1 => Answers(a, "PTTL", h)
      BY <3>1, <2>3, <1>11
    <3> QED BY <3>1, <3>2, <3>3, FitsServe DEF R, Q, rp2, rq2
  <2>7. ASSUME skip # {}
        PROVE  /\ c + 3 \in 1..(R + Q) /\ u < c + 3 /\ c + 3 <= v /\ c + 3 \in Int
               /\ Fits(rq2, rp2, c + 3, "TYPE", h)
    <3>1. c + 3 \in 1..(R + Q) /\ u < c + 3 /\ c + 3 <= v /\ c + 3 \in Int
      BY <2>13, <1>8, <2>7
    <3>2. Fits(rq, rp, c + 3, "TYPE", h)
      BY <2>1, <2>7 DEF Block
    <3>3. c + 3 = R + 1 => Answers(a, "TYPE", h)
      BY <3>1, <2>3, <1>11, <2>7
    <3>4. Fits(rq2, rp2, c + 3, "TYPE", h)
      BY <3>1, <3>2, <3>3, FitsServe DEF R, Q, rp2, rq2
    <3> QED BY <3>1, <3>4
  <2>8. ASSUME h \in skip, c + 3 <= Len(rp2), rp2[c + 1].reply = "dump", ~ rp2[c + 3].skipped
        PROVE  rp2[c + 1].version # src[h]
    <3>1. skip # {}
      BY <2>8
    <3>2. c + 1 \in 1..R /\ c + 1 <= R
      BY <2>14, <2>8, <1>20
    <3>3. rp2[c + 1] = rp[c + 1]
      BY <3>2, <1>3
    <3>4. CASE c + 3 = R + 1
      <4>1. i = cur /\ h = k /\ c = b
        BY <3>4, <3>1, <2>7, <2>3
      <4>2. src[h] = 0
        BY <4>1, <3>4, <3>1, <2>8, <1>3, <1>11
      <4>3. Answers(rp[c + 1], "DUMP", h)
        BY <3>2, <2>1 DEF Block, Fits, R
      <4>4. rp2[c + 1].version > 0
        BY <4>3, <3>3, <2>8 DEF Answers
      <4> QED BY <4>2, <4>4
    <3>5. CASE c + 3 # R + 1
      <4>1. c + 3 \in 1..R /\ c + 3 <= R
        BY <3>5, <2>8, <1>20, <2>14
      <4>2. rp2[c + 3] = rp[c + 3]
        BY <4>1, <1>3
      <4> QED BY <4>1, <4>2, <3>3, <2>8, <2>1 DEF Block, R
    <3> QED BY <3>4, <3>5
  <2> QED BY <2>4, <2>5, <2>6, <2>7, <2>8 DEF Block, c, h
<1>14. CASE R + 1 = at[cur]
  <2>1. cur + 1 \in 1..(n + 1) /\ at[(cur + 1) - 1] <= Len(rp2)
    <3>1. (cur + 1) - 1 = cur /\ cur + 1 \in 1..(n + 1)
      BY <1>2, <1>5
    <3>2. at[cur] <= Len(rp2)
      BY <1>14, <1>3, <1>6
    <3> QED BY <3>1, <3>2
  <2>2. db2 = k[1]
    <3>1. rq[1].op # "SELECT"
      <4>1. CASE x = 0
        BY <4>1, <1>14, <1>6, <1>3, <1>10
      <4>2. CASE x = 1
        BY <4>2, <1>14, <1>6, <1>3, <1>10, <1>8
      <4> QED BY <4>1, <4>2, <1>2
    <3>2. db = k[1]
      BY <1>9, <1>14, <1>6, <1>3, <1>2
    <3> QED BY <3>1, <3>2 DEF DbAfter
  <2>3. ASSUME cur + 1 <= n
        PROVE  /\ Len(rp2) < at[cur + 1]
               /\ Len(rp2) >= at[(cur + 1) - 1] + S(cur + 1) => db2 = its[cur + 1][1]
    <3>1. cur + 1 \in 1..n /\ (cur + 1) - 1 = cur
      BY <2>3, <1>2, <1>5
    <3>2. at[cur + 1] = at[cur] + S(cur + 1) + 2 + x /\ S(cur + 1) \in 0..1
      BY <3>1, <1>2
    <3>3. Len(rp2) < at[cur + 1]
      BY <3>2, <1>14, <1>3, <1>6, <1>2
    <3>4. ASSUME Len(rp2) >= at[(cur + 1) - 1] + S(cur + 1) PROVE db2 = its[cur + 1][1]
      <4>1. S(cur + 1) = 0
        BY <3>4, <3>1, <3>2, <1>14, <1>3, <1>6
      <4>2. its[cur + 1][1] = Before(its, first, cur + 1)
        BY <4>1 DEF S, Sel
      <4>3. cur + 1 # 1 /\ (cur + 1) - 1 = cur
        BY <1>5, <1>2
      <4>4. Before(its, first, cur + 1) = its[cur][1]
        BY <4>3 DEF Before
      <4> QED BY <4>2, <4>4, <2>2 DEF k
    <3> QED BY <3>3, <3>4
  <2>4. ASSUME cur + 1 = n + 1 PROVE db2 = last
    <3>1. cur = n
      BY <2>4, <1>2, <1>5
    <3>2. its # <<>>
      BY <1>5, <1>2, EmptySeq DEF n
    <3>3. last = its[Len(its)][1]
      BY <3>2, <1>1 DEF Serving
    <3> QED BY <3>1, <3>3, <2>2 DEF k, n
  <2>5. last = IF its = <<>> THEN first ELSE its[Len(its)][1]
    BY <1>1 DEF Serving
  <2>6. Serving(at, cur + 1, its, first, last, rp2, db2)
    BY <2>1, <2>3, <2>4, <2>5 DEF Serving, n, S
  <2>7. Wired(at, cur + 1, its, first, last, rq2, rp2, db2, src, skip)
    BY <2>6, <1>12, <1>13 DEF Wired
  <2> QED BY <2>7 DEF rp2, rq2
<1>15. CASE R + 1 # at[cur]
  <2>1. cur \in 1..(n + 1) /\ at[cur - 1] <= Len(rp2) /\ Len(rp2) < at[cur] /\ cur # n + 1
    <3>1. R + 1 # hi
      BY <1>15 DEF hi
    <3>2. cur \in 1..(n + 1) /\ lo <= Len(rp2) /\ Len(rp2) < hi /\ cur # n + 1
      BY <3>1, <1>20
    <3> QED BY <3>2 DEF lo, hi
  <2>2. ASSUME Len(rp2) >= b PROVE db2 = k[1]
    <3>1. CASE R + 1 = b
      <4>1. S(cur) = 1
        BY <3>1, <1>5, <1>6, <1>3
      <4> QED BY <4>1, <3>1, <1>10 DEF DbAfter
    <3>2. CASE R + 1 # b
      <4>1. R >= b /\ db = k[1]
        BY <3>2, <2>2, <1>3, <1>6, <1>9
      <4>2. R + 1 = b + 1 \/ R + 1 = b + 2 \/ (R + 1 = b + 3 /\ x = 1)
        BY <4>1, <1>20, Behind
      <4>3. rq[1].op # "SELECT"
        BY <4>2, <1>8, <1>10
      <4> QED BY <4>1, <4>3 DEF DbAfter
    <3> QED BY <3>1, <3>2
  <2>3. last = IF its = <<>> THEN first ELSE its[Len(its)][1]
    BY <1>1 DEF Serving
  <2>4. Serving(at, cur, its, first, last, rp2, db2)
    BY <2>1, <2>2, <2>3 DEF Serving, n, S, b, k
  <2>5. Wired(at, cur, its, first, last, rq2, rp2, db2, src, skip)
    BY <2>4, <1>12, <1>13 DEF Wired
  <2> QED BY <2>5 DEF rp2, rq2
<1> QED BY <1>14, <1>15

\* The requests dump sends for a key when it is in database last.
Asked(k, last, skip) ==
    (IF k[1] # last THEN <<[op |-> "SELECT", arg |-> k[1]]>> ELSE <<>>)
        \o <<[op |-> "DUMP", arg |-> k[2]], [op |-> "PTTL", arg |-> k[2]]>>
        \o (IF skip # {} THEN <<[op |-> "TYPE", arg |-> k[2]]>> ELSE <<>>)
Moves(k, last) == IF k[1] # last THEN 1 ELSE 0

\* How many they are, and in which order.
LEMMA AskedFacts ==
    ASSUME NEW k \in Keys, NEW last, NEW skip
    PROVE  LET q == Asked(k, last, skip)
               s == Moves(k, last)
           IN  /\ q \in Seq(Request) /\ s \in 0..1 /\ Len(q) = s + 2 + Extra(skip)
               /\ s = 1 => q[s] = [op |-> "SELECT", arg |-> k[1]]
               /\ q[s + 1] = [op |-> "DUMP", arg |-> k[2]] /\ q[s + 2] = [op |-> "PTTL", arg |-> k[2]]
               /\ skip # {} => q[s + 3] = [op |-> "TYPE", arg |-> k[2]]
<1> DEFINE sel == [op |-> "SELECT", arg |-> k[1]]
<1> DEFINE dmp == [op |-> "DUMP", arg |-> k[2]]
<1> DEFINE ttl == [op |-> "PTTL", arg |-> k[2]]
<1> DEFINE typ == [op |-> "TYPE", arg |-> k[2]]
<1> DEFINE p == IF k[1] # last THEN <<sel>> ELSE <<>>
<1> DEFINE m == <<dmp, ttl>>
<1> DEFINE z == IF skip # {} THEN <<typ>> ELSE <<>>
<1> DEFINE s == Moves(k, last)
<1> DEFINE x == Extra(skip)
<1> DEFINE q == Asked(k, last, skip)
<1>1. sel \in Request /\ dmp \in Request /\ ttl \in Request /\ typ \in Request
  BY DEF Request
<1>2. q = (p \o m) \o z
  BY DEF Asked
<1> HIDE DEF sel, dmp, ttl, typ, q
<1>3. p \in Seq(Request) /\ Len(p) = s /\ (s = 1 => p[1] = sel) /\ s \in 0..1
  BY <1>1 DEF Moves
<1>4. m \in Seq(Request) /\ Len(m) = 2 /\ m[1] = dmp /\ m[2] = ttl
  BY <1>1
<1>5. z \in Seq(Request) /\ Len(z) = x /\ (skip # {} => z[1] = typ /\ x = 1) /\ x \in 0..1
  BY <1>1 DEF Extra
<1> DEFINE y == p \o m
<1> HIDE DEF p, m, z, s, x
<1>6. /\ y \in Seq(Request) /\ Len(y) = s + 2 /\ (\A i \in 1..s : y[i] = p[i]) /\ (\A i \in 1..2 : y[s + i] = m[i])
  <2>1. /\ y \in Seq(Request) /\ Len(y) = Len(p) + Len(m) /\ (\A i \in 1..Len(p) : y[i] = p[i])
        /\ (\A i \in 1..Len(m) : y[Len(p) + i] = m[i])
    <3>1. p \in Seq(Request) /\ m \in Seq(Request)
      BY <1>3, <1>4
    <3> QED BY <3>1, Joined
  <2> QED BY <2>1, <1>3, <1>4
<1>7. q = y \o z
  BY <1>2
<1> HIDE DEF y
<1>8. /\ q \in Seq(Request) /\ Len(q) = (s + 2) + x /\ (\A i \in 1..(s + 2) : q[i] = y[i])
      /\ \A i \in 1..x : q[(s + 2) + i] = z[i]
  <2>1. /\ q \in Seq(Request) /\ Len(q) = Len(y) + Len(z) /\ (\A i \in 1..Len(y) : q[i] = y[i])
        /\ (\A i \in 1..Len(z) : q[Len(y) + i] = z[i])
    <3>1. y \in Seq(Request) /\ z \in Seq(Request)
      BY <1>5, <1>6
    <3> QED BY <3>1, <1>7, Joined
  <2> QED BY <2>1, <1>5, <1>6
<1>9. Len(q) = s + 2 + x
  BY <1>8
<1>10. s = 1 => q[s] = sel
  BY <1>3, <1>6, <1>8
<1>11. q[s + 1] = dmp /\ q[s + 2] = ttl
  <2>1. s + 1 \in 1..(s + 2) /\ s + 2 \in 1..(s + 2)
    BY <1>3
  <2>2. y[s + 1] = m[1] /\ y[s + 2] = m[2]
    BY <1>6
  <2> QED BY <2>1, <2>2, <1>4, <1>8
<1>12. skip # {} => q[s + 3] = typ
  <2>1. skip # {} => 1 \in 1..x /\ (s + 2) + 1 = s + 3
    BY <1>3, <1>5
  <2> QED BY <2>1, <1>5, <1>8
<1> QED BY <1>3, <1>8, <1>9, <1>10, <1>11, <1>12 DEF q, s, x, sel, dmp, ttl, typ

\* dump sends the requests of another key.
LEMMA WiredDump ==
    ASSUME NEW at, NEW cur, NEW its \in Seq(Keys), NEW first, NEW last, NEW rq \in Seq(Request),
           NEW rp \in Seq(Reply), NEW db, NEW src, NEW skip, NEW k \in Keys,
           Wired(at, cur, its, first, last, rq, rp, db, src, skip)
    PROVE  \E at2 : Wired(at2, cur, Append(its, k), first, k[1], rq \o Asked(k, last, skip), rp, db, src, skip)
<1> DEFINE n == Len(its)
<1> DEFINE R == Len(rp)
<1> DEFINE Q == Len(rq)
<1> DEFINE q == Asked(k, last, skip)
<1> DEFINE its2 == Append(its, k)
<1> DEFINE rq2 == rq \o q
<1> DEFINE x == Extra(skip)
<1> DEFINE s == Moves(k, last)
<1> DEFINE T == R + Q
<1> DEFINE at2 == [i \in 0..(n + 1) |-> IF i = n + 1 THEN T + s + 2 + x ELSE at[i]]
<1>1. Places(at, its, first, skip, R + Q) /\ Serving(at, cur, its, first, last, rp, db)
      /\ Blocks(at, its, first, rq, rp, src, skip)
  BY DEF Wired
<1>2. /\ n \in Nat /\ x \in 0..1 /\ at[0] = 0 /\ at[n] = T
      /\ \A i \in 0..n : at[i] \in Nat /\ at[i] <= T
      /\ \A i \in 1..n : /\ i - 1 \in 0..n /\ i \in 0..n /\ its[i] \in Keys /\ Sel(its, first, i) \in 0..1
                         /\ at[i] = at[i - 1] + Sel(its, first, i) + 2 + x
  BY <1>1, PlaceFacts
<1>3. R \in Nat /\ Q \in Nat /\ T \in Nat /\ T = R + Q
  BY LenProperties
<1>4. /\ q \in Seq(Request) /\ s \in 0..1 /\ Len(q) = s + 2 + x
      /\ s = 1 => q[s] = [op |-> "SELECT", arg |-> k[1]]
      /\ q[s + 1] = [op |-> "DUMP", arg |-> k[2]] /\ q[s + 2] = [op |-> "PTTL", arg |-> k[2]]
      /\ skip # {} => q[s + 3] = [op |-> "TYPE", arg |-> k[2]]
  BY AskedFacts
<1>5. /\ its2 \in Seq(Keys) /\ Len(its2) = n + 1 /\ its2[n + 1] = k /\ \A i \in 1..n : its2[i] = its[i]
  BY Longer
<1>6. /\ rq2 \in Seq(Request) /\ Len(rq2) = Q + Len(q) /\ (\A i \in 1..Len(q) : rq2[Q + i] = q[i])
  <2>1. q \in Seq(Request)
    BY <1>4
  <2> HIDE DEF q
  <2> QED BY <2>1, Joined
<1>7. \A i, j \in 0..n : i < j => at[i] < at[j]
  BY <1>1 DEF Places
<1>8. last = IF its = <<>> THEN first ELSE its[n][1]
  BY <1>1 DEF Serving
<1>9. its = <<>> <=> n = 0
  <2>1. its = <<>> <=> Len(its) = 0
    BY EmptyLen
  <2> QED BY <2>1
<1>10. x = 1 <=> skip # {}
  BY DEF Extra
<1>11. s = IF k[1] # last THEN 1 ELSE 0
  BY DEF Moves
<1>12. at2 = [i \in 0..(n + 1) |-> IF i = n + 1 THEN T + s + 2 + x ELSE at[i]]
  OBVIOUS
<1> HIDE DEF n, R, Q, q, its2, rq2, x, s, T, at2
<1>13. ASSUME NEW i \in 1..n PROVE Sel(its2, first, i) = Sel(its, first, i) /\ its2[i] = its[i]
  <2>1. its2[i] = its[i]
    BY <1>5
  <2>2. i # 1 => i - 1 \in 1..n
    BY <1>2
  <2>3. i # 1 => its2[i - 1] = its[i - 1]
    BY <2>2, <1>5
  <2> QED BY <2>1, <2>3 DEF Sel, Before
<1>14. Sel(its2, first, n + 1) = s
  <2>1. CASE n = 0
    <3>1. n + 1 = 1 /\ last = first
      BY <2>1, <1>8, <1>9
    <3>2. Before(its2, first, n + 1) = last
      BY <3>1 DEF Before
    <3> QED BY <3>2, <1>5, <1>11 DEF Sel
  <2>2. CASE n # 0
    <3>1. n + 1 # 1 /\ (n + 1) - 1 = n /\ n \in 1..n /\ last = its[n][1]
      BY <2>2, <1>8, <1>9, <1>2
    <3>2. its2[n] = its[n]
      BY <3>1, <1>5
    <3>3. Before(its2, first, n + 1) = last
      BY <3>1, <3>2 DEF Before
    <3> QED BY <3>3, <1>5, <1>11 DEF Sel
  <2> QED BY <2>1, <2>2
<1>15. /\ \A i \in 0..n : at2[i] = at[i]
       /\ at2[n + 1] = T + s + 2 + x
  <2>1. at2[n + 1] = T + s + 2 + x
    BY <1>2, <1>12
  <2>2. ASSUME NEW i \in 0..n PROVE at2[i] = at[i]
    <3>1. i \in 0..(n + 1) /\ i # n + 1
      BY <1>2
    <3> QED BY <3>1, <1>12
  <2> QED BY <2>1, <2>2
<1>16. T + s + 2 + x \in Nat /\ T < T + s + 2 + x
  BY <1>2, <1>3, <1>4
<1>17. Places(at2, its2, first, skip, R + Len(rq2))
  <2>1. \A i \in 0..(n + 1) : at2[i] \in Nat
    <3>1. ASSUME NEW i \in 0..(n + 1) PROVE at2[i] \in Nat
      <4>1. CASE i = n + 1
        BY <4>1, <1>15, <1>16
      <4>2. CASE i # n + 1
        <5>1. i \in 0..n
          BY <4>2, <1>2
        <5> QED BY <5>1, <1>15, <1>2
      <4> QED BY <4>1, <4>2
    <3> QED BY <3>1
  <2>2. at2 \in [0..Len(its2) -> Nat]
    BY <2>1, <1>12, <1>5
  <2>3. at2[0] = 0
    BY <1>15, <1>2
  <2>4. at2[Len(its2)] = R + Len(rq2)
    <3>1. T + s + 2 + x = R + (Q + (s + 2 + x))
      BY <1>2, <1>3, <1>4
    <3> QED BY <3>1, <1>4, <1>5, <1>6, <1>15
  <2>5. ASSUME NEW i \in 1..Len(its2) PROVE at2[i] = at2[i - 1] + Sel(its2, first, i) + 2 + Extra(skip)
    <3>1. CASE i = n + 1
      <4>1. i - 1 = n /\ n \in 0..n
        BY <3>1, <1>2
      <4>2. at2[i - 1] = T
        BY <4>1, <1>15, <1>2
      <4> QED BY <4>2, <3>1, <1>14, <1>15 DEF x
    <3>2. CASE i # n + 1
      <4>1. i \in 1..n /\ i \in 0..n /\ i - 1 \in 0..n
        BY <3>2, <1>2, <1>5
      <4>2. at2[i] = at[i] /\ at2[i - 1] = at[i - 1] /\ Sel(its2, first, i) = Sel(its, first, i)
        BY <4>1, <1>13, <1>15
      <4> QED BY <4>1, <4>2, <1>2 DEF x
    <3> QED BY <3>1, <3>2
  <2>6. ASSUME NEW i \in 0..Len(its2), NEW j \in 0..Len(its2), i < j PROVE at2[i] < at2[j]
    <3>1. i \in 0..n
      BY <2>6, <1>5, <1>2
    <3>2. CASE j = n + 1
      <4>1. at[i] \in Nat /\ at[i] <= T
        BY <3>1, <1>2
      <4>2. at2[i] = at[i] /\ at2[j] = T + s + 2 + x
        BY <3>1, <3>2, <1>15
      <4> QED BY <4>1, <4>2, <1>16, <1>3
    <3>3. CASE j # n + 1
      <4>1. j \in 0..n
        BY <3>3, <1>5, <1>2
      <4> QED BY <3>1, <4>1, <2>6, <1>7, <1>15
    <3> QED BY <3>2, <3>3
  <2> QED BY <2>2, <2>3, <2>4, <2>5, <2>6 DEF Places
<1>18. Serving(at2, cur, its2, first, k[1], rp, db)
  <2>1. /\ cur \in 1..(n + 1) /\ at[cur - 1] <= R
        /\ cur <= n => R < at[cur] /\ (R >= at[cur - 1] + Sel(its, first, cur) => db = its[cur][1])
        /\ cur = n + 1 => db = last
    BY <1>1 DEF Serving, n, R
  <2>2. cur \in 1..((n + 1) + 1) /\ cur <= n + 1 /\ cur # (n + 1) + 1 /\ cur - 1 \in 0..n
    BY <2>1, <1>2
  <2>3. at2[cur - 1] = at[cur - 1]
    BY <2>2, <1>15
  <2>4. k[1] = IF its2 = <<>> THEN first ELSE its2[Len(its2)][1]
    <3>1. its2 # <<>>
      BY <1>5, <1>2, EmptySeq
    <3> QED BY <3>1, <1>5
  <2>5. CASE cur = n + 1
    <3>1. cur - 1 = n /\ db = last
      BY <2>1, <2>5, <1>2
    <3>2. T <= R
      BY <3>1, <2>1, <1>2
    <3>3. R < at2[cur]
      BY <3>2, <2>5, <1>3, <1>15, <1>16
    <3>4. ASSUME R >= at2[cur - 1] + Sel(its2, first, cur) PROVE db = its2[cur][1]
      <4>1. R >= T + s
        BY <3>4, <3>1, <2>3, <2>5, <1>2, <1>14
      <4>2. s = 0
        BY <4>1, <1>3, <1>4
      <4>3. k[1] = last
        BY <4>2, <1>11
      <4> QED BY <4>3, <3>1, <2>5, <1>5
    <3> QED BY <2>1, <2>2, <2>3, <2>4, <3>3, <3>4, <1>5 DEF Serving, R
  <2>6. CASE cur # n + 1
    <3>1. cur \in 1..n /\ cur <= n /\ cur \in 0..n
      BY <2>1, <2>6, <1>2
    <3>2. at2[cur] = at[cur] /\ Sel(its2, first, cur) = Sel(its, first, cur) /\ its2[cur] = its[cur]
      BY <3>1, <1>13, <1>15
    <3>3. R < at2[cur] /\ (R >= at2[cur - 1] + Sel(its2, first, cur) => db = its2[cur][1])
      BY <3>1, <3>2, <2>1, <2>3
    <3> QED BY <2>1, <2>2, <2>3, <2>4, <3>3, <1>5 DEF Serving, R
  <2> QED BY <2>5, <2>6
<1>19. ASSUME NEW i \in 1..Len(its2)
       PROVE  Block(rq2, rp, at2[i - 1] + Sel(its2, first, i), Sel(its2, first, i), its2[i], src, skip)
  <2>1. CASE i = n + 1
    <3>1. i - 1 = n /\ n \in 0..n
      BY <2>1, <1>2
    <3>2. at2[i - 1] = T /\ Sel(its2, first, i) = s /\ its2[i] = k
      BY <3>1, <2>1, <1>2, <1>14, <1>15, <1>5
    <3>3. ASSUME NEW j \in 1..Len(q), NEW op, q[j] = [op |-> op, arg |-> IF op = "SELECT" THEN k[1] ELSE k[2]]
          PROVE  Fits(rq2, rp, T + j, op, k)
      <4>0. Len(q) \in Nat /\ j \in Int
        BY <1>4, LenProperties
      <4>1. ~ (T + j <= R) /\ (T + j) - R = Q + j
        BY <1>3, <4>0
      <4>2. rq2[Q + j] = q[j]
        BY <1>6
      <4> QED BY <4>1, <4>2, <3>3 DEF Fits, R
    <3>4. s = 1 => Fits(rq2, rp, T + s, "SELECT", k)
      <4>1. s = 1 => s \in 1..Len(q)
        BY <1>4, <1>2
      <4> QED BY <4>1, <3>3, <1>4
    <3>5. Fits(rq2, rp, (T + s) + 1, "DUMP", k)
      <4>1. s + 1 \in 1..Len(q) /\ (T + s) + 1 = T + (s + 1)
        BY <1>4, <1>2, <1>3
      <4>2. Fits(rq2, rp, T + (s + 1), "DUMP", k)
        BY <4>1, <3>3, <1>4
      <4> QED BY <4>1, <4>2
    <3>6. Fits(rq2, rp, (T + s) + 2, "PTTL", k)
      <4>1. s + 2 \in 1..Len(q) /\ (T + s) + 2 = T + (s + 2)
        BY <1>4, <1>2, <1>3
      <4>2. Fits(rq2, rp, T + (s + 2), "PTTL", k)
        BY <4>1, <3>3, <1>4
      <4> QED BY <4>1, <4>2
    <3>7. skip # {} => Fits(rq2, rp, (T + s) + 3, "TYPE", k)
      <4>1. skip # {} => s + 3 \in 1..Len(q) /\ (T + s) + 3 = T + (s + 3)
        BY <1>4, <1>2, <1>3, <1>10
      <4>2. skip # {} => Fits(rq2, rp, T + (s + 3), "TYPE", k)
        BY <4>1, <3>3, <1>4
      <4> QED BY <4>1, <4>2
    <3>8. ~ ((T + s) + 3 <= R)
      BY <1>3, <1>4
    <3> QED BY <3>2, <3>4, <3>5, <3>6, <3>7, <3>8 DEF Block, R
  <2>2. CASE i # n + 1
    <3>1. i \in 1..n /\ i \in 0..n /\ i - 1 \in 0..n
      BY <2>2, <1>2, <1>5
    <3>2. at2[i - 1] = at[i - 1] /\ Sel(its2, first, i) = Sel(its, first, i) /\ its2[i] = its[i]
      BY <3>1, <1>13, <1>15
    <3> DEFINE h == its[i]
    <3> DEFINE t == Sel(its, first, i)
    <3> DEFINE u == at[i - 1]
    <3> DEFINE v == at[i]
    <3> DEFINE c == u + t
    <3>3. Block(rq, rp, c, t, h, src, skip)
      BY <3>1, <1>1 DEF Blocks, n
    <3>4. t \in 0..1 /\ u \in Nat /\ v \in Nat /\ v <= T /\ v = u + t + 2 + x
      BY <3>1, <1>2
    <3>5. c = u + t
      OBVIOUS
    <3> HIDE DEF h, t, u, v, c
    <3>6. T = R + Q /\ R \in Nat /\ Q \in Nat /\ x \in 0..1
      BY <1>2, <1>3
    <3>7. t = 1 => c \in 1..(R + Q)
      BY <3>4, <3>5, <3>6
    <3>8. c + 1 \in 1..(R + Q)
      BY <3>4, <3>5, <3>6
    <3>9. c + 2 \in 1..(R + Q)
      BY <3>4, <3>5, <3>6
    <3>10. skip # {} => c + 3 \in 1..(R + Q)
      BY <3>4, <3>5, <3>6, <1>10
    <3>11. t = 1 => Fits(rq2, rp, c, "SELECT", h)
      BY <3>7, <3>3, <1>4, FitsMore DEF Block, R, Q, rq2
    <3>12. Fits(rq2, rp, c + 1, "DUMP", h)
      BY <3>8, <3>3, <1>4, FitsMore DEF Block, R, Q, rq2
    <3>13. Fits(rq2, rp, c + 2, "PTTL", h)
      BY <3>9, <3>3, <1>4, FitsMore DEF Block, R, Q, rq2
    <3>14. skip # {} => Fits(rq2, rp, c + 3, "TYPE", h)
      BY <3>10, <3>3, <1>4, FitsMore DEF Block, R, Q, rq2
    <3>15. h \in skip /\ c + 3 <= Len(rp) /\ rp[c + 1].reply = "dump" /\ ~ rp[c + 3].skipped =>
              rp[c + 1].version # src[h]
      BY <3>3 DEF Block
    <3>16. Block(rq2, rp, c, t, h, src, skip)
      BY <3>11, <3>12, <3>13, <3>14, <3>15 DEF Block
    <3> QED BY <3>16, <3>2 DEF h, t, u, c
  <2> QED BY <2>1, <2>2
<1>20. Blocks(at2, its2, first, rq2, rp, src, skip)
  BY <1>19 DEF Blocks
<1>21. Wired(at2, cur, its2, first, k[1], rq2, rp, db, src, skip)
  BY <1>17, <1>18, <1>20 DEF Wired, R
<1> QED BY <1>21 DEF its2, rq2, q

\* restore takes the replies of the first key.
LEMMA WiredRestore ==
    ASSUME NEW at, NEW cur, NEW its \in Seq(Keys), NEW first, NEW last, NEW rq \in Seq(Request),
           NEW rp \in Seq(Reply), NEW db, NEW src, NEW skip, its # <<>>, NEW m, m = at[1], Len(rp) >= m,
           Wired(at, cur, its, first, last, rq, rp, db, src, skip)
    PROVE  \E at2, c : Wired(at2, c, Tail(its), its[1][1], last, rq, SubSeq(rp, m + 1, Len(rp)), db, src, skip)
<1> DEFINE n == Len(its)
<1> DEFINE R == Len(rp)
<1> DEFINE Q == Len(rq)
<1> DEFINE its2 == Tail(its)
<1> DEFINE rp2 == SubSeq(rp, m + 1, Len(rp))
<1> DEFINE x == Extra(skip)
<1> DEFINE f == its[1][1]
<1> DEFINE at2 == [i \in 0..(n - 1) |-> at[i + 1] - m]
<1>1. Places(at, its, first, skip, R + Q) /\ Serving(at, cur, its, first, last, rp, db)
      /\ Blocks(at, its, first, rq, rp, src, skip)
  BY DEF Wired
<1>2. /\ n \in Nat /\ x \in 0..1 /\ at[0] = 0 /\ at[n] = R + Q
      /\ \A i \in 0..n : at[i] \in Nat /\ at[i] <= R + Q
      /\ \A i, j \in 0..n : i <= j => at[i] <= at[j]
      /\ \A i \in 1..n : /\ i - 1 \in 0..n /\ i \in 0..n /\ its[i] \in Keys /\ Sel(its, first, i) \in 0..1
                         /\ at[i] = at[i - 1] + Sel(its, first, i) + 2 + x
  BY <1>1, PlaceFacts
<1>3. R \in Nat /\ Q \in Nat
  BY LenProperties
<1>4. /\ n \in Nat \ {0} /\ its2 \in Seq(Keys) /\ Len(its2) = n - 1 /\ \A i \in 1..(n - 1) : its2[i] = its[1 + i]
  BY Shortened
<1>5. m \in Nat /\ m <= R /\ m \in 0..R
  <2>1. 1 \in 0..n
    BY <1>4
  <2>2. m \in Nat
    BY <2>1, <1>2
  <2> QED BY <2>2, <1>3
<1>6. /\ rp2 \in Seq(Reply) /\ Len(rp2) = R - m /\ \A i \in 1..(R - m) : rp2[i] = rp[m + i]
  BY <1>5, Dropped
<1>7. \A i, j \in 0..n : i < j => at[i] < at[j]
  BY <1>1 DEF Places
<1>8. \A i \in 0..(n - 1) : at2[i] = at[i + 1] - m /\ i + 1 \in 0..n
  BY <1>4
<1>9. /\ cur \in 1..(n + 1) /\ at[cur - 1] <= R
      /\ cur <= n => R < at[cur] /\ (R >= at[cur - 1] + Sel(its, first, cur) => db = its[cur][1])
      /\ cur = n + 1 => db = last
      /\ last = IF its = <<>> THEN first ELSE its[n][1]
  BY <1>1 DEF Serving
<1>10. at2 = [i \in 0..(n - 1) |-> at[i + 1] - m]
  OBVIOUS
<1>11. x = 1 <=> skip # {}
  BY DEF Extra
<1> HIDE DEF n, R, Q, its2, rp2, x, f, at2
<1>12. ASSUME NEW i \in 1..(n - 1)
       PROVE  /\ Sel(its2, f, i) = Sel(its, first, i + 1) /\ its2[i] = its[i + 1]
              /\ i + 1 \in 1..n /\ i - 1 \in 0..(n - 1) /\ i \in 0..(n - 1) /\ (i - 1) + 1 = i /\ (i + 1) - 1 = i
              /\ at2[i] = at[i + 1] - m /\ at2[i - 1] = at[i] - m /\ i \in 0..n /\ i + 1 \in 0..n
  <2>1. /\ i + 1 \in 1..n /\ i - 1 \in 0..(n - 1) /\ i \in 0..(n - 1) /\ (i - 1) + 1 = i /\ i + 1 = 1 + i
        /\ (i + 1) - 1 = i /\ i + 1 # 1 /\ i \in 0..n /\ i + 1 \in 0..n
    BY <1>4
  <2>2. its2[i] = its[i + 1]
    BY <1>4, <2>1
  <2>3. Before(its, first, i + 1) = its[i][1]
    BY <2>1 DEF Before
  <2>4. Before(its2, f, i) = its[i][1]
    <3>1. CASE i = 1
      BY <3>1 DEF Before, f
    <3>2. CASE i # 1
      <4>1. i - 1 \in 1..(n - 1) /\ 1 + (i - 1) = i
        BY <3>2, <1>4
      <4>2. its2[i - 1] = its[i]
        BY <4>1, <1>4
      <4> QED BY <3>2, <4>2 DEF Before
    <3> QED BY <3>1, <3>2
  <2>5. Sel(its2, f, i) = Sel(its, first, i + 1)
    BY <2>2, <2>3, <2>4 DEF Sel
  <2>6. at2[i] = at[i + 1] - m /\ at2[i - 1] = at[i] - m
    BY <2>1, <1>8
  <2> QED BY <2>1, <2>2, <2>5, <2>6
<1>13. Places(at2, its2, f, skip, Len(rp2) + Len(rq))
  <2>1. ASSUME NEW i \in 0..(n - 1) PROVE at2[i] \in Nat
    <3>1. at2[i] = at[i + 1] - m /\ i + 1 \in 0..n /\ 1 \in 0..n /\ 1 <= i + 1
      BY <1>8, <1>4
    <3>2. at[1] <= at[i + 1] /\ at[i + 1] \in Nat
      BY <3>1, <1>2
    <3> QED BY <3>1, <3>2, <1>5
  <2>2. at2 \in [0..Len(its2) -> Nat]
    BY <2>1, <1>4, <1>10
  <2>3. at2[0] = 0
    <3>1. 0 \in 0..(n - 1) /\ 0 + 1 = 1
      BY <1>4
    <3>2. at2[0] = m - m
      BY <3>1, <1>8
    <3> QED BY <3>2, <1>5
  <2>4. at2[Len(its2)] = Len(rp2) + Len(rq)
    <3>1. n - 1 \in 0..(n - 1) /\ (n - 1) + 1 = n
      BY <1>4
    <3>2. at2[n - 1] = (R + Q) - m
      BY <3>1, <1>8, <1>2
    <3>3. (R + Q) - m = (R - m) + Q
      BY <1>3, <1>5
    <3> QED BY <3>2, <3>3, <1>4, <1>6 DEF Q
  <2>5. ASSUME NEW i \in 1..Len(its2) PROVE at2[i] = at2[i - 1] + Sel(its2, f, i) + 2 + Extra(skip)
    <3>1. i \in 1..(n - 1)
      BY <1>4
    <3> DEFINE u == at[i]
    <3> DEFINE v == at[i + 1]
    <3> DEFINE s == Sel(its, first, i + 1)
    <3>2. /\ at2[i] = v - m /\ at2[i - 1] = u - m /\ Sel(its2, f, i) = s /\ i + 1 \in 1..n /\ (i + 1) - 1 = i
          /\ i \in 0..n /\ i + 1 \in 0..n
      BY <3>1, <1>12
    <3>3. v = u + s + 2 + x /\ s \in 0..1 /\ u \in Nat /\ v \in Nat /\ x \in 0..1
      BY <3>2, <1>2
    <3> HIDE DEF u, v, s
    <3>4. v - m = (u - m) + s + 2 + x
      BY <3>3, <1>5, SMTT(30)
    <3> QED BY <3>2, <3>4 DEF x
  <2>6. ASSUME NEW i \in 0..Len(its2), NEW j \in 0..Len(its2), i < j PROVE at2[i] < at2[j]
    <3>1. i \in 0..(n - 1) /\ j \in 0..(n - 1) /\ i + 1 < j + 1
      BY <2>6, <1>4
    <3>2. at2[i] = at[i + 1] - m /\ at2[j] = at[j + 1] - m /\ i + 1 \in 0..n /\ j + 1 \in 0..n
      BY <3>1, <1>8
    <3>3. at[i + 1] < at[j + 1] /\ at[i + 1] \in Nat /\ at[j + 1] \in Nat
      BY <3>1, <3>2, <1>2, <1>7
    <3> QED BY <3>2, <3>3, <1>5
  <2> QED BY <2>2, <2>3, <2>4, <2>5, <2>6 DEF Places
<1>14. cur # 1
  <2>1. ASSUME cur = 1 PROVE FALSE
    <3>1. R < at[1]
      BY <2>1, <1>4, <1>9
    <3> QED BY <3>1, <1>5, <1>3
  <2> QED BY <2>1
<1>15. Serving(at2, cur - 1, its2, f, last, rp2, db)
  <2> DEFINE c == cur - 1
  <2>1. c \in 1..((n - 1) + 1) /\ c \in 0..n /\ c - 1 \in 0..(n - 1) /\ (c - 1) + 1 = c /\ cur = c + 1
    BY <1>4, <1>9, <1>14
  <2> HIDE DEF c
  <2>2. at2[c - 1] = at[c] - m
    BY <2>1, <1>8
  <2>3. at[c] \in Nat /\ at[c] <= R
    <3>1. cur - 1 = c
      BY DEF c
    <3> QED BY <3>1, <2>1, <1>2, <1>9
  <2>4. at2[c - 1] <= Len(rp2)
    BY <2>2, <2>3, <1>5, <1>6, <1>3
  <2>5. ASSUME c <= n - 1 PROVE Len(rp2) < at2[c] /\ (Len(rp2) >= at2[c - 1] + Sel(its2, f, c) => db = its2[c][1])
    <3>1. c \in 1..(n - 1) /\ cur <= n /\ cur - 1 = c
      BY <2>5, <2>1, <1>4
    <3> DEFINE s == Sel(its, first, c + 1)
    <3> DEFINE u == at[c]
    <3> DEFINE v == at[c + 1]
    <3>2. /\ Sel(its2, f, c) = s /\ its2[c] = its[c + 1] /\ at2[c] = v - m /\ at2[c - 1] = u - m
          /\ c + 1 \in 1..n /\ c + 1 \in 0..n
      BY <3>1, <1>12
    <3>3. R < v /\ (R >= u + s => db = its[c + 1][1])
      BY <3>1, <2>1, <1>9
    <3>4. v \in Nat /\ u \in Nat /\ s \in 0..1
      BY <3>2, <2>3, <1>2
    <3> HIDE DEF s, u, v
    <3>5. R - m < v - m /\ (R - m >= (u - m) + s => R >= u + s)
      BY <3>3, <3>4, <1>3, <1>5
    <3> QED BY <3>2, <3>3, <3>5, <1>6
  <2>6. ASSUME c = (n - 1) + 1 PROVE db = last
    BY <2>6, <2>1, <1>4, <1>9
  <2>7. last = IF its2 = <<>> THEN f ELSE its2[Len(its2)][1]
    <3>1. last = its[n][1]
      BY <1>9
    <3>2. CASE n = 1
      <4>1. its2 = <<>>
        BY <3>2, <1>4, EmptyLen
      <4> QED BY <4>1, <3>1, <3>2 DEF f
    <3>3. CASE n # 1
      <4>1. n - 1 \in 1..(n - 1) /\ 1 + (n - 1) = n /\ n - 1 # 0
        BY <3>3, <1>4
      <4>2. its2 # <<>>
        BY <4>1, <1>4, EmptyLen
      <4>3. its2[n - 1] = its[n]
        BY <4>1, <1>4
      <4> QED BY <4>2, <4>3, <3>1, <1>4
    <3> QED BY <3>2, <3>3
  <2>8. Serving(at2, c, its2, f, last, rp2, db)
    BY <2>1, <2>4, <2>5, <2>6, <2>7, <1>4 DEF Serving
  <2> QED BY <2>8 DEF c
<1>16. ASSUME NEW i \in 1..Len(its2)
       PROVE  Block(rq, rp2, at2[i - 1] + Sel(its2, f, i), Sel(its2, f, i), its2[i], src, skip)
  <2>1. i \in 1..(n - 1)
    BY <1>4
  <2> DEFINE h == its[i + 1]
  <2> DEFINE s == Sel(its, first, i + 1)
  <2> DEFINE u == at[i]
  <2> DEFINE c == u + s
  <2>2. /\ Sel(its2, f, i) = s /\ its2[i] = h /\ at2[i - 1] = u - m /\ i + 1 \in 1..n /\ (i + 1) - 1 = i
        /\ i \in 0..n /\ 1 \in 0..n /\ 1 <= i
    BY <2>1, <1>12, <1>4
  <2>3. Block(rq, rp, c, s, h, src, skip)
    BY <2>2, <1>1 DEF Blocks, n
  <2>4. u \in Nat /\ m <= u /\ s \in 0..1 /\ c = u + s
    BY <2>2, <1>2
  <2> HIDE DEF h, s, u, c
  <2>5. (u - m) + s = c - m /\ (s = 1 => c > m) /\ c + 1 > m /\ c + 2 > m /\ c + 3 > m
    <3>1. (u - m) + s = c - m
      BY <2>4, <1>5
    <3>2. s = 1 => c > m
      BY <2>4, <1>5
    <3>3. c >= m /\ c \in Nat
      BY <2>4, <1>5
    <3>4. c + 1 > m /\ c + 2 > m /\ c + 3 > m
      BY <3>3, <1>5
    <3> QED BY <3>1, <3>2, <3>4
  <2>6. (c - m) + 1 = (c + 1) - m /\ (c - m) + 2 = (c + 2) - m /\ (c - m) + 3 = (c + 3) - m
        /\ c \in Int /\ c + 1 \in Int /\ c + 2 \in Int /\ c + 3 \in Int
    BY <2>4, <1>5
  <2>7. ASSUME NEW p \in Int, p > m, NEW op, Fits(rq, rp, p, op, h) PROVE Fits(rq, rp2, p - m, op, h)
    <3>1. m \in 0..Len(rp)
      BY <1>5 DEF R
    <3> QED BY <3>1, <2>7, FitsDropped DEF rp2
  <2>8. s = 1 => Fits(rq, rp2, c - m, "SELECT", h)
    BY <2>3, <2>5, <2>6, <2>7 DEF Block
  <2>9. Fits(rq, rp2, (c + 1) - m, "DUMP", h)
    BY <2>3, <2>5, <2>6, <2>7 DEF Block
  <2>10. Fits(rq, rp2, (c + 2) - m, "PTTL", h)
    BY <2>3, <2>5, <2>6, <2>7 DEF Block
  <2>11. skip # {} => Fits(rq, rp2, (c + 3) - m, "TYPE", h)
    BY <2>3, <2>5, <2>6, <2>7 DEF Block
  <2>12. ASSUME h \in skip, (c + 3) - m <= Len(rp2), rp2[(c + 1) - m].reply = "dump", ~ rp2[(c + 3) - m].skipped
         PROVE  rp2[(c + 1) - m].version # src[h]
    <3>1. /\ (c + 1) - m \in 1..(R - m) /\ (c + 3) - m \in 1..(R - m) /\ c + 3 <= R
          /\ m + ((c + 1) - m) = c + 1 /\ m + ((c + 3) - m) = c + 3
      <4>1. c \in Nat /\ c + 1 > m /\ m \in Nat /\ R \in Nat /\ (c + 3) - m <= R - m
        BY <2>12, <2>4, <2>5, <1>3, <1>5, <1>6
      <4>2. (c + 1) - m \in 1..(R - m)
        BY <4>1
      <4>3. (c + 3) - m \in 1..(R - m)
        BY <4>1
      <4>4. c + 3 <= R /\ m + ((c + 1) - m) = c + 1 /\ m + ((c + 3) - m) = c + 3
        BY <4>1
      <4> QED BY <4>2, <4>3, <4>4
    <3>2. rp2[(c + 1) - m] = rp[c + 1] /\ rp2[(c + 3) - m] = rp[c + 3]
      BY <3>1, <1>6
    <3> QED BY <3>1, <3>2, <2>12, <2>3 DEF Block, R
  <2>13. Block(rq, rp2, c - m, s, h, src, skip)
    BY <2>6, <2>8, <2>9, <2>10, <2>11, <2>12 DEF Block
  <2> QED BY <2>2, <2>5, <2>13
<1>17. Blocks(at2, its2, f, rq, rp2, src, skip)
  BY <1>16 DEF Blocks
<1>18. Wired(at2, cur - 1, its2, f, last, rq, rp2, db, src, skip)
  BY <1>13, <1>15, <1>17 DEF Wired
<1> QED BY <1>18 DEF its2, f, rp2

\* The first m replies rp are those of the key k, the first s of them the one to SELECT.
RepliesOf(m, k, s, rp, src, skip) ==
    /\ m = s + 2 + Extra(skip)
    /\ m <= Len(rp) =>
           /\ s = 1 => rp[s].reply = "OK"
           /\ Answers(rp[s + 1], "DUMP", k) /\ Answers(rp[s + 2], "PTTL", k)
           /\ skip # {} => rp[s + 3].reply = "type"
           /\ k \in skip /\ rp[s + 1].reply = "dump" /\ ~ rp[s + 3].skipped => rp[s + 1].version # src[k]

\* The first replies are those of the first key.
LEMMA FirstReplies ==
    ASSUME NEW at, NEW cur, NEW its \in Seq(Keys), NEW first, NEW last, NEW rq \in Seq(Request),
           NEW rp \in Seq(Reply), NEW db, NEW src, NEW skip, its # <<>>,
           Wired(at, cur, its, first, last, rq, rp, db, src, skip)
    PROVE  RepliesOf(at[1], its[1], Moves(its[1], first), rp, src, skip)
<1> DEFINE k == its[1]
<1> DEFINE s == Moves(k, first)
<1> DEFINE R == Len(rp)
<1> DEFINE x == Extra(skip)
<1>1. Places(at, its, first, skip, R + Len(rq)) /\ Blocks(at, its, first, rq, rp, src, skip)
  BY DEF Wired
<1>2. Len(its) \in Nat \ {0} /\ R \in Nat
  BY Shortened, LenProperties
<1>3. 1 \in 1..Len(its) /\ 1 - 1 = 0
  BY <1>2
<1>4. /\ k \in Keys /\ at[0] = 0 /\ x \in 0..1 /\ Sel(its, first, 1) \in 0..1
      /\ at[1] = at[1 - 1] + Sel(its, first, 1) + 2 + x
  <2>1. /\ x \in 0..1 /\ at[0] = 0
        /\ \A i \in 1..Len(its) : /\ its[i] \in Keys /\ Sel(its, first, i) \in 0..1
                                  /\ at[i] = at[i - 1] + Sel(its, first, i) + 2 + x
    BY <1>1, PlaceFacts
  <2> QED BY <2>1, <1>3
<1>5. Sel(its, first, 1) = s
  BY DEF Sel, Before, Moves
<1>6. s \in 0..1 /\ at[1] = s + 2 + x /\ x \in 0..1
  BY <1>3, <1>4, <1>5
<1>7. at[1 - 1] + Sel(its, first, 1) = s
  BY <1>3, <1>4, <1>5, <1>6
<1>8. Block(rq, rp, s, s, k, src, skip)
  BY <1>1, <1>3, <1>5, <1>7 DEF Blocks
<1>9. x = 1 <=> skip # {}
  BY DEF Extra
<1> HIDE DEF k, s, R, x
<1>10. ASSUME at[1] <= R
       PROVE  /\ s = 1 => rp[s].reply = "OK"
              /\ Answers(rp[s + 1], "DUMP", k) /\ Answers(rp[s + 2], "PTTL", k)
              /\ skip # {} => rp[s + 3].reply = "type"
              /\ k \in skip /\ rp[s + 1].reply = "dump" /\ ~ rp[s + 3].skipped => rp[s + 1].version # src[k]
  <2>1. s <= R /\ s + 1 <= R /\ s + 2 <= R /\ (skip # {} => s + 3 <= R)
    BY <1>10, <1>6, <1>2, <1>9
  <2>2. s = 1 => Answers(rp[s], "SELECT", k)
    BY <2>1, <1>8 DEF Block, Fits, R
  <2>3. Answers(rp[s + 1], "DUMP", k) /\ Answers(rp[s + 2], "PTTL", k)
    BY <2>1, <1>8 DEF Block, Fits, R
  <2>4. skip # {} => Answers(rp[s + 3], "TYPE", k)
    BY <2>1, <1>8 DEF Block, Fits, R
  <2>5. k \in skip /\ rp[s + 1].reply = "dump" /\ ~ rp[s + 3].skipped => rp[s + 1].version # src[k]
    <3>1. k \in skip => skip # {}
      OBVIOUS
    <3> QED BY <3>1, <2>1, <1>8 DEF Block, R
  <2>6. s = 1 => rp[s].reply = "OK"
    BY <2>2 DEF Answers
  <2>7. skip # {} => rp[s + 3].reply = "type"
    BY <2>4 DEF Answers
  <2> QED BY <2>3, <2>5, <2>6, <2>7
<1> QED BY <1>6, <1>10 DEF RepliesOf, k, s, R, x

\* The request r is for a key of the database db the connection is in, or selects another one.
ForKey(r, db) ==
    \E k \in Keys : \/ r = [op |-> "SELECT", arg |-> k[1]]
                    \/ /\ db = k[1]
                       /\ \E op \in {"DUMP", "PTTL", "TYPE"} : r = [op |-> op, arg |-> k[2]]

\* The first request under way is one of a key.
LEMMA FirstRequest ==
    ASSUME NEW at, NEW cur, NEW its \in Seq(Keys), NEW first, NEW last, NEW rq \in Seq(Request),
           NEW rp \in Seq(Reply), NEW db, NEW src, NEW skip, rq # <<>>,
           Wired(at, cur, its, first, last, rq, rp, db, src, skip)
    PROVE  ForKey(rq[1], db)
<1> DEFINE R == Len(rp)
<1> DEFINE n == Len(its)
<1> DEFINE x == Extra(skip)
<1> DEFINE s == Sel(its, first, cur)
<1> DEFINE k == its[cur]
<1> DEFINE lo == at[cur - 1]
<1> DEFINE hi == at[cur]
<1> DEFINE b == lo + s
<1>1. Places(at, its, first, skip, R + Len(rq)) /\ Serving(at, cur, its, first, last, rp, db)
      /\ Blocks(at, its, first, rq, rp, src, skip)
  BY DEF Wired
<1>2. cur \in 1..n /\ lo <= R /\ R < hi /\ (R >= b => db = k[1])
  BY <1>1, ServingKey
<1>3. /\ x \in 0..1 /\ n \in Nat /\ at[0] = 0 /\ at[n] = R + Len(rq)
      /\ \A i \in 0..n : at[i] \in Nat /\ at[i] <= R + Len(rq)
      /\ \A i, j \in 0..n : i <= j => at[i] <= at[j]
      /\ \A i \in 1..n : /\ i - 1 \in 0..n /\ i \in 0..n /\ its[i] \in Keys /\ Sel(its, first, i) \in 0..1
                         /\ at[i] = at[i - 1] + Sel(its, first, i) + 2 + x
  BY <1>1, PlaceFacts
<1>4. Block(rq, rp, b, s, k, src, skip)
  BY <1>1, <1>2 DEF Blocks
<1>5. x = 1 <=> skip # {}
  BY DEF Extra
<1>6. R \in Nat
  BY LenProperties
<1>7. /\ k \in Keys /\ lo \in Nat /\ hi \in Nat /\ s \in 0..1 /\ b = lo + s /\ hi = lo + s + 2 + x
  BY <1>2, <1>3
<1> HIDE DEF R, n, x, s, k, lo, hi, b
<1>8. (s = 1 /\ R + 1 = b) \/ (R >= b /\ (R + 1 = b + 1 \/ R + 1 = b + 2 \/ (x = 1 /\ R + 1 = b + 3)))
  <2>1. /\ x \in 0..1 /\ lo <= R /\ R < hi /\ R \in Nat /\ lo \in Nat /\ hi \in Nat /\ s \in 0..1 /\ b = lo + s
        /\ hi = lo + s + 2 + x
    BY <1>2, <1>3, <1>6, <1>7
  <2>2. CASE R >= b
    <3>1. b \in Nat /\ R < b + 2 + x
      BY <2>1
    <3> QED BY <3>1, <2>1, <2>2, Behind
  <2>3. CASE ~ (R >= b)
    BY <2>1, <2>3
  <2> QED BY <2>2, <2>3
<1>9. ASSUME NEW op, Fits(rq, rp, R + 1, op, k)
      PROVE  rq[1] = [op |-> op, arg |-> IF op = "SELECT" THEN k[1] ELSE k[2]]
  <2>1. R + 1 > R /\ (R + 1) - R = 1
    BY <1>6
  <2> QED BY <1>9, <2>1 DEF Fits, R
<1>10. CASE s = 1 /\ R + 1 = b
  <2>1. Fits(rq, rp, R + 1, "SELECT", k)
    BY <1>4, <1>10 DEF Block
  <2> QED BY <2>1, <1>7, <1>9 DEF ForKey
<1>11. CASE R + 1 = b + 1 /\ R >= b
  <2>1. Fits(rq, rp, R + 1, "DUMP", k)
    BY <1>4, <1>11 DEF Block
  <2> QED BY <2>1, <1>2, <1>7, <1>9, <1>11 DEF ForKey
<1>12. CASE R + 1 = b + 2 /\ R >= b
  <2>1. Fits(rq, rp, R + 1, "PTTL", k)
    BY <1>4, <1>12 DEF Block
  <2> QED BY <2>1, <1>2, <1>7, <1>9, <1>12 DEF ForKey
<1>13. CASE R + 1 = b + 3 /\ R >= b /\ x = 1
  <2>1. Fits(rq, rp, R + 1, "TYPE", k)
    BY <1>4, <1>5, <1>13 DEF Block
  <2> QED BY <2>1, <1>2, <1>7, <1>9, <1>13 DEF ForKey
<1> QED BY <1>8, <1>10, <1>11, <1>12, <1>13

-----------------------------------------------------------------------------
(***************************************************************************)
(* The steps of the connection.                                            *)
(***************************************************************************)
\* The records.
LEMMA Records ==
    ASSUME Types
    PROVE  /\ opts \in [ksn : BOOLEAN, rewrite : BOOLEAN, skip : SUBSET Keys, changes : Nat, repeats : Nat]
           /\ scan \in [pc : {"new", "call", "put", "send", "cursor", "finished", "stopped"}, db : 0..Len(Dbs),
                        due : SUBSET Keys, key : Keys \cup {None}, repeats : Nat]
           /\ sub \in [pc : {"off", "psubscribe", "loop", "receive", "send", "stopped"}, key : Keys \cup {None}]
           /\ queue \in [set : SUBSET Keys, inner : Seq(Keys), closed : BOOLEAN]
           /\ pump \in [item : Keys \cup {None}, ended : BOOLEAN]
           /\ needRestore \in [items : Seq(Keys), closed : BOOLEAN]
           /\ restoring \in [db : Int, out : Seq(Entry)]
           /\ ch \in [entries : Seq(Entry), closed : BOOLEAN]
BY OptionsAssumption DEF Types, ScanType, SubType, QueueType

\* Their fields.
LEMMA Fields ==
    ASSUME Types
    PROVE  /\ opts.skip \in SUBSET Keys /\ needRestore.items \in Seq(Keys) /\ restoring.db \in Int
           /\ restoring.out \in Seq(Entry) /\ ch.entries \in Seq(Entry) /\ queue.inner \in Seq(Keys)
           /\ pump.item \in Keys \cup {None} /\ scan.due \in SUBSET Keys /\ dumpDb \in Int /\ changes \in Nat
           /\ scan.db \in 0..Len(Dbs) /\ scan.repeats \in Nat /\ events \in Seq(Event)
           /\ source \in [Keys -> Nat] /\ target \in [Keys -> Nat] /\ queue.set \in SUBSET Keys
BY Records DEF Types

\* What is on the connection.
LEMMA WireFacts ==
    ASSUME Types, WireInv
    PROVE  /\ wire.requests \in Seq(Request) /\ wire.replies \in Seq(Reply) /\ wire.db \in Int
           /\ Known(wire.replies, changes)
           /\ \E at, cur : Wired(at, cur, needRestore.items, restoring.db, dumpDb, wire.requests,
                                 wire.replies, wire.db, source, opts.skip)
<1>1. wire.requests \in Seq(Request) /\ wire.replies \in Seq(Reply) /\ wire.db \in Int
  BY DEF WireInv
<1>2. /\ Known(wire.replies, changes)
      /\ \E at, cur : Wired(at, cur, needRestore.items, restoring.db, dumpDb, wire.requests,
                            wire.replies, wire.db, source, opts.skip)
  BY DEF WireInv
<1> QED BY <1>1, <1>2

\* The source answers for the key the request was sent for.
LEMMA AnswerFacts ==
    ASSUME Types, Held, WireInv, wire.requests # <<>>, NEW a \in RepliesTo(Head(wire.requests))
    PROVE  /\ a \in Reply /\ IsAnswer(a, wire.requests[1], wire.db, source, opts.skip)
           /\ a.reply = "dump" => a.version <= changes + 1
           /\ DbAfter(wire.requests[1], wire.db) \in Int /\ Head(wire.requests) = wire.requests[1]
<1> DEFINE rq == wire.requests
<1> DEFINE db == wire.db
<1> DEFINE r == rq[1]
<1>1. rq \in Seq(Request) /\ db \in Int /\ needRestore.items \in Seq(Keys)
  BY WireFacts, Fields
<1>2. Head(rq) = r
  BY <1>1, Shortened
<1>3. PICK k \in Keys : \/ r = [op |-> "SELECT", arg |-> k[1]]
                        \/ /\ db = k[1]
                           /\ \E op \in {"DUMP", "PTTL", "TYPE"} : r = [op |-> op, arg |-> k[2]]
  <2>1. PICK at, cur : Wired(at, cur, needRestore.items, restoring.db, dumpDb, rq,
                             wire.replies, db, source, opts.skip)
    BY WireFacts
  <2>2. wire.replies \in Seq(Reply)
    BY WireFacts
  <2>3. ForKey(rq[1], db)
    BY <1>1, <2>1, <2>2, FirstRequest
  <2> QED BY <2>3 DEF ForKey
<1>4. k = <<k[1], k[2]>> /\ k[1] \in Int
  <2>1. k = <<k[1], k[2]>> /\ k[1] \in Range(Dbs)
    BY KeysAssumption
  <2>2. \A i \in DOMAIN Dbs : Dbs[i] \in Int
    BY DbsAssumption, ElementOfSeq, LenProperties
  <2> QED BY <2>1, <2>2 DEF Range
<1>5. source[k] \in Nat /\ source[k] <= changes + 1 /\ \A h \in Keys : source[h] \in Nat
  BY Fields DEF Held
<1>6. a \in RepliesTo(r)
  BY <1>2
<1> HIDE DEF rq, db, r
<1>7. CASE r = [op |-> "SELECT", arg |-> k[1]]
  <2>1. a = [reply |-> "OK"]
    BY <1>6, <1>7 DEF RepliesTo
  <2>2. a \in Reply /\ a.reply = "OK"
    BY <2>1 DEF Reply
  <2>3. IsAnswer(a, r, db, source, opts.skip)
    BY <2>2, <1>7 DEF IsAnswer, Answers
  <2>4. DbAfter(r, db) \in Int
    BY <1>4, <1>7 DEF DbAfter
  <2> QED BY <1>2, <2>2, <2>3, <2>4 DEF rq, db, r
<1>8. CASE db = k[1] /\ \E op \in {"DUMP", "PTTL", "TYPE"} : r = [op |-> op, arg |-> k[2]]
  <2>1. <<db, r.arg>> = k /\ r.op # "SELECT"
    BY <1>4, <1>8
  <2>2. DbAfter(r, db) \in Int
    BY <1>1, <2>1 DEF DbAfter
  <2>3. ASSUME NEW h \in Keys, NEW op, r = [op |-> op, arg |-> IF op = "SELECT" THEN h[1] ELSE h[2]],
               op = "SELECT" \/ db = h[1]
        PROVE  h = k /\ r.op = op
    <3>1. r.op = op /\ op # "SELECT" /\ r.arg = h[2] /\ db = h[1]
      BY <2>1, <2>3
    <3>2. h = <<h[1], h[2]>>
      BY KeysAssumption
    <3> QED BY <3>1, <3>2, <2>1
  <2>4. CASE r.op = "DUMP"
    <3>1. a \in IF source[k] = 0 THEN {[reply |-> "Nil"]}
                ELSE {[reply |-> "dump", key |-> k, version |-> source[k]]}
      BY <1>6, <2>1, <2>4 DEF RepliesTo, db
    <3>2. CASE source[k] = 0
      <4>1. a = [reply |-> "Nil"]
        BY <3>1, <3>2
      <4>2. a \in Reply /\ a.reply = "Nil"
        BY <4>1 DEF Reply
      <4>3. IsAnswer(a, r, db, source, opts.skip)
        BY <4>2, <2>3, <2>4 DEF IsAnswer, Answers
      <4> QED BY <1>2, <4>2, <4>3, <2>2 DEF rq, db, r
    <3>3. CASE source[k] # 0
      <4>1. a = [reply |-> "dump", key |-> k, version |-> source[k]]
        BY <3>1, <3>3
      <4>2. a \in Reply /\ a.reply = "dump" /\ a.key = k /\ a.version = source[k] /\ a.version > 0
        BY <4>1, <3>3, <1>5 DEF Reply
      <4>3. IsAnswer(a, r, db, source, opts.skip)
        BY <4>2, <2>3, <2>4 DEF IsAnswer, Answers
      <4> QED BY <1>2, <1>5, <4>2, <4>3, <2>2 DEF rq, db, r
    <3> QED BY <3>2, <3>3
  <2>5. CASE r.op = "PTTL"
    <3>1. PICK ms \in PttlOf(k) : a = [reply |-> "pttl", ms |-> ms]
      BY <1>6, <2>1, <2>5 DEF RepliesTo, db
    <3>2. ms \in {-2, -1, 0, 7} /\ ms \in MsOf(k)
      BY <3>1 DEF PttlOf, MsOf
    <3>3. a \in Reply /\ a.reply = "pttl" /\ a.ms \in MsOf(k)
      BY <3>1, <3>2 DEF Reply
    <3>4. IsAnswer(a, r, db, source, opts.skip)
      BY <3>3, <2>3, <2>5 DEF IsAnswer, Answers
    <3> QED BY <1>2, <3>3, <3>4, <2>2 DEF rq, db, r
  <2>6. CASE r.op = "TYPE"
    <3>1. a = [reply |-> "type", skipped |-> k \in opts.skip /\ source[k] # 0]
      BY <1>6, <2>1, <2>6 DEF RepliesTo, db
    <3>2. a \in Reply /\ a.reply = "type" /\ (k \in opts.skip /\ ~ a.skipped => source[k] = 0)
      BY <3>1 DEF Reply
    <3>3. IsAnswer(a, r, db, source, opts.skip)
      BY <3>2, <2>3, <2>6 DEF IsAnswer, Answers
    <3> QED BY <1>2, <3>2, <3>3, <2>2 DEF rq, db, r
  <2> QED BY <1>8, <2>4, <2>5, <2>6
<1> QED BY <1>3, <1>7, <1>8

\* The replies restore counts on, in their order.
LEMMA KindsFacts ==
    ASSUME Types, NEW k \in Keys
    PROVE  /\ Selects(k) = Moves(k, restoring.db) /\ Selects(k) \in 0..1
           /\ Expected(k) = Selects(k) + 2 + Extra(opts.skip) /\ Extra(opts.skip) \in 0..1
           /\ Selects(k) = 1 => Kinds(k)[Selects(k)] = {"OK"}
           /\ Kinds(k)[Selects(k) + 1] = {"dump", "Nil"} /\ Kinds(k)[Selects(k) + 2] = {"pttl"}
           /\ opts.skip # {} => Kinds(k)[Selects(k) + 3] = {"type"}
<1> DEFINE X == {{"OK"}, {"dump", "Nil"}, {"pttl"}, {"type"}}
<1> DEFINE s == Selects(k)
<1> DEFINE x == Extra(opts.skip)
<1> DEFINE p == IF s = 1 THEN <<{"OK"}>> ELSE <<>>
<1> DEFINE m == <<{"dump", "Nil"}, {"pttl"}>>
<1> DEFINE z == IF opts.skip # {} THEN <<{"type"}>> ELSE <<>>
<1> DEFINE y == p \o m
<1> DEFINE q == Kinds(k)
<1>1. s = Moves(k, restoring.db) /\ s \in 0..1 /\ Expected(k) = s + 2 + x /\ x \in 0..1
  BY DEF Selects, Moves, Expected, Extra
<1>2. q = y \o z
  BY DEF Kinds
<1>3. {"OK"} \in X /\ {"dump", "Nil"} \in X /\ {"pttl"} \in X /\ {"type"} \in X
  OBVIOUS
<1> HIDE DEF s, q, X
<1>4. p \in Seq(X) /\ Len(p) = s /\ (s = 1 => p[1] = {"OK"})
  BY <1>1, <1>3
<1>5. m \in Seq(X) /\ Len(m) = 2 /\ m[1] = {"dump", "Nil"} /\ m[2] = {"pttl"}
  BY <1>3
<1>6. z \in Seq(X) /\ Len(z) = x /\ (opts.skip # {} => z[1] = {"type"} /\ x = 1)
  BY <1>3 DEF Extra
<1> HIDE DEF p, m, z, x
<1>7. /\ y \in Seq(X) /\ Len(y) = s + 2 /\ (\A i \in 1..s : y[i] = p[i]) /\ (\A i \in 1..2 : y[s + i] = m[i])
  <2>1. /\ y \in Seq(X) /\ Len(y) = Len(p) + Len(m) /\ (\A i \in 1..Len(p) : y[i] = p[i])
        /\ (\A i \in 1..Len(m) : y[Len(p) + i] = m[i])
    <3>1. p \in Seq(X) /\ m \in Seq(X)
      BY <1>4, <1>5
    <3> QED BY <3>1, Joined
  <2> QED BY <2>1, <1>4, <1>5
<1> HIDE DEF y
<1>8. /\ \A i \in 1..(s + 2) : q[i] = y[i]
      /\ \A i \in 1..x : q[(s + 2) + i] = z[i]
  <2>1. /\ \A i \in 1..Len(y) : q[i] = y[i]
        /\ \A i \in 1..Len(z) : q[Len(y) + i] = z[i]
    <3>1. y \in Seq(X) /\ z \in Seq(X)
      BY <1>6, <1>7
    <3> QED BY <3>1, <1>2, Joined
  <2> QED BY <2>1, <1>6, <1>7
<1>9. s = 1 => q[s] = {"OK"}
  BY <1>1, <1>4, <1>7, <1>8
<1>10. q[s + 1] = {"dump", "Nil"} /\ q[s + 2] = {"pttl"}
  <2>1. s + 1 \in 1..(s + 2) /\ s + 2 \in 1..(s + 2)
    BY <1>1
  <2>2. y[s + 1] = m[1] /\ y[s + 2] = m[2]
    BY <1>7
  <2> QED BY <2>1, <2>2, <1>5, <1>8
<1>11. opts.skip # {} => q[s + 3] = {"type"}
  <2>1. opts.skip # {} => 1 \in 1..x /\ (s + 2) + 1 = s + 3
    BY <1>1, <1>6
  <2> QED BY <2>1, <1>6, <1>8
<1> QED BY <1>1, <1>9, <1>10, <1>11 DEF s, q, x

\* The positions of the replies of a key.
LEMMA Positions ==
    ASSUME NEW s \in 0..1, NEW x \in 0..1, NEW i \in 1..(s + 2 + x)
    PROVE  (s = 1 /\ i = s) \/ i = s + 1 \/ i = s + 2 \/ (x = 1 /\ i = s + 3)
OBVIOUS

\* What restore makes of the replies of its key.
LEMMA RestoredFits ==
    ASSUME Types, NEW k \in Keys, NEW d \in Reply, NEW ms \in MsOf(k), ms # -2,
           Answers(d, "DUMP", k), d.reply = "dump", d.version <= changes + 1,
           k \in opts.skip => d.version # source[k]
    PROVE  /\ Restored(k, d, ms) \in Seq(Entry) /\ Restored(k, d, ms)[1].key = k
           /\ OutFits(Restored(k, d, ms), source, changes, opts.skip, opts.rewrite)
<1>1. d.key = k /\ d.version > 0 /\ d.version \in Nat
  BY DEF Answers, Reply
<1>2. Ttl(ms) \in Int /\ (k \in Volatile <=> Ttl(ms) # 0)
  BY DEF Ttl, MsOf
<1>3. opts.rewrite \in BOOLEAN
  BY Records
<1> DEFINE v == d.version
<1> DEFINE t == Ttl(ms)
<1> DEFINE w == opts.rewrite
<1>4. v \in Nat /\ v > 0 /\ v <= changes + 1 /\ (k \in opts.skip => v # source[k])
  BY <1>1
<1>5. Restored(k, d, ms) = IF k \in Big
                           THEN <<[op |-> "WRITE", key |-> k, of |-> k, version |-> v]>>
                                \o (IF t # 0 THEN <<[op |-> "PEXPIRE", key |-> k]>> ELSE <<>>)
                           ELSE <<[op |-> "RESTORE", key |-> k, of |-> k, version |-> v, ttl |-> t, replace |-> w]>>
  BY <1>1 DEF Restored
<1>6. t \in Int /\ (k \in Volatile <=> t # 0) /\ w \in BOOLEAN
  BY <1>2, <1>3
<1> HIDE DEF v, t, w
<1> DEFINE e == [op |-> "WRITE", key |-> k, of |-> k, version |-> v]
<1> DEFINE f == [op |-> "PEXPIRE", key |-> k]
<1> DEFINE g == [op |-> "RESTORE", key |-> k, of |-> k, version |-> v, ttl |-> t, replace |-> w]
<1> DEFINE o == Restored(k, d, ms)
<1>7. e \in Entry /\ f \in Entry /\ g \in Entry
  BY <1>4, <1>6 DEF Entry
<1>8. /\ e.op = "WRITE" /\ e.key = k /\ f.op = "PEXPIRE" /\ g.op = "RESTORE" /\ g.key = k /\ g.ttl = t /\ g.replace = w
      /\ Value(e, source, changes, opts.skip) /\ Value(g, source, changes, opts.skip)
  BY <1>4 DEF Value
<1>9. o = IF k \in Big THEN <<e>> \o (IF t # 0 THEN <<f>> ELSE <<>>) ELSE <<g>>
  BY <1>5
<1> HIDE DEF e, f, g, o
<1>10. CASE k \notin Big
  <2>1. o = <<g>> /\ o \in Seq(Entry) /\ Len(o) = 1 /\ o[1] = g
    BY <1>7, <1>9, <1>10
  <2>2. Shape(o, w)
    BY <2>1, <1>8, <1>6 DEF Shape
  <2> QED BY <2>1, <2>2, <1>8 DEF OutFits, o, w
<1>11. CASE k \in Big /\ t # 0
  <2>1. o = <<e>> \o <<f>>
    BY <1>9, <1>11
  <2>2. <<e>> \in Seq(Entry) /\ <<f>> \in Seq(Entry) /\ Len(<<e>>) = 1 /\ Len(<<f>>) = 1 /\ <<e>>[1] = e /\ <<f>>[1] = f
    BY <1>7
  <2>3. o \in Seq(Entry) /\ Len(o) = 2 /\ o[1] = e /\ o[2] = f
    <3> DEFINE a == <<e>>
    <3> DEFINE b == <<f>>
    <3>1. a \in Seq(Entry) /\ b \in Seq(Entry)
      BY <2>2
    <3>2. o = a \o b /\ Len(a) = 1 /\ Len(b) = 1 /\ a[1] = e /\ b[1] = f
      BY <2>1, <2>2
    <3> HIDE DEF a, b
    <3>3. /\ o \in Seq(Entry) /\ Len(o) = Len(a) + Len(b) /\ (\A i \in 1..Len(a) : o[i] = a[i])
          /\ (\A i \in 1..Len(b) : o[Len(a) + i] = b[i])
      <4>1. o = a \o b
        BY <3>2
      <4> QED BY <3>1, <4>1, Joined
    <3>4. 1 \in 1..Len(a) /\ 1 \in 1..Len(b) /\ Len(a) + 1 = 2 /\ Len(a) + Len(b) = 2
      BY <3>2
    <3> QED BY <3>2, <3>3, <3>4
  <2>4. Shape(o, w)
    BY <2>3, <1>8, <1>6, <1>11 DEF Shape
  <2> QED BY <2>3, <2>4, <1>8 DEF OutFits, o, w
<1>12. CASE k \in Big /\ t = 0
  <2>1. o = <<e>> \o <<>> /\ <<e>> \in Seq(Entry) /\ Len(<<e>>) = 1 /\ <<e>>[1] = e
    BY <1>7, <1>9, <1>12
  <2>2. o = <<e>>
    BY <2>1, ConcatEmptySeq
  <2>3. Shape(o, w)
    BY <2>1, <2>2, <1>8, <1>6, <1>12 DEF Shape
  <2> QED BY <2>1, <2>2, <2>3, <1>8 DEF OutFits, o, w
<1> QED BY <1>10, <1>11, <1>12

\* A step of restore takes the replies of its own key, and none of another kind.
LEMMA RestoreEffect ==
    ASSUME Types, Held, WireInv, Restore
    PROVE  /\ panicked' = panicked /\ needRestore.items # <<>> /\ Head(needRestore.items) \in Keys
           /\ restoring' \in [db : Int, out : Seq(Entry)] /\ restoring'.db = Head(needRestore.items)[1]
           /\ needRestore' = [needRestore EXCEPT !.items = Tail(@)]
           /\ restoring'.out # <<>> => restoring'.out[1].key = Head(needRestore.items)
           /\ OutInv' /\ WireInv'
<1> DEFINE its == needRestore.items
<1> DEFINE k == Head(its)
<1> DEFINE rp == wire.replies
<1> DEFINE rq == wire.requests
<1> DEFINE s == Selects(k)
<1> DEFINE x == Extra(opts.skip)
<1> DEFINE n == Expected(k)
<1> DEFINE got == SubSeq(rp, 1, n)
<1> DEFINE rest == SubSeq(rp, n + 1, Len(rp))
<1>1. its # <<>> /\ Len(rp) >= n /\ wire' = [wire EXCEPT !.replies = rest]
      /\ needRestore' = [needRestore EXCEPT !.items = Tail(@)]
  BY DEF Restore
<1>2. /\ rq \in Seq(Request) /\ rp \in Seq(Reply) /\ wire.db \in Int /\ its \in Seq(Keys)
      /\ restoring.db \in Int /\ changes \in Nat
  BY WireFacts, Fields
<1>3. /\ k \in Keys /\ k = its[1]
  BY <1>1, <1>2, Shortened
<1>4. PICK at, cur : Wired(at, cur, its, restoring.db, dumpDb, rq, rp, wire.db, source, opts.skip)
  BY WireFacts
<1>5. Known(rp, changes)
  BY WireFacts
<1>6. /\ s = Moves(k, restoring.db) /\ s \in 0..1 /\ n = s + 2 + x /\ x \in 0..1
      /\ s = 1 => Kinds(k)[s] = {"OK"}
      /\ Kinds(k)[s + 1] = {"dump", "Nil"} /\ Kinds(k)[s + 2] = {"pttl"}
      /\ opts.skip # {} => Kinds(k)[s + 3] = {"type"}
  BY <1>3, KindsFacts
<1>7. x = 1 <=> opts.skip # {}
  BY DEF Extra
<1>8. RepliesOf(at[1], its[1], Moves(its[1], restoring.db), rp, source, opts.skip)
  BY <1>1, <1>2, <1>4, FirstReplies
<1>9. n = at[1] /\ n \in Nat /\ Len(rp) \in Nat /\ n \in 0..Len(rp)
  <2>1. n = at[1]
    BY <1>3, <1>6, <1>8 DEF RepliesOf
  <2>2. Len(rp) \in Nat
    BY <1>2, LenProperties
  <2>3. n \in Nat
    BY <1>6
  <2>4. Len(rp) >= n
    BY <1>1
  <2> HIDE DEF n, rp
  <2> QED BY <2>1, <2>2, <2>3, <2>4
<1>10. /\ s = 1 => rp[s].reply = "OK"
       /\ Answers(rp[s + 1], "DUMP", k) /\ Answers(rp[s + 2], "PTTL", k)
       /\ opts.skip # {} => rp[s + 3].reply = "type"
       /\ k \in opts.skip /\ rp[s + 1].reply = "dump" /\ ~ rp[s + 3].skipped => rp[s + 1].version # source[k]
  <2>1. at[1] <= Len(rp) /\ s = Moves(its[1], restoring.db) /\ k = its[1]
    BY <1>1, <1>3, <1>6, <1>9
  <2> QED BY <2>1, <1>8 DEF RepliesOf
<1>11. \A i \in 1..n : got[i] = rp[i]
  BY <1>2, <1>9, Taking
<1> HIDE DEF k, s, x, n, rest
<1>12. /\ s + 1 \in 1..n /\ s + 2 \in 1..n /\ (x = 1 => s + 3 \in 1..n /\ n = s + 3)
       /\ s + 1 \in 1..Len(rp) /\ s + 2 \in 1..Len(rp)
  BY <1>6, <1>9
<1>13. ASSUME NEW i \in 1..n PROVE got[i].reply \in Kinds(k)[i]
  <2>1. (s = 1 /\ i = s) \/ i = s + 1 \/ i = s + 2 \/ (x = 1 /\ i = s + 3)
    <3>1. i \in 1..(s + 2 + x) /\ s \in 0..1 /\ x \in 0..1
      BY <1>6
    <3> QED BY <3>1, Positions
  <2>2. got[i] = rp[i]
    BY <1>11
  <2>3. CASE s = 1 /\ i = s
    BY <2>2, <2>3, <1>6, <1>10
  <2>4. CASE i = s + 1
    BY <2>2, <2>4, <1>6, <1>10 DEF Answers
  <2>5. CASE i = s + 2
    BY <2>2, <2>5, <1>6, <1>10 DEF Answers
  <2>6. CASE x = 1 /\ i = s + 3
    BY <2>2, <2>6, <1>6, <1>7, <1>10
  <2> QED BY <2>1, <2>3, <2>4, <2>5, <2>6
<1> DEFINE d == rp[s + 1]
<1> DEFINE ms == rp[s + 2].ms
<1> DEFINE gone == (opts.skip # {} /\ got[n].skipped) \/ d.reply = "Nil" \/ ms = -2
<1> DEFINE o == IF gone THEN <<>> ELSE Restored(k, d, ms)
<1>14. restoring' = [db |-> k[1], out |-> o] /\ panicked' = panicked
  <2>1. ~ \E i \in 1..n : got[i].reply \notin Kinds(k)[i]
    BY <1>13
  <2>2. got[s + 1] = rp[s + 1] /\ got[s + 2] = rp[s + 2]
    BY <1>11, <1>12
  <2>3. /\ panicked' = panicked
        /\ restoring' = [db |-> k[1],
                         out |-> IF (opts.skip # {} /\ got[n].skipped) \/ got[s + 1].reply = "Nil" \/ got[s + 2].ms = -2
                                 THEN <<>> ELSE Restored(k, got[s + 1], got[s + 2].ms)]
    BY <2>1 DEF Restore, k, s, n
  <2> QED BY <2>2, <2>3
<1>15. k[1] \in Int
  <2>1. k[1] \in Range(Dbs)
    BY <1>3, KeysAssumption
  <2>2. \A i \in DOMAIN Dbs : Dbs[i] \in Int
    BY DbsAssumption, ElementOfSeq, LenProperties
  <2> QED BY <2>1, <2>2 DEF Range
<1>16. /\ o \in Seq(Entry) /\ (o # <<>> => o[1].key = k)
       /\ OutFits(o, source, changes, opts.skip, opts.rewrite)
  <2>1. CASE gone
    <3>1. o = <<>>
      BY <2>1
    <3> HIDE DEF o
    <3> QED BY <3>1, EmptySeq DEF OutFits
  <2>2. CASE ~ gone
    <3>1. d \in Reply /\ rp[s + 2] \in Reply
      BY <1>2, <1>12, ElementOfSeq
    <3>2. d.reply = "dump" /\ ms \in MsOf(k) /\ ms # -2
      BY <2>2, <1>10 DEF Answers
    <3>3. d.version <= changes + 1
      BY <3>2, <1>5, <1>12 DEF Known
    <3>4. k \in opts.skip => d.version # source[k]
      <4>1. k \in opts.skip => opts.skip # {} /\ x = 1
        BY <1>7
      <4>2. k \in opts.skip => got[n] = rp[s + 3]
        BY <4>1, <1>11, <1>12
      <4>3. k \in opts.skip => ~ rp[s + 3].skipped
        BY <4>1, <4>2, <2>2
      <4> QED BY <4>3, <3>2, <1>10
    <3>5. Answers(d, "DUMP", k)
      BY <1>10
    <3>6. o = Restored(k, d, ms)
      BY <2>2
    <3>7. k \in Keys
      BY <1>3
    <3> HIDE DEF d, ms, o, gone
    <3>8. /\ Restored(k, d, ms) \in Seq(Entry) /\ Restored(k, d, ms)[1].key = k
          /\ OutFits(Restored(k, d, ms), source, changes, opts.skip, opts.rewrite)
      BY <3>1, <3>2, <3>3, <3>4, <3>5, <3>7, RestoredFits
    <3> QED BY <3>6, <3>8
  <2> QED BY <2>1, <2>2
<1> HIDE DEF o, d, ms, gone, got
<1>17. restoring' \in [db : Int, out : Seq(Entry)] /\ restoring'.db = k[1] /\ restoring'.out = o
  BY <1>14, <1>15, <1>16
<1>18. opts' = opts /\ source' = source /\ changes' = changes /\ dumpDb' = dumpDb
  BY DEF Restore, RestoreKeeps, config, origin
<1>19. OutInv'
  BY <1>16, <1>17, <1>18 DEF OutInv
<1>20. rest \in Seq(Reply) /\ Len(rest) = Len(rp) - n /\ \A i \in 1..(Len(rp) - n) : rest[i] = rp[n + i]
  BY <1>2, <1>9, Dropped DEF rest
<1>21. Known(rest, changes)
  <2>1. ASSUME NEW p \in 1..Len(rest), rest[p].reply = "dump" PROVE rest[p].version <= changes + 1
    <3>1. p \in 1..(Len(rp) - n) /\ n + p \in 1..Len(rp)
      BY <1>9, <1>20
    <3>2. rest[p] = rp[n + p]
      BY <3>1, <1>20
    <3> QED BY <2>1, <3>1, <3>2, <1>5 DEF Known
  <2> QED BY <2>1 DEF Known
<1>22. \E at2, c : Wired(at2, c, Tail(its), k[1], dumpDb, rq, rest, wire.db, source, opts.skip)
  <2>1. Len(rp) >= n
    BY <1>1
  <2>2. \E at2, c : Wired(at2, c, Tail(its), its[1][1], dumpDb, rq, SubSeq(rp, n + 1, Len(rp)), wire.db, source, opts.skip)
    BY <1>1, <1>2, <1>4, <1>9, <2>1, WiredRestore
  <2> QED BY <2>2, <1>3 DEF rest
<1>23. /\ wire' \in [requests : Seq(Request), db : Int, replies : Seq(Reply)]
       /\ wire'.requests = rq /\ wire'.replies = rest /\ wire'.db = wire.db /\ needRestore'.items = Tail(its)
  <2>1. wire \in [requests : Seq(Request), db : Int, replies : Seq(Reply)]
    BY DEF WireInv
  <2>2. needRestore'.items = Tail(its)
    BY <1>1, Records
  <2> QED BY <2>1, <2>2, <1>1, <1>20
<1>24. WireInv'
  BY <1>17, <1>18, <1>21, <1>22, <1>23 DEF WireInv
<1> QED BY <1>1, <1>3, <1>14, <1>16, <1>17, <1>19, <1>24 DEF k

\* A step leaves the connection alone, or it is one of these.
WireSame ==
    /\ wire' = wire /\ needRestore'.items = needRestore.items /\ restoring'.db = restoring.db /\ dumpDb' = dumpDb
    /\ source' = source /\ changes' = changes /\ opts' = opts
SourceStep(k) == SourceSet(k) \/ SourceDel(k) \/ SourceExpire(k)

LEMMA WireCases ==
    ASSUME Types, [Next]_vars
    PROVE  Dump \/ Serve \/ Restore \/ (\E k \in Keys : SourceStep(k)) \/ WireSame
<1>1. CASE Subscribe \/ SubStop \/ SubWait \/ SubDel \/ SubPut \/ SubSend
  BY <1>1 DEF WireSame, Subscribe, SubStop, SubWait, SubDel, SubPut, SubSend, SubKeeps, config
<1>2. CASE Pump \/ PumpEnd
  BY <1>2 DEF WireSame, Pump, PumpEnd, PumpKeeps, config, origin
<1>3. CASE ScanStart \/ ScanStop \/ ScanEmpty \/ (\E k \in Keys : ScanCall(k)) \/ ScanPut \/ ScanSend \/ ScanCursor
  BY <1>3 DEF WireSame, ScanStart, ScanStop, ScanEmpty, ScanCall, ScanPut, ScanSend, ScanCursor, ScanKeeps, config, origin
<1>4. CASE DumpEnd
  <2>1. needRestore'.items = needRestore.items
    BY <1>4, Records DEF DumpEnd
  <2> QED BY <1>4, <2>1 DEF WireSame, DumpEnd, config, origin
<1>5. CASE RestoreSend
  <2>1. restoring'.db = restoring.db
    BY <1>5, Records DEF RestoreSend
  <2> QED BY <1>5, <2>1 DEF WireSame, RestoreSend, RestoreKeeps, config, origin
<1>6. CASE RestoreEnd
  BY <1>6 DEF WireSame, RestoreEnd, RestoreKeeps, config, origin
<1>7. CASE Apply
  BY <1>7 DEF WireSame, Apply, config, origin
<1>8. CASE Cancel
  BY <1>8 DEF WireSame, Cancel, config, origin
<1>9. CASE Done \/ UNCHANGED vars
  BY <1>9 DEF WireSame, Done, vars, config, origin
<1> QED BY <1>1, <1>2, <1>3, <1>4, <1>5, <1>6, <1>7, <1>8, <1>9 DEF Next, System, SourceStep

\* What the source does to its keys: no version comes back.
LEMMA SourceEffect ==
    ASSUME Types, Held, NEW k \in Keys, SourceStep(k)
    PROVE  /\ \A h \in Keys : source'[h] = source[h] \/ source'[h] = 0 \/ source'[h] = changes + 2
           /\ changes' = changes + 1 /\ changes \in Nat /\ source' \in [Keys -> Nat]
           /\ \A h \in Keys : source'[h] <= changes' + 1
           /\ opts' = opts /\ wire' = wire /\ needRestore' = needRestore /\ restoring' = restoring /\ dumpDb' = dumpDb
<1>1. opts' = opts /\ wire' = wire /\ needRestore' = needRestore /\ restoring' = restoring /\ dumpDb' = dumpDb
  BY DEF SourceStep, SourceSet, SourceDel, SourceExpire, SourceLose, SourceKeeps, config
<1>2. changes' = changes + 1 /\ (source' = [source EXCEPT ![k] = changes + 2] \/ source' = [source EXCEPT ![k] = 0])
  BY DEF SourceStep, SourceSet, SourceDel, SourceExpire, SourceLose, Change
<1>3. source \in [Keys -> Nat] /\ changes \in Nat
  BY Fields
<1>4. \A h \in Keys : source'[h] = source[h] \/ source'[h] = 0 \/ source'[h] = changes + 2
  BY <1>2, <1>3
<1>5. source' \in [Keys -> Nat]
  BY <1>2, <1>3
<1>6. ASSUME NEW h \in Keys PROVE source'[h] <= changes' + 1
  <2>1. source[h] <= changes + 1 /\ source[h] \in Nat
    BY <1>3 DEF Held
  <2> QED BY <2>1, <1>2, <1>3, <1>4
<1> QED BY <1>1, <1>2, <1>3, <1>4, <1>5, <1>6

\* The connection stays in line with the keys restore waits for.
LEMMA WireStep == ASSUME Types, Held, WireInv, [Next]_vars PROVE WireInv'
<1>1. CASE WireSame
  <2>1. /\ wire' = wire /\ needRestore'.items = needRestore.items /\ restoring'.db = restoring.db /\ dumpDb' = dumpDb
        /\ source' = source /\ changes' = changes /\ opts' = opts
    BY <1>1 DEF WireSame
  <2> QED BY <2>1 DEF WireInv
<1>2. CASE Restore
  BY <1>2, RestoreEffect
<1> DEFINE its == needRestore.items
<1> DEFINE rq == wire.requests
<1> DEFINE rp == wire.replies
<1> DEFINE db == wire.db
<1> DEFINE skip == opts.skip
<1>3. /\ rq \in Seq(Request) /\ rp \in Seq(Reply) /\ db \in Int /\ its \in Seq(Keys) /\ Known(rp, changes)
      /\ changes \in Nat
  BY WireFacts, Fields
<1>4. PICK at, cur : Wired(at, cur, its, restoring.db, dumpDb, rq, rp, db, source, skip)
  BY WireFacts
<1>5. wire \in [requests : Seq(Request), db : Int, replies : Seq(Reply)]
  BY DEF WireInv
<1>6. CASE Dump
  <2> DEFINE k == pump.item
  <2>1. k \in Keys
    BY <1>6, Fields DEF Dump
  <2>2. DumpRequests(k) = Asked(k, dumpDb, skip)
    BY DEF DumpRequests, Asked
  <2>3. /\ wire' = [wire EXCEPT !.requests = @ \o Asked(k, dumpDb, skip)] /\ dumpDb' = k[1]
        /\ needRestore' = [needRestore EXCEPT !.items = Append(@, k)]
        /\ restoring' = restoring /\ opts' = opts /\ source' = source /\ changes' = changes
    BY <1>6, <2>2 DEF Dump, config, origin
  <2>4. Asked(k, dumpDb, skip) \in Seq(Request)
    BY <2>1, AskedFacts
  <2>5. rq \o Asked(k, dumpDb, skip) \in Seq(Request)
    BY <1>3, <2>4, Joined
  <2>6. \E at2 : Wired(at2, cur, Append(its, k), restoring.db, k[1], rq \o Asked(k, dumpDb, skip), rp, db, source, skip)
    BY <1>3, <1>4, <2>1, WiredDump
  <2>7. /\ wire' \in [requests : Seq(Request), db : Int, replies : Seq(Reply)]
        /\ wire'.requests = rq \o Asked(k, dumpDb, skip) /\ wire'.replies = rp /\ wire'.db = db
    BY <1>5, <2>3, <2>5
  <2>8. needRestore'.items = Append(its, k)
    BY <2>3, Records
  <2>9. PICK at2 : Wired(at2, cur, Append(its, k), restoring.db, k[1], rq \o Asked(k, dumpDb, skip), rp, db, source, skip)
    BY <2>6
  <2>10. Wired(at2, cur, needRestore'.items, restoring'.db, dumpDb', wire'.requests, wire'.replies, wire'.db, source', opts'.skip)
    BY <2>3, <2>7, <2>8, <2>9
  <2>11. Known(wire'.replies, changes')
    BY <1>3, <2>3, <2>7
  <2> QED BY <2>7, <2>10, <2>11 DEF WireInv
<1>7. CASE Serve
  <2> DEFINE r == Head(rq)
  <2>1. rq # <<>>
    BY <1>7 DEF Serve
  <2>2. PICK a \in RepliesTo(r) : wire' = [requests |-> Tail(rq), db |-> IF r.op = "SELECT" THEN r.arg ELSE db,
                                           replies |-> Append(rp, a)]
    BY <1>7 DEF Serve
  <2>3. /\ a \in Reply /\ IsAnswer(a, rq[1], db, source, skip) /\ (a.reply = "dump" => a.version <= changes + 1)
        /\ DbAfter(rq[1], db) \in Int /\ r = rq[1]
    BY <2>1, AnswerFacts
  <2> DEFINE db2 == DbAfter(rq[1], db)
  <2>4. wire' = [requests |-> Tail(rq), db |-> db2, replies |-> Append(rp, a)]
    BY <2>2, <2>3 DEF DbAfter
  <2>5. \E c : Wired(at, c, its, restoring.db, dumpDb, Tail(rq), Append(rp, a), db2, source, skip)
    BY <1>3, <1>4, <2>1, <2>3, WiredServe
  <2>6. Tail(rq) \in Seq(Request)
    BY <1>3, <2>1, Shortened
  <2>7. Append(rp, a) \in Seq(Reply) /\ Known(Append(rp, a), changes)
    <3>1. /\ Append(rp, a) \in Seq(Reply) /\ Len(rp) \in Nat /\ Len(Append(rp, a)) = Len(rp) + 1
          /\ (\A i \in 1..Len(rp) : Append(rp, a)[i] = rp[i]) /\ Append(rp, a)[Len(rp) + 1] = a
      BY <1>3, <2>3, Longer
    <3>2. ASSUME NEW p \in 1..Len(Append(rp, a)), Append(rp, a)[p].reply = "dump"
          PROVE  Append(rp, a)[p].version <= changes + 1
      <4>1. CASE p = Len(rp) + 1
        BY <4>1, <3>1, <3>2, <2>3
      <4>2. CASE p # Len(rp) + 1
        <5>1. p \in 1..Len(rp)
          BY <4>2, <3>1
        <5> QED BY <5>1, <3>1, <3>2, <1>3 DEF Known
      <4> QED BY <4>1, <4>2
    <3> QED BY <3>1, <3>2 DEF Known
  <2>8. needRestore' = needRestore /\ restoring' = restoring /\ opts' = opts /\ source' = source /\ changes' = changes
        /\ dumpDb' = dumpDb
    BY <1>7 DEF Serve, config, origin
  <2>9. /\ wire' \in [requests : Seq(Request), db : Int, replies : Seq(Reply)]
        /\ wire'.requests = Tail(rq) /\ wire'.replies = Append(rp, a) /\ wire'.db = db2
    BY <2>3, <2>4, <2>6, <2>7
  <2>10. PICK c : Wired(at, c, its, restoring.db, dumpDb, Tail(rq), Append(rp, a), db2, source, skip)
    BY <2>5
  <2>11. Wired(at, c, needRestore'.items, restoring'.db, dumpDb', wire'.requests, wire'.replies, wire'.db, source', opts'.skip)
    BY <2>8, <2>9, <2>10
  <2>12. Known(wire'.replies, changes')
    BY <2>7, <2>8, <2>9
  <2> QED BY <2>9, <2>11, <2>12 DEF WireInv
<1>8. ASSUME NEW k \in Keys, SourceStep(k) PROVE WireInv'
  <2>1. /\ \A h \in Keys : source'[h] = source[h] \/ source'[h] = 0 \/ source'[h] = changes + 2
        /\ changes' = changes + 1
        /\ opts' = opts /\ wire' = wire /\ needRestore' = needRestore /\ restoring' = restoring /\ dumpDb' = dumpDb
    BY <1>8, SourceEffect
  <2>2. Wired(at, cur, its, restoring.db, dumpDb, rq, rp, db, source', skip)
    BY <1>3, <1>4, <2>1, WiredSource
  <2>3. Known(rp, changes')
    <3>1. ASSUME NEW p \in 1..Len(rp), rp[p].reply = "dump" PROVE rp[p].version <= changes' + 1
      <4>1. rp[p] \in Reply
        BY <1>3, ElementOfSeq
      <4>2. rp[p].version \in Nat
        BY <3>1, <4>1 DEF Reply
      <4>3. rp[p].version <= changes + 1
        BY <3>1, <1>3 DEF Known
      <4> QED BY <4>2, <4>3, <2>1, <1>3
    <3> QED BY <3>1 DEF Known
  <2>4. Wired(at, cur, needRestore'.items, restoring'.db, dumpDb', wire'.requests, wire'.replies, wire'.db, source', opts'.skip)
    BY <2>1, <2>2
  <2>5. Known(wire'.replies, changes') /\ wire' \in [requests : Seq(Request), db : Int, replies : Seq(Reply)]
    BY <2>1, <2>3, <1>5
  <2> QED BY <2>4, <2>5 DEF WireInv
<1> QED BY <1>1, <1>2, <1>6, <1>7, <1>8, WireCases

-----------------------------------------------------------------------------
(***************************************************************************)
(* The queue, scan and subscribe.                                          *)
(***************************************************************************)
\* The queue is closed by the one or the other, and a second time it is a panic.
LEMMA CloseQueueFacts ==
    ASSUME Types, CloseQueue
    PROVE  /\ queue' \in QueueType /\ queue'.inner = queue.inner /\ queue'.closed = TRUE
           /\ queue.closed => panicked' = "queue"
           /\ ~ queue.closed => panicked' = panicked
<1>1. queue \in QueueType /\ queue.closed \in BOOLEAN
  BY Records DEF QueueType
<1>2. CASE queue.closed
  <2>1. queue' = queue /\ panicked' = "queue"
    BY <1>2 DEF CloseQueue
  <2> QED BY <1>1, <1>2, <2>1
<1>3. CASE ~ queue.closed
  <2>1. queue' = [queue EXCEPT !.closed = TRUE] /\ panicked' = panicked
    BY <1>3 DEF CloseQueue
  <2> QED BY <1>1, <1>3, <2>1 DEF QueueType
<1> QED BY <1>2, <1>3

\* A key is sent into the queue.
LEMMA SendInnerFacts ==
    ASSUME Types, NEW k \in Keys, SendInner(k)
    PROVE  /\ queue' \in QueueType /\ queue'.closed = queue.closed
           /\ queue.closed => queue' = queue /\ panicked' = "queue"
           /\ ~ queue.closed => queue'.inner = Append(queue.inner, k) /\ panicked' = panicked
<1>1. queue \in QueueType /\ queue.inner \in Seq(Keys)
  BY Records DEF QueueType
<1>2. CASE queue.closed
  BY <1>1, <1>2 DEF SendInner
<1>3. CASE ~ queue.closed
  <2>1. queue' = [queue EXCEPT !.inner = Append(@, k)] /\ panicked' = panicked
    BY <1>3 DEF SendInner
  <2>2. Append(queue.inner, k) \in Seq(Keys)
    BY <1>1, Longer
  <2> QED BY <1>1, <1>3, <2>1, <2>2 DEF QueueType
<1> QED BY <1>2, <1>3

\* A key is marked.
LEMMA MarkFacts ==
    ASSUME Types, NEW k \in Keys, Mark(k)
    PROVE  queue' \in QueueType /\ queue'.inner = queue.inner /\ queue'.closed = queue.closed
BY Records DEF Mark, QueueType

\* scan goes to the next database, or ends.
LEMMA NextDbFacts ==
    ASSUME Types, ScanNextDb
    PROVE  /\ scan' \in ScanType /\ queue' \in QueueType /\ queue'.inner = queue.inner
           /\ scan'.repeats = scan.repeats
           /\ \/ /\ scan'.pc = "call" /\ scan.db < Len(Dbs) /\ scan'.db = scan.db + 1
                 /\ scan'.due = KeysOf(Dbs[scan.db + 1]) \cap Present
                 /\ queue' = queue /\ panicked' = panicked
              \/ /\ scan'.pc = "finished" /\ scan'.db = scan.db /\ scan'.due = scan.due
                 /\ opts.ksn => queue' = queue /\ panicked' = panicked
                 /\ ~ opts.ksn => /\ queue'.closed = TRUE
                                  /\ queue.closed => panicked' = "queue"
                                  /\ ~ queue.closed => panicked' = panicked
<1>1. scan \in ScanType /\ queue \in QueueType
  BY DEF Types
<1>2. Len(Dbs) \in Nat
  BY DbsAssumption, LenProperties
<1>3. CASE scan.db < Len(Dbs) /\ SelectDb(scan.db + 1) /\ UNCHANGED <<panicked, queue>>
  <2>1. scan' = [scan EXCEPT !.pc = "call", !.db = scan.db + 1, !.due = KeysOf(Dbs[scan.db + 1]) \cap Present]
    BY <1>3 DEF SelectDb
  <2>2. KeysOf(Dbs[scan.db + 1]) \cap Present \in SUBSET Keys
    BY DEF KeysOf
  <2>3. scan.db + 1 \in 0..Len(Dbs)
    BY <1>1, <1>2, <1>3 DEF ScanType
  <2>4. scan' \in ScanType
    BY <1>1, <2>1, <2>2, <2>3 DEF ScanType
  <2>5. /\ scan'.repeats = scan.repeats /\ scan'.pc = "call" /\ scan'.db = scan.db + 1
        /\ scan'.due = KeysOf(Dbs[scan.db + 1]) \cap Present
    BY <1>1, <2>1 DEF ScanType
  <2> QED BY <1>1, <1>3, <2>4, <2>5
<1>4. CASE scan' = [scan EXCEPT !.pc = "finished"] /\ (IF opts.ksn THEN UNCHANGED <<panicked, queue>> ELSE CloseQueue)
  <2>1. /\ scan' \in ScanType /\ scan'.repeats = scan.repeats /\ scan'.pc = "finished" /\ scan'.db = scan.db
        /\ scan'.due = scan.due
    BY <1>1, <1>4 DEF ScanType
  <2>2. CASE opts.ksn
    BY <1>1, <1>4, <2>1, <2>2
  <2>3. CASE ~ opts.ksn
    <3>1. CloseQueue
      BY <1>4, <2>3
    <3> QED BY <2>1, <2>3, <3>1, CloseQueueFacts
  <2> QED BY <2>2, <2>3
<1> QED BY <1>3, <1>4 DEF ScanNextDb

\* No step changes the options.
LEMMA OptsStep == ASSUME [Next]_vars PROVE opts' = opts
BY DEF Next, System, Subscribe, SubStop, SubWait, SubDel, SubPut, SubSend, SubKeeps, Pump, PumpEnd, PumpKeeps,
       ScanStart, ScanStop, ScanEmpty, ScanCall, ScanPut, ScanSend, ScanCursor, ScanKeeps, Dump, DumpEnd, Serve,
       Restore, RestoreSend, RestoreEnd, RestoreKeeps, Apply, Cancel, Done, SourceSet, SourceDel, SourceExpire,
       SourceLose, SourceKeeps, vars, config

\* A notification.
LEMMA EventFacts ==
    ASSUME Types, events # <<>>
    PROVE  Head(events).key \in Keys /\ Tail(events) \in Seq(Event)
<1>1. events \in Seq(Event)
  BY Fields
<1>2. Head(events) \in Event /\ Tail(events) \in Seq(Event)
  BY <1>1, Shortened
<1> QED BY <1>2 DEF Event

\* What an entry carries.
LEMMA EntryFacts ==
    ASSUME NEW e \in Entry
    PROVE  /\ e.key \in Keys /\ e.op \in {"DEL", "PEXPIRE", "WRITE", "RESTORE"}
           /\ e.op \in {"WRITE", "RESTORE"} => e.version \in Nat
BY DEF Entry

\* The goroutine of the queue takes a key.
LEMMA PumpFacts ==
    ASSUME Types, Pump
    PROVE  /\ queue.inner # <<>> /\ pump.item = None /\ Head(queue.inner) \in Keys
           /\ queue' \in QueueType /\ queue'.inner = Tail(queue.inner) /\ queue'.closed = queue.closed
           /\ pump' \in [item : Keys \cup {None}, ended : BOOLEAN] /\ pump'.item = Head(queue.inner)
           /\ pump'.ended = pump.ended
<1>1. queue' = [queue EXCEPT !.inner = Tail(@), !.set = @ \ {Head(queue.inner)}] /\ pump' = [pump EXCEPT !.item = Head(queue.inner)]
      /\ queue.inner # <<>> /\ pump.item = None
  BY DEF Pump
<1>2. Head(queue.inner) \in Keys /\ Tail(queue.inner) \in Seq(Keys)
  BY <1>1, Fields, Shortened
<1>3. queue \in [set : SUBSET Keys, inner : Seq(Keys), closed : BOOLEAN] /\ pump \in [item : Keys \cup {None}, ended : BOOLEAN]
  BY Records
<1>4. queue' \in QueueType /\ queue'.inner = Tail(queue.inner) /\ queue'.closed = queue.closed
  BY <1>1, <1>2, <1>3 DEF QueueType
<1>5. pump' \in [item : Keys \cup {None}, ended : BOOLEAN] /\ pump'.item = Head(queue.inner) /\ pump'.ended = pump.ended
  BY <1>1, <1>2, <1>3
<1> QED BY <1>1, <1>2, <1>4, <1>5

\* dump hands a key on.
LEMMA DumpFacts ==
    ASSUME Types, Dump
    PROVE  /\ pump.item \in Keys /\ dumpDb' \in Int
           /\ pump' \in [item : Keys \cup {None}, ended : BOOLEAN] /\ pump'.item = None /\ pump'.ended = pump.ended
           /\ needRestore' \in [items : Seq(Keys), closed : BOOLEAN]
           /\ needRestore'.items = Append(needRestore.items, pump.item) /\ needRestore'.closed = needRestore.closed
<1>1. /\ pump' = [pump EXCEPT !.item = None] /\ needRestore' = [needRestore EXCEPT !.items = Append(@, pump.item)]
      /\ dumpDb' = pump.item[1] /\ pump.item # None
  BY DEF Dump
<1>2. /\ pump \in [item : Keys \cup {None}, ended : BOOLEAN] /\ needRestore \in [items : Seq(Keys), closed : BOOLEAN]
  BY Records
<1>3. pump.item \in Keys
  BY <1>1, <1>2
<1>4. Append(needRestore.items, pump.item) \in Seq(Keys)
  BY <1>2, <1>3, Longer
<1>5. pump.item[1] \in Int
  <2>1. pump.item[1] \in Range(Dbs)
    BY <1>3, KeysAssumption
  <2>2. \A i \in DOMAIN Dbs : Dbs[i] \in Int
    BY DbsAssumption, ElementOfSeq, LenProperties
  <2> QED BY <2>1, <2>2 DEF Range
<1>6. pump' \in [item : Keys \cup {None}, ended : BOOLEAN] /\ pump'.item = None /\ pump'.ended = pump.ended
  BY <1>1, <1>2
<1>7. /\ needRestore' \in [items : Seq(Keys), closed : BOOLEAN]
      /\ needRestore'.items = Append(needRestore.items, pump.item) /\ needRestore'.closed = needRestore.closed
  BY <1>1, <1>2, <1>4
<1> QED BY <1>1, <1>3, <1>5, <1>6, <1>7

\* restore sends an entry.
LEMMA SendFacts ==
    ASSUME Types, RestoreSend
    PROVE  /\ restoring.out # <<>> /\ Head(restoring.out) \in Entry /\ Head(restoring.out) = restoring.out[1]
           /\ ch' \in [entries : Seq(Entry), closed : BOOLEAN] /\ ch'.closed = ch.closed
           /\ ch'.entries = Append(ch.entries, restoring.out[1])
           /\ restoring' \in [db : Int, out : Seq(Entry)] /\ restoring'.out = Tail(restoring.out)
<1>1. /\ ch' = [ch EXCEPT !.entries = Append(@, Head(restoring.out))] /\ restoring' = [restoring EXCEPT !.out = Tail(@)]
      /\ restoring.out # <<>>
  BY DEF RestoreSend
<1>2. ch \in [entries : Seq(Entry), closed : BOOLEAN] /\ restoring \in [db : Int, out : Seq(Entry)]
  BY Records
<1>3. restoring.out \in Seq(Entry) /\ ch.entries \in Seq(Entry)
  BY <1>2
<1>4. Head(restoring.out) \in Entry /\ Head(restoring.out) = restoring.out[1] /\ Tail(restoring.out) \in Seq(Entry)
  BY <1>1, <1>3, Shortened
<1>5. Append(ch.entries, Head(restoring.out)) \in Seq(Entry)
  BY <1>3, <1>4, Longer
<1>6. /\ ch' \in [entries : Seq(Entry), closed : BOOLEAN] /\ ch'.closed = ch.closed
      /\ ch'.entries = Append(ch.entries, Head(restoring.out))
  BY <1>1, <1>2, <1>5
<1>7. restoring' \in [db : Int, out : Seq(Entry)] /\ restoring'.out = Tail(restoring.out)
  BY <1>1, <1>2, <1>4
<1> QED BY <1>1, <1>4, <1>6, <1>7

\* subscribe sends a DEL, or meets a closed channel.
LEMMA DelFacts ==
    ASSUME Types, SubDel
    PROVE  /\ ch' \in [entries : Seq(Entry), closed : BOOLEAN] /\ ch'.closed = ch.closed /\ events' \in Seq(Event)
           /\ \/ ch.closed /\ panicked' = "channel" /\ ch' = ch
              \/ ~ ch.closed /\ panicked' = panicked /\ \E k \in Keys : ch'.entries = Append(ch.entries, [op |-> "DEL", key |-> k])
<1>1. ch \in [entries : Seq(Entry), closed : BOOLEAN]
  BY Records
<1>2. events # <<>> /\ events' = Tail(events)
  BY DEF SubDel
<1>3. Head(events).key \in Keys /\ events' \in Seq(Event)
  BY <1>2, EventFacts
<1> DEFINE e == [op |-> "DEL", key |-> Head(events).key]
<1>4. e \in Entry
  BY <1>3 DEF Entry
<1>5. CASE ch.closed
  <2>1. panicked' = "channel" /\ ch' = ch
    BY <1>5 DEF SubDel
  <2> QED BY <1>1, <1>3, <1>5, <2>1
<1>6. CASE ~ ch.closed
  <2>1. panicked' = panicked /\ ch' = [ch EXCEPT !.entries = Append(@, e)]
    BY <1>6 DEF SubDel
  <2>2. Append(ch.entries, e) \in Seq(Entry)
    BY <1>1, <1>4, Longer
  <2> HIDE DEF e
  <2>3. ch' \in [entries : Seq(Entry), closed : BOOLEAN] /\ ch'.closed = ch.closed /\ ch'.entries = Append(ch.entries, e)
    BY <1>1, <2>1, <2>2
  <2>4. \E k \in Keys : ch'.entries = Append(ch.entries, [op |-> "DEL", key |-> k])
    BY <2>3, <1>3 DEF e
  <2> QED BY <1>3, <1>6, <2>1, <2>3, <2>4
<1> QED BY <1>5, <1>6

\* The writer takes an entry; a busy key ends the process.
LEMMA ApplyFacts ==
    ASSUME Types, Apply
    PROVE  /\ ch.entries # <<>> /\ Head(ch.entries) \in Entry /\ Head(ch.entries) = ch.entries[1]
           /\ ch' \in [entries : Seq(Entry), closed : BOOLEAN] /\ ch'.closed = ch.closed
           /\ ch'.entries = Tail(ch.entries) /\ target' \in [Keys -> Nat]
           /\ \/ /\ panicked' = "busy" /\ ch.entries[1].op = "RESTORE" /\ target[ch.entries[1].key] # 0
                 /\ ~ ch.entries[1].replace
              \/ panicked' = "no"
           /\ \A k \in Keys : target'[k] # 0 => target[k] # 0 \/ (ch.entries[1].key = k /\ ch.entries[1].op \in {"WRITE", "RESTORE"})
<1> DEFINE e == Head(ch.entries)
<1> DEFINE busy == e.op = "RESTORE" /\ target[e.key] # 0 /\ ~ e.replace
<1>1. ch \in [entries : Seq(Entry), closed : BOOLEAN] /\ target \in [Keys -> Nat]
  BY Records, Fields
<1>2. ch.entries # <<>> /\ ch' = [ch EXCEPT !.entries = Tail(@)]
  BY DEF Apply
<1>3. e \in Entry /\ e = ch.entries[1] /\ Tail(ch.entries) \in Seq(Entry)
  <2>1. ch.entries \in Seq(Entry)
    BY <1>1
  <2> QED BY <1>2, <2>1, Shortened
<1>4. panicked' = IF busy THEN "busy" ELSE "no"
  BY DEF Apply
<1>5. target' = CASE busy \/ e.op = "PEXPIRE" -> target
                  [] e.op = "DEL" -> [target EXCEPT ![e.key] = 0]
                  [] OTHER -> [target EXCEPT ![e.key] = e.version]
  BY DEF Apply
<1>6. ch' \in [entries : Seq(Entry), closed : BOOLEAN] /\ ch'.closed = ch.closed /\ ch'.entries = Tail(ch.entries)
  BY <1>1, <1>2, <1>3
<1>7. /\ e.key \in Keys /\ e.op \in {"DEL", "PEXPIRE", "WRITE", "RESTORE"}
      /\ e.op \in {"WRITE", "RESTORE"} => e.version \in Nat
  BY <1>3, EntryFacts
<1>8. \/ panicked' = "busy" /\ e.op = "RESTORE" /\ target[e.key] # 0 /\ ~ e.replace
      \/ panicked' = "no"
  BY <1>4
<1>9. busy => e.op # "DEL"
  OBVIOUS
<1> HIDE DEF busy, e
<1>10. /\ target' \in [Keys -> Nat]
      /\ \A k \in Keys : target'[k] # 0 => target[k] # 0 \/ (e.key = k /\ e.op \in {"WRITE", "RESTORE"})
  <2>1. CASE busy \/ e.op = "PEXPIRE"
    <3>1. target' = target
      BY <2>1, <1>5, <1>9
    <3> QED BY <3>1, <1>1
  <2>2. CASE ~ (busy \/ e.op = "PEXPIRE") /\ e.op = "DEL"
    <3>1. target' = [target EXCEPT ![e.key] = 0]
      BY <2>2, <1>5
    <3> QED BY <3>1, <1>1, <1>7
  <2>3. CASE ~ (busy \/ e.op = "PEXPIRE") /\ e.op # "DEL"
    <3>1. target' = [target EXCEPT ![e.key] = e.version]
      BY <2>3, <1>5
    <3>2. e.op \in {"WRITE", "RESTORE"} /\ e.version \in Nat
      BY <2>3, <1>7
    <3> QED BY <3>1, <3>2, <1>1, <1>7
  <2> QED BY <2>1, <2>2, <2>3
<1> QED BY <1>2, <1>3, <1>6, <1>8, <1>10 DEF e

\* SCAN returns a key of the database.
LEMMA CallFacts ==
    ASSUME Types, NEW k \in Keys, ScanCall(k)
    PROVE  /\ scan.pc = "call" /\ k[1] = Dbs[scan.db]
           /\ scan' \in ScanType /\ scan'.pc = "put" /\ scan'.key = k /\ scan'.db = scan.db /\ scan'.due = scan.due \ {k}
           /\ scan'.repeats \in {scan.repeats, scan.repeats + 1} /\ (k \notin scan.due => scan'.repeats = scan.repeats + 1)
<1> DEFINE r == IF k \in scan.due THEN scan.repeats ELSE scan.repeats + 1
<1>1. scan' = [scan EXCEPT !.pc = "put", !.key = k, !.due = scan.due \ {k}, !.repeats = r]
  BY DEF ScanCall
<1>2. scan \in [pc : {"new", "call", "put", "send", "cursor", "finished", "stopped"}, db : 0..Len(Dbs),
                due : SUBSET Keys, key : Keys \cup {None}, repeats : Nat]
  BY Records
<1>3. /\ scan' \in ScanType /\ scan'.pc = "put" /\ scan'.key = k /\ scan'.db = scan.db /\ scan'.due = scan.due \ {k}
      /\ scan'.repeats \in {scan.repeats, scan.repeats + 1} /\ (k \notin scan.due => scan'.repeats = scan.repeats + 1)
  <2>1. r \in Nat /\ r \in {scan.repeats, scan.repeats + 1} /\ (k \notin scan.due => r = scan.repeats + 1)
    BY <1>2
  <2> HIDE DEF r
  <2>2. /\ scan' \in ScanType /\ scan'.pc = "put" /\ scan'.key = k /\ scan'.db = scan.db /\ scan'.due = scan.due \ {k}
        /\ scan'.repeats = r
    BY <1>1, <1>2, <2>1 DEF ScanType
  <2> QED BY <2>1, <2>2
<1>4. scan.pc = "call" /\ k[1] = Dbs[scan.db]
  BY DEF ScanCall, KeysOf
<1> QED BY <1>3, <1>4

\* scan goes on in the same database, with the same keys to come.
ScanSame == scan'.db = scan.db /\ scan'.due = scan.due /\ scan'.repeats = scan.repeats /\ scan'.key = scan.key

\* scan marks its key, or leaves it when it is marked.
LEMMA PutFacts ==
    ASSUME Types, Held, ScanPut
    PROVE  /\ scan.pc = "put" /\ scan.key \in Keys /\ ScanSame /\ scan' \in ScanType /\ scan'.pc \in {"cursor", "send"}
           /\ queue' \in QueueType /\ queue'.inner = queue.inner /\ queue'.closed = queue.closed
<1>1. scan \in [pc : {"new", "call", "put", "send", "cursor", "finished", "stopped"}, db : 0..Len(Dbs),
                due : SUBSET Keys, key : Keys \cup {None}, repeats : Nat]
  BY Records
<1>2. scan.pc = "put" /\ scan.key \in Keys
  BY DEF ScanPut, Held
<1>3. CASE Marked(scan.key)
  <2>1. scan' = [scan EXCEPT !.pc = "cursor"] /\ queue' = queue
    BY <1>3 DEF ScanPut
  <2>2. ScanSame /\ scan' \in ScanType /\ scan'.pc = "cursor"
    BY <2>1, <1>1 DEF ScanSame, ScanType
  <2> QED BY <1>2, <2>1, <2>2 DEF Types
<1>4. CASE ~ Marked(scan.key)
  <2>1. scan' = [scan EXCEPT !.pc = "send"] /\ Mark(scan.key)
    BY <1>4 DEF ScanPut
  <2>2. ScanSame /\ scan' \in ScanType /\ scan'.pc = "send"
    BY <2>1, <1>1 DEF ScanSame, ScanType
  <2>3. queue' \in QueueType /\ queue'.inner = queue.inner /\ queue'.closed = queue.closed
    BY <2>1, <1>2, MarkFacts
  <2> QED BY <1>2, <2>2, <2>3
<1> QED BY <1>3, <1>4

\* scan sends its key into the queue.
LEMMA ScanSendFacts ==
    ASSUME Types, Held, ScanSend
    PROVE  /\ scan.pc = "send" /\ scan.key \in Keys /\ ScanSame /\ scan' \in ScanType /\ scan'.pc = "cursor"
           /\ queue' \in QueueType /\ queue'.closed = queue.closed
           /\ queue.closed => queue' = queue /\ panicked' = "queue"
           /\ ~ queue.closed => queue'.inner = Append(queue.inner, scan.key) /\ panicked' = panicked
<1>1. scan \in [pc : {"new", "call", "put", "send", "cursor", "finished", "stopped"}, db : 0..Len(Dbs),
                due : SUBSET Keys, key : Keys \cup {None}, repeats : Nat]
  BY Records
<1>2. scan.pc = "send" /\ scan.key \in Keys
  BY DEF ScanSend, Held
<1>3. scan' = [scan EXCEPT !.pc = "cursor"] /\ SendInner(scan.key)
  BY DEF ScanSend
<1>4. ScanSame /\ scan' \in ScanType /\ scan'.pc = "cursor"
  BY <1>1, <1>3 DEF ScanSame, ScanType
<1>5. /\ queue' \in QueueType /\ queue'.closed = queue.closed
      /\ queue.closed => queue' = queue /\ panicked' = "queue"
      /\ ~ queue.closed => queue'.inner = Append(queue.inner, scan.key) /\ panicked' = panicked
  BY <1>2, <1>3, SendInnerFacts
<1> QED BY <1>2, <1>4, <1>5

\* scan sees that the context has ended.
LEMMA ScanStopFacts ==
    ASSUME Types, ScanStop
    PROVE  /\ scan.pc = "call" /\ cancelled /\ ScanSame /\ scan' \in ScanType /\ scan'.pc = "stopped"
           /\ queue' \in QueueType /\ queue'.inner = queue.inner /\ queue'.closed = TRUE
           /\ queue.closed => panicked' = "queue"
           /\ ~ queue.closed => panicked' = panicked
<1>1. scan \in [pc : {"new", "call", "put", "send", "cursor", "finished", "stopped"}, db : 0..Len(Dbs),
                due : SUBSET Keys, key : Keys \cup {None}, repeats : Nat]
  BY Records
<1>2. scan' = [scan EXCEPT !.pc = "stopped"] /\ CloseQueue /\ scan.pc = "call" /\ cancelled
  BY DEF ScanStop
<1>3. ScanSame /\ scan' \in ScanType /\ scan'.pc = "stopped"
  BY <1>1, <1>2 DEF ScanSame, ScanType
<1> QED BY <1>2, <1>3, CloseQueueFacts

\* Between two calls of the same database.
LEMMA CursorFacts ==
    ASSUME Types, scan' = [scan EXCEPT !.pc = "call"]
    PROVE  ScanSame /\ scan' \in ScanType /\ scan'.pc = "call"
BY Records DEF ScanSame, ScanType

\* subscribe: the notifications and its own state.
LEMMA SubFacts ==
    ASSUME Types, Held, Subscribe \/ SubStop \/ SubWait \/ SubDel \/ SubPut \/ SubSend
    PROVE  /\ sub' \in SubType /\ events' \in Seq(Event) /\ queue' \in QueueType
           /\ sub.pc # "off" /\ sub'.pc # "off" /\ (sub'.pc = "send" => sub'.key \in Keys)
           /\ (queue'.closed = queue.closed \/ (SubStop /\ queue'.closed = TRUE))
           /\ (sub.pc # "stopped" /\ (sub'.pc = "stopped" <=> SubStop))
<1>1. sub \in [pc : {"off", "psubscribe", "loop", "receive", "send", "stopped"}, key : Keys \cup {None}]
      /\ events \in Seq(Event) /\ queue \in QueueType
  BY Records, Fields DEF Types
<1>2. CASE Subscribe
  <2>1. sub' = [sub EXCEPT !.pc = "loop"] /\ events' = events /\ queue' = queue /\ sub.pc = "psubscribe"
    BY <1>2 DEF Subscribe
  <2>2. sub' \in SubType /\ sub'.pc = "loop"
    BY <2>1, <1>1 DEF SubType
  <2>3. ~ SubStop
    BY <2>1 DEF SubStop
  <2> QED BY <1>1, <2>1, <2>2, <2>3
<1>3. CASE SubStop
  <2>1. sub' = [sub EXCEPT !.pc = "stopped"] /\ events' = events /\ CloseQueue /\ sub.pc = "loop"
    BY <1>3 DEF SubStop
  <2>2. sub' \in SubType /\ sub'.pc = "stopped"
    BY <2>1, <1>1 DEF SubType
  <2>3. queue' \in QueueType /\ queue'.closed = TRUE
    BY <2>1, CloseQueueFacts
  <2> QED BY <1>1, <1>3, <2>1, <2>2, <2>3
<1>4. CASE SubWait
  <2>1. sub' = [sub EXCEPT !.pc = "receive"] /\ events' = events /\ queue' = queue /\ sub.pc = "loop" /\ ~ SubStop
    BY <1>4 DEF SubWait, SubStop
  <2>2. sub' \in SubType /\ sub'.pc = "receive"
    BY <2>1, <1>1 DEF SubType
  <2> QED BY <1>1, <2>1, <2>2
<1>5. CASE SubDel
  <2>1. sub' = [sub EXCEPT !.pc = "loop"] /\ queue' = queue /\ sub.pc = "receive" /\ ~ SubStop
    BY <1>5 DEF SubDel, SubStop
  <2>2. sub' \in SubType /\ sub'.pc = "loop"
    BY <2>1, <1>1 DEF SubType
  <2>3. events' \in Seq(Event)
    BY <1>5, DelFacts
  <2> QED BY <1>1, <2>1, <2>2, <2>3
<1>6. CASE SubPut
  <2> DEFINE k == Head(events).key
  <2>1. events # <<>> /\ events' = Tail(events) /\ sub.pc = "receive" /\ ~ SubStop
    BY <1>6 DEF SubPut, SubStop
  <2>2. k \in Keys /\ Tail(events) \in Seq(Event)
    BY <2>1, EventFacts
  <2>3. CASE Marked(k)
    <3>1. sub' = [sub EXCEPT !.pc = "loop"] /\ queue' = queue
      BY <1>6, <2>3 DEF SubPut
    <3>2. sub' \in SubType /\ sub'.pc = "loop"
      BY <3>1, <1>1 DEF SubType
    <3> QED BY <1>1, <2>1, <2>2, <3>1, <3>2
  <2>4. CASE ~ Marked(k)
    <3>1. sub' = [pc |-> "send", key |-> k] /\ Mark(k)
      BY <1>6, <2>4 DEF SubPut
    <3>2. sub' \in SubType /\ sub'.pc = "send" /\ sub'.key = k
      BY <3>1, <2>2 DEF SubType
    <3>3. queue' \in QueueType /\ queue'.closed = queue.closed
      BY <3>1, <2>2, MarkFacts
    <3> QED BY <2>1, <2>2, <3>2, <3>3
  <2> QED BY <2>3, <2>4
<1>7. CASE SubSend
  <2>1. sub' = [pc |-> "loop", key |-> None] /\ SendInner(sub.key) /\ sub.pc = "send" /\ events' = events /\ ~ SubStop
    BY <1>7 DEF SubSend, SubStop
  <2>2. sub' \in SubType /\ sub'.pc = "loop"
    BY <2>1 DEF SubType
  <2>3. sub.key \in Keys
    BY <2>1 DEF Held
  <2>4. queue' \in QueueType /\ queue'.closed = queue.closed
    BY <2>1, <2>3, SendInnerFacts
  <2> QED BY <1>1, <2>1, <2>2, <2>4
<1> QED BY <1>2, <1>3, <1>4, <1>5, <1>6, <1>7

SubAct == Subscribe \/ SubStop \/ SubWait \/ SubDel \/ SubPut \/ SubSend
ScanAct == ScanStart \/ ScanStop \/ ScanEmpty \/ (\E k \in Keys : ScanCall(k)) \/ ScanPut \/ ScanSend \/ ScanCursor

\* scan: its own state and the queue's.
LEMMA ScanFacts ==
    ASSUME Types, Held, ScanAct
    PROVE  /\ scan' \in ScanType /\ queue' \in QueueType
           /\ scan'.pc \in {"put", "send"} => scan'.key \in Keys
           /\ scan'.pc \in {"call", "put", "send", "cursor"} => scan'.db >= 1
           /\ scan.pc \notin {"finished", "stopped"} /\ (queue.closed => queue'.closed)
           /\ queue'.closed = queue.closed \/ (opts.ksn /\ cancelled /\ scan'.pc = "stopped")
                                           \/ (~ opts.ksn /\ scan'.pc \in {"finished", "stopped"})
<1>1. scan \in ScanType /\ queue \in QueueType
  BY DEF Types
<1>2. scan.db \in Nat
  <2>1. Len(Dbs) \in Nat
    BY DbsAssumption, LenProperties
  <2> QED BY <1>1, <2>1 DEF ScanType
<1>3. ASSUME ScanNextDb, scan.pc \in {"new", "call", "cursor"}
      PROVE  /\ scan' \in ScanType /\ queue' \in QueueType
             /\ scan'.pc \in {"put", "send"} => scan'.key \in Keys
             /\ scan'.pc \in {"call", "put", "send", "cursor"} => scan'.db >= 1
             /\ scan.pc \notin {"finished", "stopped"} /\ (queue.closed => queue'.closed)
             /\ queue'.closed = queue.closed \/ (opts.ksn /\ cancelled /\ scan'.pc = "stopped")
                                             \/ (~ opts.ksn /\ scan'.pc \in {"finished", "stopped"})
  <2>1. /\ scan' \in ScanType /\ queue' \in QueueType
        /\ \/ scan'.pc = "call" /\ scan'.db = scan.db + 1 /\ queue' = queue
           \/ scan'.pc = "finished" /\ (opts.ksn => queue' = queue) /\ (~ opts.ksn => queue'.closed = TRUE)
    BY <1>3, NextDbFacts
  <2>2. scan'.pc = "call" => scan'.db >= 1
    BY <2>1, <1>2
  <2> QED BY <1>3, <2>1, <2>2
<1>4. CASE ScanStart
  BY <1>3, <1>4 DEF ScanStart
<1>5. CASE ScanEmpty
  BY <1>3, <1>5 DEF ScanEmpty
<1>6. CASE ScanStop
  <2>1. /\ scan.pc = "call" /\ cancelled /\ scan' \in ScanType /\ scan'.pc = "stopped" /\ queue' \in QueueType
        /\ queue'.closed = TRUE
    BY <1>6, ScanStopFacts
  <2> QED BY <2>1
<1>7. ASSUME NEW k \in Keys, ScanCall(k)
      PROVE  /\ scan' \in ScanType /\ queue' = queue /\ scan'.pc = "put" /\ scan'.key \in Keys /\ scan'.db >= 1
             /\ scan.pc = "call"
  <2>1. scan' \in ScanType /\ scan'.pc = "put" /\ scan'.key = k /\ scan'.db = scan.db /\ scan.pc = "call"
    BY <1>7, CallFacts
  <2>2. scan.db >= 1
    BY <2>1 DEF Held
  <2>3. queue' = queue
    BY <1>7 DEF ScanCall
  <2> QED BY <2>1, <2>2, <2>3
<1>8. CASE ScanPut
  <2>1. /\ scan.pc = "put" /\ scan.key \in Keys /\ scan'.key = scan.key /\ scan'.db = scan.db
        /\ scan' \in ScanType /\ scan'.pc \in {"cursor", "send"}
        /\ queue' \in QueueType /\ queue'.closed = queue.closed
    BY <1>8, PutFacts DEF ScanSame
  <2>2. scan.db >= 1
    BY <2>1 DEF Held
  <2> QED BY <2>1, <2>2
<1>9. CASE ScanSend
  <2>1. /\ scan.pc = "send" /\ scan'.db = scan.db /\ scan' \in ScanType /\ scan'.pc = "cursor"
        /\ queue' \in QueueType /\ queue'.closed = queue.closed
    BY <1>9, ScanSendFacts DEF ScanSame
  <2>2. scan.db >= 1
    BY <2>1 DEF Held
  <2> QED BY <2>1, <2>2
<1>10. CASE ScanCursor
  <2>1. CASE ScanNextDb
    BY <1>3, <1>10, <2>1 DEF ScanCursor
  <2>2. CASE scan' = [scan EXCEPT !.pc = "call"] /\ queue' = queue
    <3>1. scan' \in ScanType /\ scan'.pc = "call" /\ scan'.db = scan.db
      BY <2>2, CursorFacts DEF ScanSame
    <3>2. scan.pc = "cursor"
      BY <1>10 DEF ScanCursor
    <3>3. scan.db >= 1
      BY <3>2 DEF Held
    <3> QED BY <1>1, <2>2, <3>1, <3>2, <3>3
  <2> QED BY <1>10, <2>1, <2>2 DEF ScanCursor
<1>11. CASE \E k \in Keys : ScanCall(k)
  BY <1>1, <1>7, <1>11
<1> QED BY <1>4, <1>5, <1>6, <1>8, <1>9, <1>10, <1>11 DEF ScanAct

\* Every step keeps the types.
LEMMA TypesStep == ASSUME Types, Held, WireInv, [Next]_vars PROVE Types'
<1>1. opts' = opts
  BY OptsStep
<1>2. CASE SubAct
  <2>1. /\ source' = source /\ changes' = changes /\ scan' = scan /\ pump' = pump /\ dumpDb' = dumpDb
        /\ needRestore' = needRestore /\ restoring' = restoring /\ target' = target
    BY <1>2 DEF SubAct, Subscribe, SubStop, SubWait, SubDel, SubPut, SubSend, SubKeeps
  <2>2. sub' \in SubType /\ events' \in Seq(Event) /\ queue' \in QueueType
    BY <1>2, SubFacts DEF SubAct
  <2>3. ch' \in [entries : Seq(Entry), closed : BOOLEAN]
    <3>1. CASE SubDel
      BY <3>1, DelFacts
    <3>2. CASE ~ SubDel
      <4>1. ch' = ch
        BY <1>2, <3>2 DEF SubAct, Subscribe, SubStop, SubWait, SubPut, SubSend
      <4> QED BY <4>1, Records
    <3> QED BY <3>1, <3>2
  <2> QED BY <1>1, <2>1, <2>2, <2>3 DEF Types
<1>3. CASE ScanAct
  <2>1. /\ source' = source /\ changes' = changes /\ events' = events /\ sub' = sub /\ pump' = pump /\ dumpDb' = dumpDb
        /\ needRestore' = needRestore /\ restoring' = restoring /\ ch' = ch /\ target' = target
    BY <1>3 DEF ScanAct, ScanStart, ScanStop, ScanEmpty, ScanCall, ScanPut, ScanSend, ScanCursor, ScanKeeps, origin
  <2>2. scan' \in ScanType /\ queue' \in QueueType
    BY <1>3, ScanFacts
  <2> QED BY <1>1, <2>1, <2>2 DEF Types
<1>4. CASE Pump
  <2>1. /\ source' = source /\ changes' = changes /\ events' = events /\ scan' = scan /\ sub' = sub /\ dumpDb' = dumpDb
        /\ needRestore' = needRestore /\ restoring' = restoring /\ ch' = ch /\ target' = target
    BY <1>4 DEF Pump, PumpKeeps, origin
  <2> QED BY <1>1, <1>4, <2>1, PumpFacts DEF Types
<1>5. CASE PumpEnd
  <2>1. /\ source' = source /\ changes' = changes /\ events' = events /\ scan' = scan /\ sub' = sub /\ dumpDb' = dumpDb
        /\ needRestore' = needRestore /\ restoring' = restoring /\ ch' = ch /\ target' = target /\ queue' = queue
    BY <1>5 DEF PumpEnd, PumpKeeps, origin
  <2>2. pump' \in [item : Keys \cup {None}, ended : BOOLEAN]
    BY <1>5, Records DEF PumpEnd
  <2> QED BY <1>1, <2>1, <2>2 DEF Types
<1>6. CASE Dump
  <2>1. /\ source' = source /\ changes' = changes /\ events' = events /\ scan' = scan /\ sub' = sub
        /\ restoring' = restoring /\ ch' = ch /\ target' = target /\ queue' = queue
    BY <1>6 DEF Dump, origin
  <2> QED BY <1>1, <1>6, <2>1, DumpFacts DEF Types
<1>7. CASE DumpEnd
  <2>1. /\ source' = source /\ changes' = changes /\ events' = events /\ scan' = scan /\ sub' = sub /\ dumpDb' = dumpDb
        /\ restoring' = restoring /\ ch' = ch /\ target' = target /\ queue' = queue /\ pump' = pump
    BY <1>7 DEF DumpEnd, origin
  <2>2. needRestore' \in [items : Seq(Keys), closed : BOOLEAN]
    BY <1>7, Records DEF DumpEnd
  <2> QED BY <1>1, <2>1, <2>2 DEF Types
<1>8. CASE Serve
  <2>1. /\ source' = source /\ changes' = changes /\ events' = events /\ scan' = scan /\ sub' = sub /\ dumpDb' = dumpDb
        /\ restoring' = restoring /\ ch' = ch /\ target' = target /\ queue' = queue /\ pump' = pump
        /\ needRestore' = needRestore
    BY <1>8 DEF Serve, origin
  <2> QED BY <1>1, <2>1 DEF Types
<1>9. CASE Restore
  <2>1. /\ source' = source /\ changes' = changes /\ events' = events /\ scan' = scan /\ sub' = sub /\ dumpDb' = dumpDb
        /\ ch' = ch /\ target' = target /\ queue' = queue /\ pump' = pump
    BY <1>9 DEF Restore, RestoreKeeps, origin
  <2>2. /\ restoring' \in [db : Int, out : Seq(Entry)] /\ needRestore' = [needRestore EXCEPT !.items = Tail(@)]
        /\ needRestore.items # <<>>
    BY <1>9, RestoreEffect
  <2>3. Tail(needRestore.items) \in Seq(Keys)
    BY <2>2, Fields, Shortened
  <2>4. needRestore' \in [items : Seq(Keys), closed : BOOLEAN]
    BY <2>2, <2>3, Records
  <2> QED BY <1>1, <2>1, <2>2, <2>4 DEF Types
<1>10. CASE RestoreSend
  <2>1. /\ source' = source /\ changes' = changes /\ events' = events /\ scan' = scan /\ sub' = sub /\ dumpDb' = dumpDb
        /\ needRestore' = needRestore /\ target' = target /\ queue' = queue /\ pump' = pump
    BY <1>10 DEF RestoreSend, RestoreKeeps, origin
  <2> QED BY <1>1, <1>10, <2>1, SendFacts DEF Types
<1>11. CASE RestoreEnd
  <2>1. /\ source' = source /\ changes' = changes /\ events' = events /\ scan' = scan /\ sub' = sub /\ dumpDb' = dumpDb
        /\ needRestore' = needRestore /\ target' = target /\ queue' = queue /\ pump' = pump /\ restoring' = restoring
    BY <1>11 DEF RestoreEnd, RestoreKeeps, origin
  <2>2. ch' \in [entries : Seq(Entry), closed : BOOLEAN]
    BY <1>11, Records DEF RestoreEnd
  <2> QED BY <1>1, <2>1, <2>2 DEF Types
<1>12. CASE Apply
  <2>1. /\ source' = source /\ changes' = changes /\ events' = events /\ scan' = scan /\ sub' = sub /\ dumpDb' = dumpDb
        /\ needRestore' = needRestore /\ queue' = queue /\ pump' = pump /\ restoring' = restoring
    BY <1>12 DEF Apply, origin
  <2> QED BY <1>1, <1>12, <2>1, ApplyFacts DEF Types
<1>13. ASSUME NEW k \in Keys, SourceStep(k) PROVE Types'
  <2>1. /\ sub' = sub /\ dumpDb' = dumpDb /\ ch' = ch /\ target' = target
        /\ needRestore' = needRestore /\ queue' = queue /\ pump' = pump /\ restoring' = restoring
    BY <1>13 DEF SourceStep, SourceSet, SourceDel, SourceExpire, SourceLose, SourceKeeps
  <2>2. changes' \in Nat /\ source' \in [Keys -> Nat]
    BY <1>13, SourceEffect
  <2>3. scan' \in ScanType
    <3>1. scan' = scan \/ scan' = [scan EXCEPT !.due = @ \ {k}]
      BY <1>13 DEF SourceStep, SourceSet, SourceDel, SourceExpire, SourceLose, SourceKeeps
    <3>2. scan \in ScanType
      BY DEF Types
    <3>3. scan.due \ {k} \in SUBSET Keys
      BY <3>2 DEF ScanType
    <3>4. [scan EXCEPT !.due = scan.due \ {k}] \in ScanType
      BY <3>2, <3>3 DEF ScanType
    <3> QED BY <3>1, <3>2, <3>4
  <2>4. events' \in Seq(Event)
    <3>1. \/ events' = events
          \/ events' = Append(events, [key |-> k, event |-> "set"])
          \/ events' = Append(events, [key |-> k, event |-> "del"])
          \/ events' = Append(events, [key |-> k, event |-> "expired"])
      BY <1>13 DEF SourceStep, SourceSet, SourceDel, SourceExpire, SourceLose, Change
    <3>2. ASSUME NEW ev \in {"set", "del", "expired"} PROVE Append(events, [key |-> k, event |-> ev]) \in Seq(Event)
      <4>1. [key |-> k, event |-> ev] \in Event
        BY DEF Event
      <4> QED BY <4>1, Fields, Longer
    <3> QED BY <3>1, <3>2, Fields
  <2> QED BY <1>1, <2>1, <2>2, <2>3, <2>4 DEF Types
<1>14. CASE Cancel \/ Done \/ UNCHANGED vars
  <2>1. /\ source' = source /\ changes' = changes /\ events' = events /\ scan' = scan /\ sub' = sub /\ dumpDb' = dumpDb
        /\ restoring' = restoring /\ ch' = ch /\ target' = target /\ queue' = queue /\ pump' = pump
        /\ needRestore' = needRestore
    BY <1>14 DEF Cancel, Done, vars, origin
  <2> QED BY <1>1, <2>1 DEF Types
<1> QED BY <1>2, <1>3, <1>4, <1>5, <1>6, <1>7, <1>8, <1>9, <1>10, <1>11, <1>12, <1>13, <1>14
        DEF Next, System, SubAct, ScanAct, SourceStep

\* The steps behind scan and subscribe.
LEMMA StepCases ==
    ASSUME [Next]_vars
    PROVE  \/ SubAct \/ ScanAct \/ (\E k \in Keys : SourceStep(k))
           \/ scan' = scan /\ sub' = sub /\ source' = source /\ changes' = changes
<1>1. CASE Pump \/ PumpEnd
  BY <1>1 DEF Pump, PumpEnd, PumpKeeps, origin
<1>2. CASE Dump \/ DumpEnd \/ Serve
  BY <1>2 DEF Dump, DumpEnd, Serve, origin
<1>3. CASE Restore \/ RestoreSend \/ RestoreEnd
  BY <1>3 DEF Restore, RestoreSend, RestoreEnd, RestoreKeeps, origin
<1>4. CASE Apply \/ Cancel \/ Done \/ UNCHANGED vars
  BY <1>4 DEF Apply, Cancel, Done, vars, origin
<1> QED BY <1>1, <1>2, <1>3, <1>4 DEF Next, System, SubAct, ScanAct, SourceStep

\* What the source does beside its own keys.
LEMMA SourceLeaves ==
    ASSUME Types, NEW k \in Keys, SourceStep(k)
    PROVE  /\ panicked = "no" /\ panicked' = panicked /\ sub' = sub /\ queue' = queue /\ pump' = pump /\ needRestore' = needRestore /\ restoring' = restoring
           /\ ch' = ch /\ target' = target /\ cancelled' = cancelled
           /\ scan'.pc = scan.pc /\ scan'.db = scan.db /\ scan'.key = scan.key /\ scan'.repeats = scan.repeats
           /\ scan'.due \subseteq scan.due
<1>1. /\ panicked = "no" /\ panicked' = panicked /\ sub' = sub /\ queue' = queue /\ pump' = pump /\ needRestore' = needRestore /\ restoring' = restoring
      /\ ch' = ch /\ target' = target /\ cancelled' = cancelled
  BY DEF SourceStep, SourceSet, SourceDel, SourceExpire, SourceLose, SourceKeeps, Change, Running
<1>2. scan' = scan \/ scan' = [scan EXCEPT !.due = @ \ {k}]
  BY DEF SourceStep, SourceSet, SourceDel, SourceExpire, SourceLose, SourceKeeps
<1>3. scan \in [pc : {"new", "call", "put", "send", "cursor", "finished", "stopped"}, db : 0..Len(Dbs),
                due : SUBSET Keys, key : Keys \cup {None}, repeats : Nat]
  BY Records
<1>4. /\ scan'.pc = scan.pc /\ scan'.db = scan.db /\ scan'.key = scan.key /\ scan'.repeats = scan.repeats
      /\ scan'.due \subseteq scan.due
  BY <1>2, <1>3
<1> QED BY <1>1, <1>4

\* Every step keeps what the goroutines hold.
LEMMA HeldStep == ASSUME Types, Held, [Next]_vars PROVE Held'
<1>1. CASE scan' = scan /\ sub' = sub /\ source' = source /\ changes' = changes
  BY <1>1 DEF Held
<1>2. CASE SubAct
  <2>1. source' = source /\ changes' = changes /\ scan' = scan
    BY <1>2 DEF SubAct, Subscribe, SubStop, SubWait, SubDel, SubPut, SubSend, SubKeeps
  <2>2. sub'.pc = "send" => sub'.key \in Keys
    BY <1>2, SubFacts DEF SubAct
  <2> QED BY <2>1, <2>2 DEF Held
<1>3. CASE ScanAct
  <2>1. source' = source /\ changes' = changes /\ sub' = sub
    BY <1>3 DEF ScanAct, ScanStart, ScanStop, ScanEmpty, ScanCall, ScanPut, ScanSend, ScanCursor, ScanKeeps, origin
  <2>2. /\ scan'.pc \in {"put", "send"} => scan'.key \in Keys
        /\ scan'.pc \in {"call", "put", "send", "cursor"} => scan'.db >= 1
    BY <1>3, ScanFacts
  <2> QED BY <2>1, <2>2 DEF Held
<1>4. ASSUME NEW k \in Keys, SourceStep(k) PROVE Held'
  <2>1. sub' = sub /\ scan'.pc = scan.pc /\ scan'.db = scan.db /\ scan'.key = scan.key
    BY <1>4, SourceLeaves
  <2>2. \A h \in Keys : source'[h] <= changes' + 1
    BY <1>4, SourceEffect
  <2> QED BY <2>1, <2>2 DEF Held
<1> QED BY <1>1, <1>2, <1>3, <1>4, StepCases

\* Only Done happens once the process has ended.
LEMMA EndedStays == ASSUME [Next]_vars, panicked # "no" PROVE UNCHANGED vars
BY DEF Next, System, Subscribe, SubStop, SubWait, SubDel, SubPut, SubSend, Pump, PumpEnd, Running, Change,
       ScanStart, ScanStop, ScanEmpty, ScanCall, ScanPut, ScanSend, ScanCursor, Dump, DumpEnd, Serve,
       Restore, RestoreSend, RestoreEnd, Apply, Cancel, Done, SourceSet, SourceDel, SourceExpire, SourceLose

\* Every step keeps the order in which the channels are closed.
LEMMA ClosesStep == ASSUME Types, Held, WireInv, Closes, [Next]_vars PROVE Closes'
<1>1. opts' = opts
  BY OptsStep
<1>2. CASE SubAct
  <2>1. cancelled' = cancelled /\ scan' = scan /\ pump' = pump /\ needRestore' = needRestore
    BY <1>2 DEF SubAct, Subscribe, SubStop, SubWait, SubDel, SubPut, SubSend, SubKeeps
  <2>2. /\ sub.pc # "off" /\ sub'.pc # "off" /\ sub.pc # "stopped" /\ (sub'.pc = "stopped" <=> SubStop)
        /\ (queue'.closed = queue.closed \/ (SubStop /\ queue'.closed = TRUE))
    BY <1>2, SubFacts DEF SubAct
  <2>3. SubStop => cancelled
    BY DEF SubStop
  <2>4. ch'.closed = ch.closed
    <3>1. CASE SubDel
      BY <3>1, DelFacts
    <3>2. CASE ~ SubDel
      BY <1>2, <3>2 DEF SubAct, Subscribe, SubStop, SubWait, SubPut, SubSend
    <3> QED BY <3>1, <3>2
  <2> QED BY <1>1, <2>1, <2>2, <2>3, <2>4 DEF Closes
<1>3. CASE ScanAct
  <2>1. cancelled' = cancelled /\ sub' = sub /\ pump' = pump /\ needRestore' = needRestore /\ ch' = ch
    BY <1>3 DEF ScanAct, ScanStart, ScanStop, ScanEmpty, ScanCall, ScanPut, ScanSend, ScanCursor, ScanKeeps
  <2>2. /\ scan.pc \notin {"finished", "stopped"} /\ (queue.closed => queue'.closed)
        /\ queue'.closed = queue.closed \/ (opts.ksn /\ cancelled /\ scan'.pc = "stopped")
                                        \/ (~ opts.ksn /\ scan'.pc \in {"finished", "stopped"})
    BY <1>3, ScanFacts
  <2> QED BY <1>1, <2>1, <2>2 DEF Closes
<1>4. CASE Pump
  <2>1. cancelled' = cancelled /\ scan' = scan /\ sub' = sub /\ needRestore' = needRestore /\ ch' = ch
    BY <1>4 DEF Pump, PumpKeeps
  <2>2. queue'.closed = queue.closed /\ pump'.ended = pump.ended
    BY <1>4, PumpFacts
  <2> QED BY <1>1, <2>1, <2>2 DEF Closes
<1>5. CASE PumpEnd
  <2>1. cancelled' = cancelled /\ scan' = scan /\ sub' = sub /\ needRestore' = needRestore /\ ch' = ch /\ queue' = queue
        /\ queue.closed
    BY <1>5 DEF PumpEnd, PumpKeeps
  <2>2. pump'.ended = TRUE
    BY <1>5, Records DEF PumpEnd
  <2> QED BY <1>1, <2>1, <2>2 DEF Closes
<1>6. CASE Dump
  <2>1. cancelled' = cancelled /\ scan' = scan /\ sub' = sub /\ ch' = ch /\ queue' = queue
    BY <1>6 DEF Dump
  <2>2. pump'.ended = pump.ended /\ needRestore'.closed = needRestore.closed
    BY <1>6, DumpFacts
  <2> QED BY <1>1, <2>1, <2>2 DEF Closes
<1>7. CASE DumpEnd
  <2>1. cancelled' = cancelled /\ scan' = scan /\ sub' = sub /\ ch' = ch /\ queue' = queue /\ pump' = pump /\ pump.ended
    BY <1>7 DEF DumpEnd
  <2>2. needRestore'.closed = TRUE
    BY <1>7, Records DEF DumpEnd
  <2> QED BY <1>1, <2>1, <2>2 DEF Closes
<1>8. CASE Restore
  <2>1. cancelled' = cancelled /\ scan' = scan /\ sub' = sub /\ ch' = ch /\ queue' = queue /\ pump' = pump
    BY <1>8 DEF Restore, RestoreKeeps
  <2>2. needRestore' = [needRestore EXCEPT !.items = Tail(@)]
    BY <1>8, RestoreEffect
  <2>3. needRestore'.closed = needRestore.closed
    BY <2>2, Records
  <2> QED BY <1>1, <2>1, <2>3 DEF Closes
<1>9. CASE RestoreSend
  <2>1. cancelled' = cancelled /\ scan' = scan /\ sub' = sub /\ queue' = queue /\ pump' = pump /\ needRestore' = needRestore
    BY <1>9 DEF RestoreSend, RestoreKeeps
  <2>2. ch'.closed = ch.closed
    BY <1>9, SendFacts
  <2> QED BY <1>1, <2>1, <2>2 DEF Closes
<1>10. CASE RestoreEnd
  <2>1. /\ cancelled' = cancelled /\ scan' = scan /\ sub' = sub /\ queue' = queue /\ pump' = pump
        /\ needRestore' = needRestore /\ needRestore.closed
    BY <1>10 DEF RestoreEnd, RestoreKeeps
  <2> QED BY <1>1, <2>1 DEF Closes
<1>11. CASE Apply
  <2>1. cancelled' = cancelled /\ scan' = scan /\ sub' = sub /\ queue' = queue /\ pump' = pump /\ needRestore' = needRestore
    BY <1>11 DEF Apply
  <2>2. ch'.closed = ch.closed
    BY <1>11, ApplyFacts
  <2> QED BY <1>1, <2>1, <2>2 DEF Closes
<1>12. ASSUME NEW k \in Keys, SourceStep(k) PROVE Closes'
  <2>1. cancelled' = cancelled /\ scan'.pc = scan.pc /\ sub' = sub /\ queue' = queue /\ pump' = pump
        /\ needRestore' = needRestore /\ ch' = ch
    BY <1>12, SourceLeaves
  <2> QED BY <1>1, <2>1 DEF Closes
<1>13. CASE Cancel
  <2>1. cancelled' = TRUE /\ scan' = scan /\ sub' = sub /\ queue' = queue /\ pump' = pump /\ needRestore' = needRestore
        /\ ch' = ch
    BY <1>13 DEF Cancel
  <2> QED BY <1>1, <2>1 DEF Closes
<1>14. CASE Serve \/ Done \/ UNCHANGED vars
  <2>1. cancelled' = cancelled /\ scan' = scan /\ sub' = sub /\ queue' = queue /\ pump' = pump /\ needRestore' = needRestore
        /\ ch' = ch
    BY <1>14 DEF Serve, Done, vars
  <2> QED BY <1>1, <2>1 DEF Closes
<1> QED BY <1>2, <1>3, <1>4, <1>5, <1>6, <1>7, <1>8, <1>9, <1>10, <1>11, <1>12, <1>13, <1>14
        DEF Next, System, SubAct, ScanAct, SourceStep

\* A step leaves restore and the source alone, or it is one of these.
LEMMA OutCases ==
    ASSUME [Next]_vars
    PROVE  \/ Restore \/ RestoreSend \/ (\E k \in Keys : SourceStep(k))
           \/ restoring' = restoring /\ source' = source /\ changes' = changes
<1>1. CASE Pump \/ PumpEnd
  BY <1>1 DEF Pump, PumpEnd, PumpKeeps, origin
<1>2. CASE Dump \/ DumpEnd \/ Serve
  BY <1>2 DEF Dump, DumpEnd, Serve, origin
<1>3. CASE RestoreEnd
  BY <1>3 DEF RestoreEnd, RestoreKeeps, origin
<1>4. CASE Apply \/ Cancel \/ Done \/ UNCHANGED vars
  BY <1>4 DEF Apply, Cancel, Done, vars, origin
<1>5. CASE SubAct
  BY <1>5 DEF SubAct, Subscribe, SubStop, SubWait, SubDel, SubPut, SubSend, SubKeeps
<1>6. CASE ScanAct
  BY <1>6 DEF ScanAct, ScanStart, ScanStop, ScanEmpty, ScanCall, ScanPut, ScanSend, ScanCursor, ScanKeeps, origin
<1> QED BY <1>1, <1>2, <1>3, <1>4, <1>5, <1>6 DEF Next, System, SubAct, ScanAct, SourceStep

\* What restore is about to send.
LEMMA OutFacts ==
    ASSUME OutInv
    PROVE  OutFits(restoring.out, source, changes, opts.skip, opts.rewrite)
BY DEF OutInv

\* Restore's entries lose their first.
LEMMA OutTail ==
    ASSUME NEW o \in Seq(Entry), o # <<>>, NEW src, NEW n, NEW skip, NEW rewrite, OutFits(o, src, n, skip, rewrite)
    PROVE  OutFits(Tail(o), src, n, skip, rewrite) /\ (Tail(o) # <<>> => Tail(o)[1].op = "PEXPIRE")
<1>1. /\ Tail(o) \in Seq(Entry) /\ Len(o) \in Nat \ {0} /\ Len(Tail(o)) = Len(o) - 1
      /\ \A i \in 1..(Len(o) - 1) : Tail(o)[i] = o[1 + i]
  BY Shortened
<1>2. CASE Len(o) = 1
  <2>1. Tail(o) \in Seq(Entry) /\ Len(Tail(o)) = 0
    BY <1>1, <1>2
  <2>2. Tail(o) = <<>>
    BY <2>1, EmptyLen
  <2> QED BY <2>2 DEF OutFits
<1>3. CASE Len(o) = 2 /\ o[2].op = "PEXPIRE"
  <2>1. Len(Tail(o)) = 1 /\ Tail(o)[1] = o[2]
    BY <1>1, <1>3
  <2> QED BY <1>3, <2>1 DEF OutFits
<1> QED BY <1>2, <1>3 DEF OutFits, Shape

\* The source goes on to another version.
LEMMA OutSource ==
    ASSUME NEW o \in Seq(Entry), NEW src, NEW src2, NEW n \in Nat, NEW skip, NEW rewrite,
           OutFits(o, src, n, skip, rewrite),
           \A h \in Keys : src2[h] = src[h] \/ src2[h] = 0 \/ src2[h] = n + 2
    PROVE  OutFits(o, src2, n + 1, skip, rewrite)
<1>1. CASE o = <<>> \/ (Len(o) = 1 /\ o[1].op = "PEXPIRE")
  BY <1>1 DEF OutFits
<1>2. CASE Shape(o, rewrite) /\ Value(o[1], src, n, skip)
  <2> DEFINE e == o[1]
  <2>1. o # <<>>
    BY <1>2, EmptyLen DEF Shape
  <2>2. e \in Entry
    BY <2>1, Shortened
  <2>3. e.op \in {"RESTORE", "WRITE"}
    BY <1>2 DEF Shape
  <2>4. e.key \in Keys /\ e.version \in Nat
    BY <2>2, <2>3, EntryFacts
  <2>5. e.of = e.key /\ e.version > 0 /\ e.version <= n + 1 /\ (e.key \in skip => src[e.key] # e.version)
    BY <1>2 DEF Value
  <2>6. src2[e.key] = src[e.key] \/ src2[e.key] = 0 \/ src2[e.key] = n + 2
    BY <2>4
  <2> HIDE DEF e
  <2>7. e.version <= n + 2 /\ (e.key \in skip => src2[e.key] # e.version)
    BY <2>4, <2>5, <2>6
  <2>8. Value(e, src2, n + 1, skip)
    BY <2>5, <2>7 DEF Value
  <2> QED BY <1>2, <2>8 DEF OutFits, e
<1> QED BY <1>1, <1>2 DEF OutFits

\* Every step keeps what restore is about to send its own.
LEMMA OutStep == ASSUME Types, Held, WireInv, OutInv, [Next]_vars PROVE OutInv'
<1>1. opts' = opts
  BY OptsStep
<1>2. CASE restoring' = restoring /\ source' = source /\ changes' = changes
  BY <1>1, <1>2 DEF OutInv
<1>3. CASE Restore
  BY <1>3, RestoreEffect
<1>4. restoring.out \in Seq(Entry) /\ changes \in Nat
  BY Fields
<1>5. CASE RestoreSend
  <2>1. source' = source /\ changes' = changes
    BY <1>5 DEF RestoreSend, RestoreKeeps, origin
  <2>2. restoring'.out = Tail(restoring.out) /\ restoring.out # <<>>
    BY <1>5, SendFacts
  <2>3. OutFits(Tail(restoring.out), source, changes, opts.skip, opts.rewrite)
    BY <1>4, <2>2, OutFacts, OutTail
  <2> QED BY <1>1, <2>1, <2>2, <2>3 DEF OutInv
<1>6. ASSUME NEW k \in Keys, SourceStep(k) PROVE OutInv'
  <2>1. /\ \A h \in Keys : source'[h] = source[h] \/ source'[h] = 0 \/ source'[h] = changes + 2
        /\ changes' = changes + 1 /\ restoring' = restoring
    BY <1>6, SourceEffect
  <2>2. OutFits(restoring.out, source', changes + 1, opts.skip, opts.rewrite)
    BY <1>4, <2>1, OutFacts, OutSource
  <2> QED BY <1>1, <2>1, <2>2 DEF OutInv
<1> QED BY <1>2, <1>3, <1>5, <1>6, OutCases

\* The first of restore's entries replaces when rewrite is set.
LEMMA OutReplaces ==
    ASSUME OutInv, restoring.out # <<>>, restoring.out[1].op = "RESTORE"
    PROVE  restoring.out[1].replace = opts.rewrite
BY OutFacts DEF OutFits, Shape

\* Who puts entries into ch or takes them.
LEMMA EntriesCases == ASSUME Types, [Next]_vars PROVE RestoreSend \/ SubDel \/ Apply \/ ch'.entries = ch.entries
<1>1. CASE Pump \/ PumpEnd
  BY <1>1 DEF Pump, PumpEnd, PumpKeeps
<1>2. CASE Dump \/ DumpEnd \/ Serve
  BY <1>2 DEF Dump, DumpEnd, Serve
<1>3. CASE RestoreEnd
  BY <1>3, Records DEF RestoreEnd
<1>4. CASE Cancel \/ Done \/ UNCHANGED vars
  BY <1>4 DEF Cancel, Done, vars
<1>5. CASE SubAct
  BY <1>5 DEF SubAct, Subscribe, SubStop, SubWait, SubPut, SubSend
<1>6. CASE ScanAct
  BY <1>6 DEF ScanAct, ScanStart, ScanStop, ScanEmpty, ScanCall, ScanPut, ScanSend, ScanCursor, ScanKeeps
<1>7. CASE Restore
  BY <1>7 DEF Restore
<1>8. CASE \E k \in Keys : SourceStep(k)
  BY <1>8, SourceLeaves
<1> QED BY <1>1, <1>2, <1>3, <1>4, <1>5, <1>6, <1>7, <1>8 DEF Next, System, SubAct, ScanAct, SourceStep

\* Every step keeps the RESTOREs of ch as the option says.
LEMMA SentStep == ASSUME Types, OutInv, SentInv, [Next]_vars PROVE SentInv'
<1>1. opts' = opts
  BY OptsStep
<1>2. ch.entries \in Seq(Entry) /\ Len(ch.entries) \in Nat
  BY Fields, LenProperties
<1>3. ASSUME NEW e \in Entry, e.op = "RESTORE" => e.replace = opts.rewrite, ch'.entries = Append(ch.entries, e)
      PROVE  SentInv'
  <2>1. /\ Len(Append(ch.entries, e)) = Len(ch.entries) + 1
        /\ \A i \in 1..Len(ch.entries) : Append(ch.entries, e)[i] = ch.entries[i]
        /\ Append(ch.entries, e)[Len(ch.entries) + 1] = e
    BY <1>2, Longer
  <2>2. ASSUME NEW i \in 1..Len(ch'.entries) PROVE ch'.entries[i].op = "RESTORE" => ch'.entries[i].replace = opts'.rewrite
    <3>1. CASE i = Len(ch.entries) + 1
      BY <1>1, <1>3, <2>1, <3>1
    <3>2. CASE i # Len(ch.entries) + 1
      <4>1. i \in 1..Len(ch.entries)
        BY <1>2, <1>3, <2>1, <3>2
      <4> QED BY <1>1, <1>3, <2>1, <4>1 DEF SentInv
    <3> QED BY <3>1, <3>2
  <2> QED BY <2>2 DEF SentInv
<1>4. CASE ch'.entries = ch.entries
  BY <1>1, <1>4 DEF SentInv
<1>5. CASE RestoreSend
  <2>1. ch'.entries = Append(ch.entries, restoring.out[1]) /\ restoring.out[1] \in Entry /\ restoring.out # <<>>
    BY <1>5, SendFacts
  <2> QED BY <1>3, <2>1, OutReplaces
<1>6. CASE SubDel
  <2>1. ch' = ch \/ \E k \in Keys : ch'.entries = Append(ch.entries, [op |-> "DEL", key |-> k])
    BY <1>6, DelFacts
  <2>2. ASSUME NEW k \in Keys, ch'.entries = Append(ch.entries, [op |-> "DEL", key |-> k]) PROVE SentInv'
    <3>1. [op |-> "DEL", key |-> k] \in Entry
      BY DEF Entry
    <3> QED BY <1>3, <2>2, <3>1
  <2> QED BY <1>4, <2>1, <2>2
<1>7. CASE Apply
  <2>1. ch'.entries = Tail(ch.entries) /\ ch.entries # <<>>
    BY <1>7, ApplyFacts
  <2>2. /\ Len(Tail(ch.entries)) = Len(ch.entries) - 1
        /\ \A i \in 1..(Len(ch.entries) - 1) : Tail(ch.entries)[i] = ch.entries[1 + i]
    BY <1>2, <2>1, Shortened
  <2>3. ASSUME NEW i \in 1..Len(ch'.entries) PROVE ch'.entries[i].op = "RESTORE" => ch'.entries[i].replace = opts'.rewrite
    <3>1. i \in 1..(Len(ch.entries) - 1) /\ 1 + i \in 1..Len(ch.entries)
      BY <1>2, <2>1, <2>2
    <3>2. ch'.entries[i] = ch.entries[1 + i]
      BY <3>1, <2>1, <2>2
    <3> QED BY <1>1, <3>1, <3>2 DEF SentInv
  <2> QED BY <2>3 DEF SentInv
<1>8. RestoreSend \/ SubDel \/ Apply \/ ch'.entries = ch.entries
  BY EntriesCases
<1> QED BY <1>4, <1>5, <1>6, <1>7, <1>8

-----------------------------------------------------------------------------
(***************************************************************************)
(* A key is in one place only.                                             *)
(***************************************************************************)
\* A stage that is left alone.
LEMMA Stages ==
    /\ queue'.inner = queue.inner => InQueue' = InQueue /\ (OnceQueued => OnceQueued')
    /\ pump'.item = pump.item => InPump' = InPump
    /\ needRestore'.items = needRestore.items => InDump' = InDump /\ (OnceDumped => OnceDumped')
    /\ restoring'.out = restoring.out => InOut' = InOut
    /\ ch'.entries = ch.entries => InCh' = InCh /\ (OnceSent => OnceSent')
    /\ target' = target => Written' = Written
    /\ scan'.pc = scan.pc /\ scan'.key = scan.key => InScan' = InScan
<1>1. queue'.inner = queue.inner => InQueue' = InQueue /\ (OnceQueued => OnceQueued')
  BY DEF InQueue, OnceQueued
<1>2. pump'.item = pump.item => InPump' = InPump
  BY DEF InPump
<1>3. needRestore'.items = needRestore.items => InDump' = InDump /\ (OnceDumped => OnceDumped')
  BY DEF InDump, OnceDumped
<1>4. restoring'.out = restoring.out => InOut' = InOut
  BY DEF InOut
<1>5. ch'.entries = ch.entries => InCh' = InCh /\ (OnceSent => OnceSent')
  BY DEF InCh, OnceSent
<1>6. target' = target => Written' = Written
  BY DEF Written
<1>7. scan'.pc = scan.pc /\ scan'.key = scan.key => InScan' = InScan
  BY DEF InScan
<1> QED BY <1>1, <1>2, <1>3, <1>4, <1>5, <1>6, <1>7

\* No database is left behind.
LEMMA VisitedStays == ASSUME Visited, OnTheWay' \subseteq OnTheWay, scan'.db = scan.db PROVE Visited'
BY DEF Visited

\* A sequence without repetitions stays one when its first element is taken.
LEMMA OnceTail ==
    ASSUME NEW X, NEW s \in Seq(X), s # <<>>, \A i, j \in 1..Len(s) : s[i] = s[j] => i = j
    PROVE  /\ \A i, j \in 1..Len(Tail(s)) : Tail(s)[i] = Tail(s)[j] => i = j
           /\ \A i \in 1..Len(Tail(s)) : Tail(s)[i] # Head(s) /\ \E j \in 1..Len(s) : s[j] = Tail(s)[i]
           /\ \E j \in 1..Len(s) : s[j] = Head(s)
<1>1. /\ Head(s) = s[1] /\ Len(s) \in Nat \ {0} /\ Len(Tail(s)) = Len(s) - 1
      /\ \A i \in 1..(Len(s) - 1) : Tail(s)[i] = s[1 + i]
  BY Shortened
<1>2. ASSUME NEW i \in 1..Len(Tail(s)) PROVE 1 + i \in 1..Len(s) /\ Tail(s)[i] = s[1 + i] /\ i \in Nat
  BY <1>1
<1>3. ASSUME NEW i \in 1..Len(Tail(s)), NEW j \in 1..Len(Tail(s)), Tail(s)[i] = Tail(s)[j] PROVE i = j
  <2>1. 1 + i = 1 + j
    BY <1>2, <1>3
  <2> QED BY <2>1, <1>2
<1>4. 1 \in 1..Len(s)
  BY <1>1
<1>5. ASSUME NEW i \in 1..Len(Tail(s)) PROVE Tail(s)[i] # Head(s) /\ \E j \in 1..Len(s) : s[j] = Tail(s)[i]
  <2>1. 1 + i # 1
    BY <1>2
  <2>2. s[1 + i] # s[1]
    BY <2>1, <1>2, <1>4
  <2> QED BY <2>2, <1>1, <1>2
<1> QED BY <1>1, <1>3, <1>4, <1>5

\* And when an element it does not have is put behind the others.
LEMMA OnceAppend ==
    ASSUME NEW X, NEW s \in Seq(X), NEW x \in X, \A i, j \in 1..Len(s) : s[i] = s[j] => i = j,
           \A i \in 1..Len(s) : s[i] # x
    PROVE  \A i, j \in 1..Len(Append(s, x)) : Append(s, x)[i] = Append(s, x)[j] => i = j
<1>1. /\ Len(s) \in Nat /\ Len(Append(s, x)) = Len(s) + 1
      /\ \A i \in 1..Len(s) : Append(s, x)[i] = s[i]
      /\ Append(s, x)[Len(s) + 1] = x
  BY Longer
<1>2. ASSUME NEW i \in 1..Len(Append(s, x)) PROVE i \in 1..Len(s) \/ i = Len(s) + 1
  BY <1>1
<1>3. ASSUME NEW i \in 1..Len(Append(s, x)), NEW j \in 1..Len(Append(s, x)), Append(s, x)[i] = Append(s, x)[j] PROVE i = j
  <2>1. CASE i \in 1..Len(s) /\ j \in 1..Len(s)
    BY <1>1, <1>3, <2>1
  <2>2. CASE i \in 1..Len(s) /\ j = Len(s) + 1
    BY <1>1, <1>3, <2>2
  <2>3. CASE i = Len(s) + 1 /\ j \in 1..Len(s)
    BY <1>1, <1>3, <2>3
  <2> QED BY <1>2, <2>1, <2>2, <2>3
<1> QED BY <1>3

\* What is in a sequence that got longer.
LEMMA Elements ==
    ASSUME NEW X, NEW s \in Seq(X), NEW x \in X
    PROVE  \A k \in X : (\E i \in 1..Len(Append(s, x)) : Append(s, x)[i] = k) <=> k = x \/ \E i \in 1..Len(s) : s[i] = k
<1>1. /\ Len(s) \in Nat /\ Len(Append(s, x)) = Len(s) + 1
      /\ \A i \in 1..Len(s) : Append(s, x)[i] = s[i]
      /\ Append(s, x)[Len(s) + 1] = x
  BY Longer
<1> DEFINE n == Len(s)
<1>2. \A i \in 1..(n + 1) : i \in 1..n \/ i = n + 1
  BY <1>1
<1>3. (\A i \in 1..n : i \in 1..(n + 1)) /\ n + 1 \in 1..(n + 1)
  BY <1>1
<1> HIDE DEF n
<1>4. Len(s) = n
  BY DEF n
<1> QED BY <1>1, <1>2, <1>3, <1>4

\* Nothing moves.
LEMMA OnceSame ==
    ASSUME Once, scan'.pc = scan.pc, scan'.key = scan.key, scan'.db = scan.db, scan'.due \subseteq scan.due,
           queue'.inner = queue.inner, pump'.item = pump.item, needRestore'.items = needRestore.items,
           restoring'.out = restoring.out, ch'.entries = ch.entries, target' = target
    PROVE  Once'
<1>1. /\ InQueue' = InQueue /\ OnceQueued' /\ InPump' = InPump /\ InDump' = InDump /\ OnceDumped' /\ InOut' = InOut
      /\ InCh' = InCh /\ OnceSent' /\ Written' = Written /\ InScan' = InScan
  BY Stages DEF Once
<1>2. Apart'
  BY <1>1 DEF Once, Apart
<1>3. OnTheWay' = OnTheWay
  BY <1>1 DEF OnTheWay
<1>4. Visited'
  BY <1>3, VisitedStays DEF Once
<1> QED BY <1>1, <1>2, <1>4 DEF Once

\* What lies behind scan is left alone.
BehindScan ==
    /\ pump'.item = pump.item /\ needRestore'.items = needRestore.items /\ restoring'.out = restoring.out
    /\ ch'.entries = ch.entries /\ target' = target

\* scan stops, or goes on in the same database.
LEMMA OnceScanStays ==
    ASSUME Once, InScan' \subseteq InScan, scan'.db = scan.db, scan'.due = scan.due, queue'.inner = queue.inner, BehindScan
    PROVE  Once'
<1>1. /\ InQueue' = InQueue /\ OnceQueued' /\ InPump' = InPump /\ InDump' = InDump /\ OnceDumped' /\ InOut' = InOut
      /\ InCh' = InCh /\ OnceSent' /\ Written' = Written
  BY Stages DEF Once, BehindScan
<1>2. Apart'
  BY <1>1 DEF Once, Apart
<1>3. OnTheWay' \subseteq OnTheWay
  BY <1>1 DEF OnTheWay
<1>4. Visited'
  BY <1>3, VisitedStays DEF Once
<1> QED BY <1>1, <1>2, <1>4 DEF Once

\* scan goes to the next database, of which no key is on the way yet.
LEMMA OnceNextDb ==
    ASSUME Types, Once, ~ ListedTwice, InScan' = {}, scan.db < Len(Dbs), scan'.db = scan.db + 1,
           scan'.due = KeysOf(Dbs[scan.db + 1]) \cap Present, queue'.inner = queue.inner, BehindScan
    PROVE  Once'
<1>1. /\ InQueue' = InQueue /\ OnceQueued' /\ InPump' = InPump /\ InDump' = InDump /\ OnceDumped' /\ InOut' = InOut
      /\ InCh' = InCh /\ OnceSent' /\ Written' = Written
  BY Stages DEF Once, BehindScan
<1>2. OnTheWay' \subseteq OnTheWay
  BY <1>1 DEF OnTheWay
<1>3. Len(Dbs) \in Nat /\ DOMAIN Dbs = 1..Len(Dbs) /\ scan.db \in Nat
  <2>1. Len(Dbs) \in Nat /\ DOMAIN Dbs = 1..Len(Dbs)
    BY DbsAssumption, LenProperties
  <2> QED BY <2>1, Fields
<1>4. ASSUME NEW k \in scan'.due PROVE k \notin OnTheWay
  <2>1. k[1] = Dbs[scan.db + 1]
    BY DEF KeysOf
  <2>2. SUFFICES ASSUME k \in OnTheWay PROVE FALSE
    OBVIOUS
  <2>3. PICK j \in 1..scan.db : Dbs[j] = k[1]
    BY <2>2 DEF Once, Visited
  <2>4. j \in DOMAIN Dbs /\ scan.db + 1 \in DOMAIN Dbs /\ j # scan.db + 1
    BY <1>3
  <2> QED BY <2>1, <2>3, <2>4 DEF ListedTwice
<1>5. Apart'
  <2>1. scan'.due \cap OnTheWay' = {}
    BY <1>2, <1>4
  <2> QED BY <1>1, <2>1 DEF Once, Apart, OnTheWay
<1>6. Visited'
  <2>1. ASSUME NEW k \in OnTheWay' PROVE \E j \in 1..scan'.db : Dbs[j] = k[1]
    <3>1. PICK j \in 1..scan.db : Dbs[j] = k[1]
      BY <1>2 DEF Once, Visited
    <3>2. j \in 1..(scan.db + 1)
      BY <1>3
    <3> QED BY <3>1, <3>2
  <2> QED BY <2>1 DEF Visited
<1> QED BY <1>1, <1>5, <1>6 DEF Once

\* SCAN returns a key that was due.
LEMMA OnceCall ==
    ASSUME Types, Held, Once, NEW k \in Keys, k \in scan.due, ScanCall(k)
    PROVE  Once'
<1>1. /\ scan.pc = "call" /\ k[1] = Dbs[scan.db] /\ scan'.pc = "put" /\ scan'.key = k /\ scan'.db = scan.db
      /\ scan'.due = scan.due \ {k}
  BY CallFacts
<1>2. /\ queue' = queue /\ pump' = pump /\ needRestore' = needRestore /\ restoring' = restoring /\ ch' = ch /\ target' = target
  BY DEF ScanCall, ScanKeeps
<1>3. /\ InQueue' = InQueue /\ OnceQueued' /\ InPump' = InPump /\ InDump' = InDump /\ OnceDumped' /\ InOut' = InOut
      /\ InCh' = InCh /\ OnceSent' /\ Written' = Written
  BY <1>2, Stages DEF Once
<1>4. InScan = {} /\ InScan' = {k}
  BY <1>1 DEF InScan
<1>5. Apart'
  BY <1>1, <1>3, <1>4 DEF Once, Apart
<1>6. OnTheWay' \subseteq OnTheWay \cup {k}
  BY <1>3, <1>4 DEF OnTheWay
<1>7. scan.db \in 1..scan.db
  <2>1. scan.db \in Nat
    <3>1. Len(Dbs) \in Nat
      BY DbsAssumption, LenProperties
    <3> QED BY <3>1, Fields
  <2>2. scan.db >= 1
    BY <1>1 DEF Held
  <2> QED BY <2>1, <2>2
<1>8. Visited'
  BY <1>1, <1>6, <1>7 DEF Once, Visited
<1> QED BY <1>3, <1>5, <1>8 DEF Once

\* scan puts its key into the queue.
LEMMA OnceScanSend ==
    ASSUME Types, Held, Once, ScanSend
    PROVE  Once'
<1> DEFINE k == scan.key
<1>1. /\ scan.pc = "send" /\ k \in Keys /\ scan'.db = scan.db /\ scan'.due = scan.due /\ scan'.pc = "cursor"
      /\ queue' = queue \/ queue'.inner = Append(queue.inner, k)
  BY ScanSendFacts DEF ScanSame
<1>2. /\ pump' = pump /\ needRestore' = needRestore /\ restoring' = restoring /\ ch' = ch /\ target' = target
  BY DEF ScanSend, ScanKeeps
<1>3. InScan = {k} /\ InScan' = {}
  BY <1>1 DEF InScan
<1>4. CASE queue' = queue
  BY <1>1, <1>2, <1>3, <1>4, OnceScanStays DEF BehindScan
<1>5. CASE queue'.inner = Append(queue.inner, k)
  <2>1. /\ InPump' = InPump /\ InDump' = InDump /\ OnceDumped' /\ InOut' = InOut
        /\ InCh' = InCh /\ OnceSent' /\ Written' = Written
    BY <1>2, Stages DEF Once
  <2>2. queue.inner \in Seq(Keys)
    BY Fields
  <2>3. InQueue' = InQueue \cup {k}
    <3> HIDE DEF k
    <3>1. \A h \in Keys : (\E i \in 1..Len(Append(queue.inner, k)) : Append(queue.inner, k)[i] = h)
                              <=> h = k \/ \E i \in 1..Len(queue.inner) : queue.inner[i] = h
      BY <1>1, <2>2, Elements
    <3> QED BY <1>1, <1>5, <3>1 DEF InQueue
  <2>4. k \notin InQueue
    BY <1>3 DEF Once, Apart
  <2>5. OnceQueued'
    <3>1. \A i \in 1..Len(queue.inner) : queue.inner[i] # k
      BY <1>1, <2>4 DEF InQueue
    <3> HIDE DEF k
    <3>2. \A i, j \in 1..Len(queue.inner) : queue.inner[i] = queue.inner[j] => i = j
      BY DEF Once, OnceQueued
    <3>3. \A i, j \in 1..Len(Append(queue.inner, k)) : Append(queue.inner, k)[i] = Append(queue.inner, k)[j] => i = j
      BY <1>1, <2>2, <3>1, <3>2, OnceAppend
    <3> QED BY <1>5, <3>3 DEF OnceQueued
  <2>6. Apart'
    BY <1>1, <1>3, <2>1, <2>3 DEF Once, Apart
  <2>7. OnTheWay' \subseteq OnTheWay
    BY <1>3, <2>1, <2>3 DEF OnTheWay
  <2>8. Visited'
    BY <1>1, <2>7, VisitedStays DEF Once
  <2> QED BY <2>1, <2>5, <2>6, <2>8 DEF Once
<1> QED BY <1>1, <1>4, <1>5

\* The goroutine of the queue takes the first key.
LEMMA OncePump ==
    ASSUME Types, Once, Pump
    PROVE  Once'
<1> DEFINE k == Head(queue.inner)
<1>1. queue.inner # <<>> /\ k \in Keys /\ queue'.inner = Tail(queue.inner) /\ pump'.item = k
  BY PumpFacts
<1>2. scan' = scan /\ needRestore' = needRestore /\ restoring' = restoring /\ ch' = ch /\ target' = target
  BY DEF Pump, PumpKeeps
<1>3. /\ InScan' = InScan /\ InDump' = InDump /\ OnceDumped' /\ InOut' = InOut
      /\ InCh' = InCh /\ OnceSent' /\ Written' = Written
  BY <1>2, Stages DEF Once
<1>4. InPump' = {k}
  BY <1>1 DEF InPump
<1>5. queue.inner \in Seq(Keys)
  BY Fields
<1>6. \A i, j \in 1..Len(queue.inner) : queue.inner[i] = queue.inner[j] => i = j
  BY DEF Once, OnceQueued
<1>7. /\ \A i, j \in 1..Len(Tail(queue.inner)) : Tail(queue.inner)[i] = Tail(queue.inner)[j] => i = j
      /\ \A i \in 1..Len(Tail(queue.inner)) : /\ Tail(queue.inner)[i] # k
                                              /\ \E j \in 1..Len(queue.inner) : queue.inner[j] = Tail(queue.inner)[i]
      /\ \E j \in 1..Len(queue.inner) : queue.inner[j] = k
  BY <1>1, <1>5, <1>6, OnceTail
<1> HIDE DEF k
<1>8. InQueue' \subseteq InQueue \ {k} /\ k \in InQueue
  BY <1>1, <1>7 DEF InQueue
<1>9. OnceQueued'
  BY <1>1, <1>7 DEF OnceQueued
<1>10. Apart'
  BY <1>2, <1>3, <1>4, <1>8 DEF Once, Apart
<1>11. OnTheWay' \subseteq OnTheWay
  BY <1>3, <1>4, <1>8 DEF OnTheWay
<1>12. Visited'
  BY <1>2, <1>11, VisitedStays DEF Once
<1> QED BY <1>3, <1>9, <1>10, <1>12 DEF Once

\* dump hands its key to restore.
LEMMA OnceDump ==
    ASSUME Types, Once, Dump
    PROVE  Once'
<1> DEFINE k == pump.item
<1>1. k \in Keys /\ pump'.item = None /\ needRestore'.items = Append(needRestore.items, k)
  BY DumpFacts
<1>2. scan' = scan /\ queue' = queue /\ restoring' = restoring /\ ch' = ch /\ target' = target
  BY DEF Dump
<1>3. /\ InScan' = InScan /\ InQueue' = InQueue /\ OnceQueued' /\ InOut' = InOut
      /\ InCh' = InCh /\ OnceSent' /\ Written' = Written
  BY <1>2, Stages DEF Once
<1>4. InPump = {k}
  BY <1>1 DEF InPump
<1>5. InPump' = {}
  <2>1. \A h \in Keys : h # None
    BY KeysAssumption DEF None
  <2> QED BY <1>1, <2>1 DEF InPump
<1>6. needRestore.items \in Seq(Keys)
  BY Fields
<1> HIDE DEF k
<1>7. InDump' = InDump \cup {k}
  <2>1. \A h \in Keys : (\E i \in 1..Len(Append(needRestore.items, k)) : Append(needRestore.items, k)[i] = h)
                            <=> h = k \/ \E i \in 1..Len(needRestore.items) : needRestore.items[i] = h
    BY <1>1, <1>6, Elements
  <2> QED BY <1>1, <2>1 DEF InDump
<1>8. k \notin InDump
  BY <1>4 DEF Once, Apart
<1>9. OnceDumped'
  <2>1. \A i \in 1..Len(needRestore.items) : needRestore.items[i] # k
    BY <1>1, <1>8 DEF InDump
  <2>2. \A i, j \in 1..Len(needRestore.items) : needRestore.items[i] = needRestore.items[j] => i = j
    BY DEF Once, OnceDumped
  <2>3. \A i, j \in 1..Len(Append(needRestore.items, k)) :
            Append(needRestore.items, k)[i] = Append(needRestore.items, k)[j] => i = j
    BY <1>1, <1>6, <2>1, <2>2, OnceAppend
  <2> QED BY <1>1, <2>3 DEF OnceDumped
<1>10. Apart'
  BY <1>2, <1>3, <1>4, <1>5, <1>7 DEF Once, Apart
<1>11. OnTheWay' \subseteq OnTheWay
  BY <1>3, <1>4, <1>5, <1>7 DEF OnTheWay
<1>12. Visited'
  BY <1>2, <1>11, VisitedStays DEF Once
<1> QED BY <1>3, <1>9, <1>10, <1>12 DEF Once

\* restore takes the first key.
LEMMA OnceRestore ==
    ASSUME Types, Held, WireInv, Once, Restore
    PROVE  Once'
<1> DEFINE k == Head(needRestore.items)
<1>1. /\ needRestore.items # <<>> /\ k \in Keys /\ needRestore' = [needRestore EXCEPT !.items = Tail(@)]
      /\ restoring'.out # <<>> => restoring'.out[1].key = k
  BY RestoreEffect
<1>2. needRestore'.items = Tail(needRestore.items)
  BY <1>1, Records
<1>3. scan' = scan /\ queue' = queue /\ pump' = pump /\ ch' = ch /\ target' = target
  BY DEF Restore, RestoreKeeps
<1>4. /\ InScan' = InScan /\ InQueue' = InQueue /\ OnceQueued' /\ InPump' = InPump
      /\ InCh' = InCh /\ OnceSent' /\ Written' = Written
  BY <1>3, Stages DEF Once
<1>5. InOut' \subseteq {k}
  BY <1>1 DEF InOut
<1>6. needRestore.items \in Seq(Keys)
  BY Fields
<1>7. \A i, j \in 1..Len(needRestore.items) : needRestore.items[i] = needRestore.items[j] => i = j
  BY DEF Once, OnceDumped
<1> DEFINE its == needRestore.items
<1>8. /\ \A i, j \in 1..Len(Tail(its)) : Tail(its)[i] = Tail(its)[j] => i = j
      /\ \A i \in 1..Len(Tail(its)) : Tail(its)[i] # k /\ \E j \in 1..Len(its) : its[j] = Tail(its)[i]
      /\ \E j \in 1..Len(its) : its[j] = k
  BY <1>1, <1>6, <1>7, OnceTail
<1> HIDE DEF k
<1>9. InDump' \subseteq InDump \ {k} /\ k \in InDump
  BY <1>1, <1>2, <1>8 DEF InDump
<1>10. OnceDumped'
  BY <1>2, <1>8 DEF OnceDumped
<1>11. Apart'
  BY <1>3, <1>4, <1>5, <1>9 DEF Once, Apart
<1>12. OnTheWay' \subseteq OnTheWay
  BY <1>4, <1>5, <1>9 DEF OnTheWay
<1>13. Visited'
  BY <1>3, <1>12, VisitedStays DEF Once
<1> QED BY <1>4, <1>10, <1>11, <1>13 DEF Once

\* restore sends its entry.
LEMMA OnceSend ==
    ASSUME Types, OutInv, Once, RestoreSend
    PROVE  Once'
<1> DEFINE e == restoring.out[1]
<1> DEFINE s == ch.entries
<1>1. restoring.out # <<>> /\ e \in Entry /\ ch'.entries = Append(s, e) /\ restoring'.out = Tail(restoring.out)
  BY SendFacts
<1>2. scan' = scan /\ queue' = queue /\ pump' = pump /\ needRestore' = needRestore /\ target' = target
  BY DEF RestoreSend, RestoreKeeps
<1>3. /\ InScan' = InScan /\ InQueue' = InQueue /\ OnceQueued' /\ InPump' = InPump
      /\ InDump' = InDump /\ OnceDumped' /\ Written' = Written
  BY <1>2, Stages DEF Once
<1>4. s \in Seq(Entry) /\ restoring.out \in Seq(Entry)
  BY Fields
<1>5. InOut' = {}
  <2>1. Tail(restoring.out) # <<>> => Tail(restoring.out)[1].op = "PEXPIRE"
    BY <1>1, <1>4, OutFacts, OutTail
  <2> QED BY <1>1, <2>1 DEF InOut
<1>6. e.op \in {"WRITE", "RESTORE"} => e.key \in InOut
  <2>1. e.key \in Keys
    BY <1>1, EntryFacts
  <2> QED BY <1>1, <2>1 DEF InOut
<1>7. /\ Len(s) \in Nat /\ Len(Append(s, e)) = Len(s) + 1
      /\ \A i \in 1..Len(s) : Append(s, e)[i] = s[i]
      /\ Append(s, e)[Len(s) + 1] = e
  BY <1>1, <1>4, Longer
<1>8. \A i \in 1..Len(Append(s, e)) : i \in 1..Len(s) \/ i = Len(s) + 1
  <2> HIDE DEF s, e
  <2> QED BY <1>7
<1> HIDE DEF e, s
<1>9. InCh' \subseteq InCh \cup InOut
  <2>1. ASSUME NEW k \in InCh' PROVE k \in InCh \cup InOut
    <3>1. PICK i \in 1..Len(Append(s, e)) : Append(s, e)[i].key = k /\ Append(s, e)[i].op \in {"WRITE", "RESTORE"}
      BY <1>1 DEF InCh
    <3>2. CASE i \in 1..Len(s)
      BY <1>7, <3>1, <3>2 DEF InCh, s
    <3>3. CASE i = Len(s) + 1
      BY <1>6, <1>7, <3>1, <3>3
    <3> QED BY <1>8, <3>2, <3>3
  <2> QED BY <2>1
<1>10. OnceSent'
  <2>1. ASSUME NEW i \in 1..Len(s), s[i].op \in {"WRITE", "RESTORE"}, e.op \in {"WRITE", "RESTORE"}
        PROVE  s[i].key # e.key
    <3>1. s[i] \in Entry
      BY <1>4, ElementOfSeq
    <3>2. s[i].key \in InCh
      BY <2>1, <3>1, EntryFacts DEF InCh, s
    <3> QED BY <2>1, <3>2, <1>6 DEF Once, Apart
  <2>2. \A i, j \in 1..Len(s) : /\ s[i].op \in {"WRITE", "RESTORE"} /\ s[j].op \in {"WRITE", "RESTORE"}
                                /\ s[i].key = s[j].key
                                => i = j
    BY DEF Once, OnceSent, s
  <2>3. ASSUME NEW i \in 1..Len(Append(s, e)), NEW j \in 1..Len(Append(s, e)),
               Append(s, e)[i].op \in {"WRITE", "RESTORE"}, Append(s, e)[j].op \in {"WRITE", "RESTORE"},
               Append(s, e)[i].key = Append(s, e)[j].key
        PROVE  i = j
    <3>1. CASE i \in 1..Len(s) /\ j \in 1..Len(s)
      <4>1. Append(s, e)[i] = s[i] /\ Append(s, e)[j] = s[j]
        BY <1>7, <3>1
      <4> QED BY <2>2, <2>3, <3>1, <4>1
    <3>2. CASE i \in 1..Len(s) /\ j = Len(s) + 1
      <4>1. Append(s, e)[i] = s[i] /\ Append(s, e)[j] = e
        BY <1>7, <3>2
      <4> QED BY <2>1, <2>3, <3>2, <4>1
    <3>3. CASE i = Len(s) + 1 /\ j \in 1..Len(s)
      <4>1. Append(s, e)[i] = e /\ Append(s, e)[j] = s[j]
        BY <1>7, <3>3
      <4> QED BY <2>1, <2>3, <3>3, <4>1
    <3> QED BY <1>8, <3>1, <3>2, <3>3
  <2> QED BY <1>1, <2>3 DEF OnceSent
<1>11. Apart'
  BY <1>2, <1>3, <1>5, <1>9 DEF Once, Apart
<1>12. OnTheWay' \subseteq OnTheWay
  BY <1>3, <1>5, <1>9 DEF OnTheWay
<1>13. Visited'
  BY <1>2, <1>12, VisitedStays DEF Once
<1> QED BY <1>3, <1>10, <1>11, <1>13 DEF Once

\* The writer applies an entry.
LEMMA OnceApply ==
    ASSUME Types, Once, Apply
    PROVE  Once'
<1> DEFINE s == ch.entries
<1> DEFINE e == ch.entries[1]
<1>1. /\ s # <<>> /\ e \in Entry /\ ch'.entries = Tail(s)
      /\ \A k \in Keys : target'[k] # 0 => target[k] # 0 \/ (e.key = k /\ e.op \in {"WRITE", "RESTORE"})
  BY ApplyFacts
<1>2. scan' = scan /\ queue' = queue /\ pump' = pump /\ needRestore' = needRestore /\ restoring' = restoring
  BY DEF Apply
<1>3. /\ InScan' = InScan /\ InQueue' = InQueue /\ OnceQueued' /\ InPump' = InPump
      /\ InDump' = InDump /\ OnceDumped' /\ InOut' = InOut
  BY <1>2, Stages DEF Once
<1>4. s \in Seq(Entry)
  BY Fields
<1>5. /\ Len(s) \in Nat \ {0} /\ Len(Tail(s)) = Len(s) - 1
      /\ \A i \in 1..(Len(s) - 1) : Tail(s)[i] = s[1 + i]
  BY <1>1, <1>4, Shortened
<1>6. e = s[1]
  OBVIOUS
<1> HIDE DEF s, e
<1>7. ASSUME NEW i \in 1..Len(Tail(s)) PROVE 1 + i \in 1..Len(s) /\ Tail(s)[i] = s[1 + i] /\ 1 + i # 1 /\ i \in Nat
  BY <1>5
<1>8. 1 \in 1..Len(s)
  BY <1>5
<1>9. \A i, j \in 1..Len(s) : /\ s[i].op \in {"WRITE", "RESTORE"} /\ s[j].op \in {"WRITE", "RESTORE"}
                              /\ s[i].key = s[j].key
                              => i = j
  BY DEF Once, OnceSent, s
<1>10. InCh' \subseteq InCh
  <2>1. ASSUME NEW k \in InCh' PROVE k \in InCh
    <3>1. PICK i \in 1..Len(Tail(s)) : Tail(s)[i].key = k /\ Tail(s)[i].op \in {"WRITE", "RESTORE"}
      BY <1>1 DEF InCh
    <3>2. k \in Keys
      BY DEF InCh
    <3> QED BY <1>7, <3>1, <3>2 DEF InCh, s
  <2> QED BY <2>1
<1>11. e.op \in {"WRITE", "RESTORE"} => e.key \in InCh /\ e.key \notin InCh'
  <2>1. SUFFICES ASSUME e.op \in {"WRITE", "RESTORE"} PROVE e.key \in InCh /\ e.key \notin InCh'
    OBVIOUS
  <2>2. e.key \in Keys
    BY <1>1, EntryFacts
  <2>3. e.key \in InCh
    BY <1>6, <1>8, <2>1, <2>2 DEF InCh, s
  <2>4. ASSUME NEW i \in 1..Len(Tail(s)), Tail(s)[i].key = e.key, Tail(s)[i].op \in {"WRITE", "RESTORE"} PROVE FALSE
    BY <1>6, <1>7, <1>8, <1>9, <2>1, <2>4
  <2>5. e.key \notin InCh'
    BY <1>1, <2>4 DEF InCh
  <2> QED BY <2>3, <2>5
<1>12. Written' \subseteq Written \cup (InCh \ InCh')
  BY <1>1, <1>11 DEF Written
<1>13. OnceSent'
  <2>1. ASSUME NEW i \in 1..Len(Tail(s)), NEW j \in 1..Len(Tail(s)),
               Tail(s)[i].op \in {"WRITE", "RESTORE"}, Tail(s)[j].op \in {"WRITE", "RESTORE"},
               Tail(s)[i].key = Tail(s)[j].key
        PROVE  i = j
    <3>1. 1 + i = 1 + j
      BY <1>7, <1>9, <2>1
    <3> QED BY <3>1, <1>7
  <2> QED BY <1>1, <2>1 DEF OnceSent
<1>14. Apart'
  BY <1>2, <1>3, <1>10, <1>12 DEF Once, Apart
<1>15. OnTheWay' \subseteq OnTheWay
  BY <1>3, <1>10, <1>12 DEF OnTheWay
<1>16. Visited'
  BY <1>2, <1>15, VisitedStays DEF Once
<1> QED BY <1>3, <1>13, <1>14, <1>16 DEF Once

\* Neither notifications nor repetitions go away again.
LEMMA PlainBack == ASSUME Types, Held, [Next]_vars, Plain' PROVE Plain /\ scan'.repeats = scan.repeats
<1>1. opts' = opts /\ scan.repeats \in Nat /\ scan'.repeats = 0
  BY OptsStep, Fields DEF Plain
<1>2. scan'.repeats \in {scan.repeats, scan.repeats + 1}
  <2>1. CASE SubAct
    BY <2>1 DEF SubAct, Subscribe, SubStop, SubWait, SubDel, SubPut, SubSend, SubKeeps
  <2>2. ASSUME NEW k \in Keys, SourceStep(k) PROVE scan'.repeats = scan.repeats
    BY <2>2, SourceLeaves
  <2>3. CASE ScanStart \/ ScanEmpty
    BY <2>3, NextDbFacts DEF ScanStart, ScanEmpty
  <2>4. CASE ScanStop
    BY <2>4, ScanStopFacts DEF ScanSame
  <2>5. ASSUME NEW k \in Keys, ScanCall(k) PROVE scan'.repeats \in {scan.repeats, scan.repeats + 1}
    BY <2>5, CallFacts
  <2>6. CASE ScanPut
    BY <2>6, PutFacts DEF ScanSame
  <2>7. CASE ScanSend
    BY <2>7, ScanSendFacts DEF ScanSame
  <2>8. CASE ScanCursor
    BY <2>8, NextDbFacts, CursorFacts DEF ScanCursor, ScanSame
  <2> QED BY <2>1, <2>2, <2>3, <2>4, <2>5, <2>6, <2>7, <2>8, StepCases DEF ScanAct
<1>3. scan'.repeats = scan.repeats
  BY <1>1, <1>2
<1> QED BY <1>1, <1>3 DEF Plain

\* Every step keeps a key in one place.
LEMMA OnceStep ==
    ASSUME Types, Held, Closes, WireInv, OutInv, OnceInv, [Next]_vars
    PROVE  OnceInv'
<1> SUFFICES ASSUME Plain' PROVE Once'
  BY DEF OnceInv
<1>1. Plain /\ scan'.repeats = scan.repeats
  BY PlainBack
<1>2. Once /\ ~ opts.ksn /\ ~ ListedTwice /\ scan.repeats = 0
  BY <1>1 DEF OnceInv, Plain
<1>3. ~ SubAct
  BY <1>2, SubFacts DEF SubAct, Closes
<1>4. ASSUME ScanNextDb, InScan = {}, BehindScan PROVE Once'
  <2>1. queue'.inner = queue.inner
    BY <1>4, NextDbFacts
  <2>2. CASE scan'.pc = "finished" /\ scan'.db = scan.db /\ scan'.due = scan.due
    <3>1. InScan' \subseteq InScan
      BY <2>2 DEF InScan
    <3> QED BY <1>2, <1>4, <2>1, <2>2, <3>1, OnceScanStays
  <2>3. CASE /\ scan'.pc = "call" /\ scan.db < Len(Dbs) /\ scan'.db = scan.db + 1
             /\ scan'.due = KeysOf(Dbs[scan.db + 1]) \cap Present
    <3>1. InScan' = {}
      BY <2>3 DEF InScan
    <3> QED BY <1>2, <1>4, <2>1, <2>3, <3>1, OnceNextDb
  <2> QED BY <1>4, <2>2, <2>3, NextDbFacts
<1>5. CASE ScanAct
  <2>1. BehindScan
    BY <1>5 DEF BehindScan, ScanAct, ScanStart, ScanStop, ScanEmpty, ScanCall, ScanPut, ScanSend, ScanCursor, ScanKeeps
  <2>2. CASE ScanStart \/ ScanEmpty
    <3>1. ScanNextDb /\ InScan = {}
      BY <2>2 DEF ScanStart, ScanEmpty, InScan
    <3> QED BY <1>4, <2>1, <3>1
  <2>3. CASE ScanStop
    <3>1. scan'.db = scan.db /\ scan'.due = scan.due /\ scan'.pc = "stopped" /\ queue'.inner = queue.inner
      BY <2>3, ScanStopFacts DEF ScanSame
    <3>2. InScan' \subseteq InScan
      BY <3>1 DEF InScan
    <3> QED BY <1>2, <2>1, <3>1, <3>2, OnceScanStays
  <2>4. ASSUME NEW k \in Keys, ScanCall(k) PROVE Once'
    <3>1. k \in scan.due
      <4>1. scan.repeats + 1 # scan.repeats
        BY <1>2
      <4> QED BY <2>4, <1>1, <4>1, CallFacts
    <3> QED BY <1>2, <2>4, <3>1, OnceCall
  <2>5. CASE ScanPut
    <3>1. /\ scan.pc = "put" /\ scan'.pc \in {"cursor", "send"} /\ scan'.key = scan.key
          /\ scan'.db = scan.db /\ scan'.due = scan.due /\ queue'.inner = queue.inner
      BY <2>5, PutFacts DEF ScanSame
    <3>2. InScan' \subseteq InScan
      BY <3>1 DEF InScan
    <3> QED BY <1>2, <2>1, <3>1, <3>2, OnceScanStays
  <2>6. CASE ScanSend
    BY <1>2, <2>6, OnceScanSend
  <2>7. CASE ScanCursor
    <3>1. InScan = {}
      BY <2>7 DEF ScanCursor, InScan
    <3>2. CASE ScanNextDb
      BY <1>4, <2>1, <3>1, <3>2
    <3>3. CASE scan' = [scan EXCEPT !.pc = "call"] /\ queue' = queue
      <4>1. scan'.pc = "call" /\ scan'.db = scan.db /\ scan'.due = scan.due
        BY <3>3, CursorFacts DEF ScanSame
      <4>2. InScan' \subseteq InScan
        BY <4>1 DEF InScan
      <4> QED BY <1>2, <2>1, <3>3, <4>1, <4>2, OnceScanStays
    <3> QED BY <2>7, <3>2, <3>3 DEF ScanCursor
  <2> QED BY <1>5, <2>2, <2>3, <2>4, <2>5, <2>6, <2>7 DEF ScanAct
<1>6. CASE Pump
  BY <1>2, <1>6, OncePump
<1>7. CASE Dump
  BY <1>2, <1>7, OnceDump
<1>8. CASE Restore
  BY <1>2, <1>8, OnceRestore
<1>9. CASE RestoreSend
  BY <1>2, <1>9, OnceSend
<1>10. CASE Apply
  BY <1>2, <1>10, OnceApply
<1>11. ASSUME NEW k \in Keys, SourceStep(k) PROVE Once'
  <2>1. /\ queue' = queue /\ pump' = pump /\ needRestore' = needRestore /\ restoring' = restoring
        /\ ch' = ch /\ target' = target
        /\ scan'.pc = scan.pc /\ scan'.db = scan.db /\ scan'.key = scan.key /\ scan'.due \subseteq scan.due
    BY <1>11, SourceLeaves
  <2> QED BY <1>2, <2>1, OnceSame
<1>12. CASE PumpEnd
  <2>1. /\ queue' = queue /\ needRestore' = needRestore /\ restoring' = restoring /\ ch' = ch /\ target' = target /\ scan' = scan
    BY <1>12 DEF PumpEnd, PumpKeeps
  <2>2. pump'.item = pump.item
    BY <1>12, Records DEF PumpEnd
  <2> QED BY <1>2, <2>1, <2>2, OnceSame
<1>13. CASE DumpEnd
  <2>1. /\ queue' = queue /\ pump' = pump /\ restoring' = restoring /\ ch' = ch /\ target' = target /\ scan' = scan
    BY <1>13 DEF DumpEnd
  <2>2. needRestore'.items = needRestore.items
    BY <1>13, Records DEF DumpEnd
  <2> QED BY <1>2, <2>1, <2>2, OnceSame
<1>14. CASE RestoreEnd
  <2>1. /\ queue' = queue /\ pump' = pump /\ restoring' = restoring /\ needRestore' = needRestore /\ target' = target /\ scan' = scan
    BY <1>14 DEF RestoreEnd, RestoreKeeps
  <2>2. ch'.entries = ch.entries
    BY <1>14, Records DEF RestoreEnd
  <2> QED BY <1>2, <2>1, <2>2, OnceSame
<1>15. CASE Serve \/ Cancel \/ Done \/ UNCHANGED vars
  <2>1. /\ queue' = queue /\ pump' = pump /\ restoring' = restoring /\ needRestore' = needRestore /\ target' = target /\ scan' = scan
        /\ ch' = ch
    BY <1>15 DEF Serve, Cancel, Done, vars
  <2> QED BY <1>2, <2>1, OnceSame
<1> QED BY <1>3, <1>5, <1>6, <1>7, <1>8, <1>9, <1>10, <1>11, <1>12, <1>13, <1>14, <1>15
        DEF Next, System, SubAct, ScanAct, SourceStep

\* Every step that ends the process does so for one of the reasons.
LEMMA PanicStep ==
    ASSUME Types, Held, Closes, WireInv, SentInv, OnceInv, PanicsAreExplained, [Next]_vars
    PROVE  PanicsAreExplained'
<1>1. opts' = opts
  BY OptsStep
<1>2. CASE panicked # "no"
  <2>1. scan' = scan /\ cancelled' = cancelled /\ panicked' = panicked
    BY <1>2, EndedStays DEF vars
  <2> QED BY <1>1, <2>1 DEF PanicsAreExplained
<1>3. ASSUME panicked = "no" PROVE PanicsAreExplained'
  <2>1. CASE panicked' = "no"
    BY <2>1 DEF PanicsAreExplained
  <2>2. ASSUME panicked' = "queue", opts.ksn, cancelled', scan'.pc # "finished" PROVE PanicsAreExplained'
    BY <1>1, <2>2 DEF PanicsAreExplained
  <2>3. CASE SubAct
    <3>1. cancelled' = cancelled /\ scan' = scan
      BY <2>3 DEF SubAct, Subscribe, SubStop, SubWait, SubDel, SubPut, SubSend, SubKeeps
    <3>2. sub.pc # "off" /\ sub.pc # "stopped"
      BY <2>3, SubFacts DEF SubAct
    <3>3. opts.ksn /\ (queue.closed => cancelled /\ scan.pc = "stopped") /\ (ch.closed => queue.closed)
      BY <3>2 DEF Closes
    <3>4. CASE Subscribe \/ SubWait \/ SubPut
      BY <1>3, <2>1, <3>4 DEF Subscribe, SubWait, SubPut
    <3>5. CASE SubStop
      <4>1. panicked' = panicked \/ (queue.closed /\ panicked' = "queue")
        BY <3>5, CloseQueueFacts DEF SubStop
      <4> QED BY <1>3, <2>1, <2>2, <3>1, <3>3, <4>1
    <3>6. CASE SubSend
      <4>1. sub.key \in Keys
        BY <3>6 DEF SubSend, Held
      <4>2. panicked' = panicked \/ (queue.closed /\ panicked' = "queue")
        BY <3>6, <4>1, SendInnerFacts DEF SubSend
      <4> QED BY <1>3, <2>1, <2>2, <3>1, <3>3, <4>2
    <3>7. CASE SubDel
      <4>1. panicked' = panicked \/ (ch.closed /\ panicked' = "channel")
        BY <3>7, DelFacts
      <4>2. CASE ch.closed /\ panicked' = "channel"
        BY <1>1, <3>1, <3>3, <4>2 DEF PanicsAreExplained
      <4> QED BY <1>3, <2>1, <4>1, <4>2
    <3> QED BY <2>3, <3>4, <3>5, <3>6, <3>7 DEF SubAct
  <2>4. CASE ScanAct
    <3>1. cancelled' = cancelled
      BY <2>4 DEF ScanAct, ScanStart, ScanStop, ScanEmpty, ScanCall, ScanPut, ScanSend, ScanCursor, ScanKeeps
    <3>2. scan.pc \notin {"finished", "stopped"}
      BY <2>4, ScanFacts
    <3>3. queue.closed => opts.ksn /\ cancelled
      BY <3>2 DEF Closes
    <3>4. ASSUME ScanNextDb PROVE panicked' = "no"
      <4>1. panicked' = panicked \/ (~ opts.ksn /\ queue.closed)
        BY <3>4, NextDbFacts
      <4> QED BY <1>3, <3>3, <4>1
    <3>5. CASE ScanStart \/ ScanEmpty
      BY <2>1, <3>4, <3>5 DEF ScanStart, ScanEmpty
    <3>6. CASE ScanStop
      <4>1. scan'.pc = "stopped" /\ (panicked' = panicked \/ (queue.closed /\ panicked' = "queue"))
        BY <3>6, ScanStopFacts
      <4> QED BY <1>3, <2>1, <2>2, <3>1, <3>3, <4>1
    <3>7. CASE \E k \in Keys : ScanCall(k)
      BY <1>3, <2>1, <3>7 DEF ScanCall
    <3>8. CASE ScanPut
      BY <1>3, <2>1, <3>8 DEF ScanPut
    <3>9. CASE ScanSend
      <4>1. scan'.pc = "cursor" /\ (panicked' = panicked \/ (queue.closed /\ panicked' = "queue"))
        BY <3>9, ScanSendFacts
      <4> QED BY <1>3, <2>1, <2>2, <3>1, <3>3, <4>1
    <3>10. CASE ScanCursor
      BY <1>3, <2>1, <3>4, <3>10 DEF ScanCursor
    <3> QED BY <2>4, <3>5, <3>6, <3>7, <3>8, <3>9, <3>10 DEF ScanAct
  <2>5. CASE Apply
    <3> DEFINE e == ch.entries[1]
    <3>1. /\ ch.entries # <<>> /\ e \in Entry
          /\ \/ panicked' = "busy" /\ e.op = "RESTORE" /\ target[e.key] # 0 /\ ~ e.replace
             \/ panicked' = "no"
      BY <2>5, ApplyFacts
    <3>2. scan' = scan
      BY <2>5 DEF Apply
    <3>3. ASSUME panicked' = "busy", e.op = "RESTORE", target[e.key] # 0, ~ e.replace PROVE PanicsAreExplained'
      <4>1. 1 \in 1..Len(ch.entries)
        <5>1. Len(ch.entries) \in Nat \ {0}
          BY <3>1, Fields, Shortened
        <5> QED BY <5>1
      <4>2. ~ opts.rewrite
        BY <3>3, <4>1 DEF SentInv
      <4>3. e.key \in InCh /\ e.key \in Written
        <5>1. e.key \in Keys
          BY <3>1, EntryFacts
        <5> QED BY <3>3, <4>1, <5>1 DEF InCh, Written
      <4>4. ~ Plain
        BY <4>3 DEF OnceInv, Once, Apart
      <4>5. opts.ksn \/ scan.repeats > 0 \/ ListedTwice
        <5>1. scan.repeats \in Nat
          BY Fields
        <5>2. scan.repeats # 0 => scan.repeats > 0
          BY <5>1
        <5> QED BY <4>4, <5>2 DEF Plain
      <4> QED BY <1>1, <3>2, <3>3, <4>2, <4>5 DEF PanicsAreExplained
    <3> QED BY <2>1, <3>1, <3>3
  <2>6. CASE Restore
    BY <1>3, <2>1, <2>6, RestoreEffect
  <2>7. CASE Pump \/ PumpEnd \/ Dump \/ DumpEnd \/ Serve \/ RestoreSend \/ RestoreEnd \/ Cancel \/ Done \/ UNCHANGED vars
    <3>1. panicked' = panicked
      BY <2>7 DEF Pump, PumpEnd, PumpKeeps, Dump, DumpEnd, Serve, RestoreSend, RestoreEnd, Cancel, Done, vars
    <3> QED BY <1>3, <2>1, <3>1
  <2>8. CASE \E k \in Keys : SourceStep(k)
    BY <1>3, <2>1, <2>8, SourceLeaves
  <2> QED BY <2>3, <2>4, <2>5, <2>6, <2>7, <2>8 DEF Next, System, SubAct, ScanAct, SourceStep
<1> QED BY <1>2, <1>3

-----------------------------------------------------------------------------
\* The connection is empty at first.
LEMMA InitWire ==
    ASSUME Init
    PROVE  WireInv
<1>1. /\ wire = [requests |-> <<>>, db |-> 0, replies |-> <<>>] /\ needRestore.items = <<>> /\ restoring.db = 0 /\ dumpDb = 0
  BY DEF Init
<1>2. wire \in [requests : Seq(Request), db : Int, replies : Seq(Reply)] /\ wire.requests = <<>> /\ wire.replies = <<>> /\ wire.db = 0
  BY <1>1, EmptySeq
<1>3. Len(<<>>) = 0
  OBVIOUS
<1>4. Known(<<>>, changes)
  BY <1>3 DEF Known
<1> DEFINE at == [i \in 0..0 |-> 0]
<1>5. Places(at, <<>>, 0, opts.skip, 0)
  <2>1. at \in [0..0 -> Nat] /\ at[0] = 0
    OBVIOUS
  <2>2. \A i \in 1..0 : FALSE
    OBVIOUS
  <2>3. \A i, j \in 0..0 : ~ i < j
    OBVIOUS
  <2> HIDE DEF at
  <2> QED BY <1>3, <2>1, <2>2, <2>3 DEF Places
<1>6. Serving(at, 1, <<>>, 0, 0, <<>>, 0)
  BY <1>3 DEF Serving
<1>7. Blocks(at, <<>>, 0, <<>>, <<>>, source, opts.skip)
  <2>1. \A i \in 1..0 : FALSE
    OBVIOUS
  <2> HIDE DEF at
  <2> QED BY <1>3, <2>1 DEF Blocks
<1> HIDE DEF at
<1>8. Wired(at, 1, <<>>, 0, 0, <<>>, <<>>, 0, source, opts.skip)
  BY <1>3, <1>5, <1>6, <1>7 DEF Wired
<1>9. \E a, c : Wired(a, c, needRestore.items, restoring.db, dumpDb, wire.requests, wire.replies, wire.db, source, opts.skip)
  BY <1>1, <1>2, <1>8
<1> QED BY <1>2, <1>4, <1>9 DEF WireInv

\* No key is on the way at first.
LEMMA InitOnce ==
    ASSUME Init
    PROVE  Once
<1>1. /\ InScan = {} /\ InPump = {} /\ InOut = {} /\ Written = {}
  <2>1. \A k \in Keys : k # None
    BY KeysAssumption DEF None
  <2> QED BY <2>1 DEF Init, InScan, InPump, InOut, Written
<1>2. queue.inner = <<>> /\ needRestore.items = <<>> /\ ch.entries = <<>>
  BY DEF Init
<1>3. \A i \in 1..Len(<<>>) : FALSE
  OBVIOUS
<1>4. InQueue = {} /\ InDump = {} /\ InCh = {}
  BY <1>2, <1>3 DEF InQueue, InDump, InCh
<1>5. OnceQueued /\ OnceDumped /\ OnceSent
  BY <1>2, <1>3 DEF OnceQueued, OnceDumped, OnceSent
<1>6. OnTheWay = {}
  BY <1>1, <1>4 DEF OnTheWay
<1>7. Apart
  BY <1>1, <1>4 DEF Apart
<1>8. Visited
  BY <1>6 DEF Visited
<1> QED BY <1>5, <1>7, <1>8 DEF Once

\* The invariant holds at first.
LEMMA InitInv == ASSUME Init PROVE Inv
<1>1. Types
  <2>1. /\ opts \in Options /\ source \in [Keys -> Nat] /\ changes \in Nat /\ dumpDb \in Int /\ target \in [Keys -> Nat]
    BY DEF Init
  <2>2. events \in Seq(Event)
    BY EmptySeq DEF Init
  <2>3. scan \in ScanType
    <3>1. Len(Dbs) \in Nat
      BY DbsAssumption, LenProperties
    <3>2. 0 \in 0..Len(Dbs)
      BY <3>1
    <3> QED BY <3>2 DEF Init, ScanType
  <2>4. sub \in SubType
    BY DEF Init, SubType
  <2>5. queue \in QueueType
    BY EmptySeq DEF Init, QueueType
  <2>6. pump \in [item : Keys \cup {None}, ended : BOOLEAN]
    BY DEF Init
  <2>7. needRestore \in [items : Seq(Keys), closed : BOOLEAN]
    BY EmptySeq DEF Init
  <2>8. restoring \in [db : Int, out : Seq(Entry)]
    BY EmptySeq DEF Init
  <2>9. ch \in [entries : Seq(Entry), closed : BOOLEAN]
    BY EmptySeq DEF Init
  <2> QED BY <2>1, <2>2, <2>3, <2>4, <2>5, <2>6, <2>7, <2>8, <2>9 DEF Types
<1>2. Held
  BY DEF Init, Held
<1>3. Closes
  BY DEF Init, Closes
<1>4. OutInv
  <2>1. restoring.out = <<>>
    BY DEF Init
  <2> QED BY <2>1 DEF OutInv, OutFits
<1>5. SentInv
  <2>1. ch.entries = <<>> /\ \A i \in 1..Len(<<>>) : FALSE
    BY DEF Init
  <2> QED BY <2>1 DEF SentInv
<1>6. PanicsAreExplained
  BY DEF Init, PanicsAreExplained
<1> QED BY <1>1, <1>2, <1>3, <1>4, <1>5, <1>6, InitWire, InitOnce DEF Inv, OnceInv

\* Every step keeps the invariant.
LEMMA NextInv == ASSUME Inv, [Next]_vars PROVE Inv'
<1>1. Types /\ Held /\ Closes /\ WireInv /\ OutInv /\ SentInv /\ OnceInv /\ PanicsAreExplained
  BY DEF Inv
<1>2. Types' /\ Held' /\ Closes' /\ WireInv'
  BY <1>1, TypesStep, HeldStep, ClosesStep, WireStep
<1>3. OutInv' /\ SentInv' /\ OnceInv' /\ PanicsAreExplained'
  BY <1>1, OutStep, SentStep, OnceStep, PanicStep
<1> QED BY <1>2, <1>3 DEF Inv

\* What restore sends carries the value of its own key.
LEMMA InvOwnDump == ASSUME Inv PROVE RestoredIsOwnDump
<1> DEFINE o == restoring.out
<1>1. SUFFICES ASSUME o # <<>>, Head(o).op # "PEXPIRE"
               PROVE  /\ Head(o).of = Head(o).key /\ (Head(o).key \in opts.skip => source[Head(o).key] # Head(o).version)
                      /\ Head(o).key \in Volatile <=> IF Head(o).op = "WRITE" THEN Len(o) = 2 ELSE Head(o).ttl # 0
  BY DEF RestoredIsOwnDump
<1>2. Types /\ OutInv
  BY DEF Inv
<1>3. o \in Seq(Entry)
  BY <1>2, Fields
<1>4. Head(o) = o[1]
  BY <1>1, <1>3, Shortened
<1>5. OutFits(o, source, changes, opts.skip, opts.rewrite)
  BY <1>2, OutFacts
<1> HIDE DEF o
<1>6. Shape(o, opts.rewrite) /\ Value(o[1], source, changes, opts.skip)
  BY <1>1, <1>4, <1>5 DEF OutFits
<1>7. o[1].of = o[1].key /\ (o[1].key \in opts.skip => source[o[1].key] # o[1].version)
  BY <1>6 DEF Value
<1>8. o[1].key \in Volatile <=> IF o[1].op = "WRITE" THEN Len(o) = 2 ELSE o[1].ttl # 0
  BY <1>6 DEF Shape
<1> QED BY <1>4, <1>7, <1>8

(***************************************************************************)
(* The invariant holds for any keys, databases, options and channel sizes. *)
(***************************************************************************)
\* The stages between SCAN and the target stay in line with one another: each key's replies lie where restore counts
\* them (scan_standalone_reader.go:247-257), and without notifications or repetitions a key is in one stage only.
THEOREM ScanStagesInLine == Spec => []Inv
<1>1. Init => Inv
  BY InitInv
<1>2. Inv /\ [Next]_vars => Inv'
  BY NextInv
<1> QED BY <1>1, <1>2, PTL DEF Spec

\* What restore sends is the value of its own key, with a time to live exactly if the key has one, and no skipped type
\* unless the key changed after its DUMP (scan_standalone_reader.go:240-300).
THEOREM RestoresOwnValues == Spec => []RestoredIsOwnDump
BY ScanStagesInLine, InvOwnDump, PTL

\* The process panics only for the reasons the property lists: restore never meets a reply of another kind, only a
\* cancelled task that listens to notifications closes the queue twice or meets a closed channel, and without
\* notifications, repeated keys and repeated databases no RESTORE is refused (scan_standalone_reader.go:126 and 180).
THEOREM PanicsExplained == Spec => []PanicsAreExplained
<1>1. Inv => PanicsAreExplained
  BY DEF Inv
<1> QED BY <1>1, ScanStagesInLine, PTL
=============================================================================
