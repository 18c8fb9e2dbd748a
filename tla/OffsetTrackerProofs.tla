------------------------ MODULE OffsetTrackerProofs ------------------------
(***************************************************************************)
(* Proofs about OffsetTracker, for any finite set of source nodes, any set *)
(* of integer offsets and any window size.                                 *)
(***************************************************************************)
EXTENDS OffsetTracker, FiniteSetTheorems, TLAPS

\* Dropping the first k elements of a run of consecutive numbers.
LEMMA DropRun ==
    ASSUME NEW s \in Seq(Nat), NEW p \in Nat, NEW k \in 0..Len(s),
           \A j \in 1..Len(s) : s[j] = p + j
    PROVE  /\ SubSeq(s, k + 1, Len(s)) \in Seq(Nat)
           /\ Len(SubSeq(s, k + 1, Len(s))) = Len(s) - k
           /\ \A j \in 1..(Len(s) - k) : SubSeq(s, k + 1, Len(s))[j] = p + k + j
<1>1. /\ SubSeq(s, k + 1, Len(s)) \in Seq(Nat)
      /\ Len(SubSeq(s, k + 1, Len(s))) = Len(s) - k
      /\ \A j \in 1..(Len(s) - k) : SubSeq(s, k + 1, Len(s))[j] = s[k + j]
  OBVIOUS
<1>2. \A j \in 1..(Len(s) - k) : s[k + j] = p + k + j
  OBVIOUS
<1> QED BY <1>1, <1>2

\* The run extends a set of numbers from 1 on.
LEMMA ExtendPrefix ==
    ASSUME NEW s \in Seq(Nat), NEW p \in Nat, NEW k \in 0..Len(s), NEW F,
           \A j \in 1..Len(s) : s[j] = p + j,
           1..p \subseteq F, \A j \in 1..k : s[j] \in F
    PROVE  1..(p + k) \subseteq F
<1> SUFFICES ASSUME NEW j \in 1..(p + k) PROVE j \in F
  OBVIOUS
<1>1. CASE j <= p
  BY <1>1
<1>2. CASE p < j
  <2>1. j - p \in 1..k /\ j - p \in 1..Len(s)
    BY <1>2
  <2>2. s[j - p] = j
    BY <2>1
  <2> QED BY <2>1, <2>2
<1> QED BY <1>1, <1>2

\* An interval of k numbers has k members.
LEMMA RunCardinality ==
    ASSUME NEW a \in Nat, NEW k \in Nat
    PROVE  IsFiniteSet((a + 1)..(a + k)) /\ Cardinality((a + 1)..(a + k)) = k
<1>1. \A u, v \in Int : IsFiniteSet(u..v) /\ (u <= v + 1 => Cardinality(u..v) = v - u + 1)
  <2>1. ASSUME NEW u \in Int, NEW v \in Int
        PROVE  IsFiniteSet(u..v) /\ Cardinality(u..v) = IF u > v THEN 0 ELSE v - u + 1
    BY FS_Interval
  <2> QED BY <2>1
<1>2. PICK u \in Int : u = a + 1
  OBVIOUS
<1>3. PICK v \in Int : v = a + k
  OBVIOUS
<1>4. u <= v + 1 /\ v - u + 1 = k
  BY <1>2, <1>3
<1>5. IsFiniteSet(u..v) /\ Cardinality(u..v) = k
  <2>1. IsFiniteSet(u..v) /\ Cardinality(u..v) = v - u + 1
    BY <1>1, <1>4
  <2> QED BY <1>4, <2>1
<1> QED BY <1>2, <1>3, <1>5, Zenon

\* The arithmetic of a queue of length l behind p passed records, of which k leave.
LEMMA LengthArithmetic ==
    /\ \A p, k, l \in Nat : \A a, b : a = p + l /\ b = l - k => a - b = p + k
    /\ \A a, b \in Nat : a - b <= a
OBVIOUS

\* Queueing one more record keeps a pair (queue, tracked) in step.
LEMMA AppendRun ==
    ASSUME NEW q \in Seq(Nat), NEW t \in Seq(Offsets), NEW off \in Offsets,
           Len(q) <= Len(t), \A i \in 1..Len(q) : q[i] = (Len(t) - Len(q)) + i,
           \A i, j \in 1..Len(t) : i < j => t[i] < t[j],
           \A i \in 1..Len(t) : t[i] < off
    PROVE  LET q2 == Append(q, Len(t) + 1)
               t2 == Append(t, off)
           IN  /\ q2 \in Seq(Nat) /\ t2 \in Seq(Offsets)
               /\ Len(t2) - Len(q2) = Len(t) - Len(q)
               /\ Len(q2) <= Len(t2) /\ Len(t2) = Len(t) + 1
               /\ \A i \in 1..Len(q2) : q2[i] = (Len(t2) - Len(q2)) + i
               /\ \A i \in 1..Len(t) : t2[i] = t[i]
               /\ \A i, j \in 1..Len(t2) : i < j => t2[i] < t2[j]
<1> DEFINE q2 == Append(q, Len(t) + 1)
           t2 == Append(t, off)
<1>1. /\ q2 \in Seq(Nat) /\ t2 \in Seq(Offsets)
      /\ Len(q2) = Len(q) + 1 /\ Len(t2) = Len(t) + 1
      /\ \A j \in 1..Len(q) : q2[j] = q[j]
      /\ q2[Len(q) + 1] = Len(t) + 1
      /\ \A j \in 1..Len(t) : t2[j] = t[j]
      /\ t2[Len(t) + 1] = off
  OBVIOUS
<1> HIDE DEF q2, t2
<1>2. Len(t2) - Len(q2) = Len(t) - Len(q) /\ Len(q2) <= Len(t2)
  BY <1>1
<1>3. ASSUME NEW i \in 1..Len(q2) PROVE q2[i] = (Len(t2) - Len(q2)) + i
  <2>1. CASE i \in 1..Len(q)
    BY <1>1, <1>2, <2>1
  <2>2. CASE i = Len(q) + 1
    BY <1>1, <1>2, <2>2
  <2> QED BY <1>1, <2>1, <2>2
<1>4. ASSUME NEW i \in 1..Len(t2), NEW j \in 1..Len(t2), i < j PROVE t2[i] < t2[j]
  <2>1. CASE j \in 1..Len(t)
    <3>1. i \in 1..Len(t)
      BY <1>1, <1>4, <2>1
    <3>2. t2[i] = t[i] /\ t2[j] = t[j]
      BY <1>1, <2>1, <3>1, Zenon
    <3> QED BY <1>4, <2>1, <3>1, <3>2, Zenon
  <2>2. CASE j = Len(t) + 1
    <3>1. i \in 1..Len(t)
      BY <1>1, <1>4, <2>2
    <3>2. t2[i] = t[i] /\ t2[j] = off
      BY <1>1, <2>2, <3>1, Zenon
    <3> QED BY <3>1, <3>2, Zenon
  <2> QED BY <1>1, <2>1, <2>2
<1> QED BY <1>1, <1>2, <1>3, <1>4 DEF q2, t2

\* The sequences and lengths of a node in a state that satisfies the invariant.
LEMMA NodeFacts ==
    ASSUME IndInv, NEW n \in Nodes
    PROVE  /\ queue[n] \in Seq(Nat) /\ tracked[n] \in Seq(Offsets)
           /\ Len(queue[n]) \in Nat /\ Len(tracked[n]) \in Nat
           /\ Passed(n) = Len(tracked[n]) - Len(queue[n])
           /\ Passed(n) \in Nat
           /\ \A i \in 1..Len(queue[n]) : queue[n][i] = Passed(n) + i
           /\ 1..Passed(n) \subseteq finished[n]
           /\ finished[n] \subseteq 1..Len(tracked[n])
           /\ Passed(n) + 1 \notin finished[n]
<1>1. /\ queue[n] \in Seq(Nat) /\ tracked[n] \in Seq(Offsets)
  BY DEF IndInv, TypeOK
<1>2. Len(queue[n]) \in Nat /\ Len(tracked[n]) \in Nat
  BY <1>1
<1>3. Passed(n) = Len(tracked[n]) - Len(queue[n]) /\ Len(queue[n]) <= Len(tracked[n])
  BY DEF Passed, IndInv, QueueIsSuffix
<1>4. Passed(n) \in Nat
  BY <1>2, <1>3
<1>5. \A i \in 1..Len(queue[n]) : queue[n][i] = Passed(n) + i
  BY DEF IndInv, QueueIsSuffix
<1>6. /\ 1..Passed(n) \subseteq finished[n]
      /\ finished[n] \subseteq 1..Len(tracked[n])
      /\ Passed(n) + 1 \notin finished[n]
  BY DEF IndInv, PassedIsFinished, HeadIsPending
<1> QED BY <1>1, <1>2, <1>3, <1>4, <1>5, <1>6

\* What one callback does to its node: the first k queued records leave the queue,
\* all of them done, and the record behind them is not (the loop of the Track
\* callback stops at the first pending record).
Effect(n, i, p, k) ==
    /\ Passed(n) = p /\ Passed(n)' = p + k
    /\ Len(tracked[n]) = p + Len(queue[n])
    /\ queue' = [queue EXCEPT ![n] = SubSeq(@, k + 1, Len(@))]
    /\ queue'[n] \in Seq(Nat)
    /\ Len(queue'[n]) = Len(queue[n]) - k
    /\ \A j \in 1..(Len(queue[n]) - k) : queue'[n][j] = p + k + j
    /\ i \in 1..Len(tracked[n]) /\ i \notin finished[n]
    /\ finished' = [finished EXCEPT ![n] = @ \cup {i}]
    /\ finished'[n] = finished[n] \cup {i}
    /\ 1..(p + k) \subseteq finished'[n]
    /\ p + k + 1 \notin finished'[n]
    /\ offset' = [offset EXCEPT ![n] = IF k = 0 THEN @ ELSE tracked[n][p + k]]
    /\ known' = [known EXCEPT ![n] = @ \/ k > 0]
    /\ slots' = slots - k
    /\ UNCHANGED <<caller, cancelled, tracked>>

\* The callback marks record i and pops the finished records at the head of the queue.
LEMMA CompleteEffect ==
    ASSUME IndInv, NEW n \in Nodes, NEW i, Complete(n, i)
    PROVE  \E p \in Nat, k \in 0..Len(queue[n]) : Effect(n, i, p, k)
<1>1. PICK p \in Nat : Passed(n) = p
  BY NodeFacts
<1>2. /\ queue[n] \in Seq(Nat)
      /\ Len(queue[n]) \in Nat /\ Len(tracked[n]) \in Nat
      /\ Len(tracked[n]) = p + Len(queue[n])
      /\ \A j \in 1..Len(queue[n]) : queue[n][j] = p + j
      /\ 1..p \subseteq finished[n]
      /\ finished[n] \subseteq 1..Len(tracked[n])
  <2>1. queue[n] \in Seq(Nat) /\ Len(queue[n]) \in Nat /\ Len(tracked[n]) \in Nat
    BY NodeFacts
  <2>2. p = Len(tracked[n]) - Len(queue[n])
    BY <1>1, NodeFacts
  <2>3. Len(tracked[n]) = p + Len(queue[n])
    BY <2>1, <2>2
  <2>4. \A j \in 1..Len(queue[n]) : queue[n][j] = p + j
    BY <1>1, NodeFacts, Zenon
  <2>5. 1..p \subseteq finished[n] /\ finished[n] \subseteq 1..Len(tracked[n])
    BY <1>1, NodeFacts, Zenon
  <2> QED BY <2>1, <2>3, <2>4, <2>5
<1>3. PICK k \in 0..Len(queue[n]) :
         /\ \A j \in 1..k : queue[n][j] \in finished'[n]
         /\ k < Len(queue[n]) => queue[n][k + 1] \notin finished'[n]
         /\ queue' = [queue EXCEPT ![n] = SubSeq(@, k + 1, Len(@))]
         /\ offset' = [offset EXCEPT ![n] = IF k = 0 THEN @ ELSE tracked[n][queue[n][k]]]
         /\ known' = [known EXCEPT ![n] = @ \/ k > 0]
         /\ slots' = slots - k
  BY DEF Complete, Pop, Popped, DonePrefix
<1>k. k \in 0..Len(queue[n]) /\ k \in Nat /\ k <= Len(queue[n]) /\ p \in Nat
  BY <1>2
<1>4. /\ i \in 1..Len(tracked[n]) /\ i \notin finished[n]
      /\ finished' = [finished EXCEPT ![n] = @ \cup {i}]
      /\ finished'[n] = finished[n] \cup {i}
      /\ UNCHANGED <<caller, cancelled, tracked>>
  BY DEF Complete, IndInv, TypeOK
<1>5. queue'[n] = SubSeq(queue[n], k + 1, Len(queue[n]))
  BY <1>3 DEF IndInv, TypeOK
<1>6. /\ queue'[n] \in Seq(Nat)
      /\ Len(queue'[n]) = Len(queue[n]) - k
      /\ \A j \in 1..(Len(queue[n]) - k) : queue'[n][j] = p + k + j
  <2>1. /\ SubSeq(queue[n], k + 1, Len(queue[n])) \in Seq(Nat)
        /\ Len(SubSeq(queue[n], k + 1, Len(queue[n]))) = Len(queue[n]) - k
        /\ \A j \in 1..(Len(queue[n]) - k) :
              SubSeq(queue[n], k + 1, Len(queue[n]))[j] = p + k + j
    BY <1>2, <1>k, DropRun, Zenon
  <2> QED BY <1>5, <2>1, Zenon
<1>7. 1..(p + k) \subseteq finished'[n]
  BY <1>2, <1>k, <1>3, <1>4, ExtendPrefix
<1>8. p + k + 1 \notin finished'[n]
  <2>1. CASE k < Len(queue[n])
    <3>1. k + 1 \in 1..Len(queue[n]) /\ queue[n][k + 1] \notin finished'[n]
      BY <1>2, <1>k, <1>3, <2>1
    <3> QED BY <1>2, <1>k, <3>1
  <2>2. CASE k = Len(queue[n])
    BY <1>2, <1>k, <1>4, <2>2
  <2> QED BY <1>2, <1>k, <2>1, <2>2
<1>9. offset' = [offset EXCEPT ![n] = IF k = 0 THEN @ ELSE tracked[n][p + k]]
  <2>1. CASE k = 0
    BY <1>3, <2>1
  <2>2. CASE k # 0
    <3>1. queue[n][k] = p + k
      BY <1>2, <1>k, <2>2
    <3> QED BY <1>3, <2>2, <3>1
  <2> QED BY <2>1, <2>2
<1>10. Passed(n)' = p + k
  <2>1. Passed(n)' = Len(tracked'[n]) - Len(queue'[n])
    BY DEF Passed
  <2>2. Len(tracked'[n]) = Len(tracked[n])
    BY <1>4
  <2>3. Len(tracked'[n]) - Len(queue'[n]) = p + k
    <3>1. /\ Len(queue[n]) \in Nat /\ Len(tracked'[n]) = p + Len(queue[n])
          /\ Len(queue'[n]) = Len(queue[n]) - k
      BY <1>2, <1>6, <2>2, Zenon
    <3>2. \A a, b : a = p + Len(queue[n]) /\ b = Len(queue[n]) - k => a - b = p + k
      BY <1>2, <1>k, LengthArithmetic, Zenon
    <3> QED BY <3>1, <3>2, Zenon
  <2> QED BY <2>1, <2>3, Zenon
<1> QED
  BY <1>1, <1>2, <1>3, <1>4, <1>6, <1>7, <1>8, <1>9, <1>10, Zenon DEF Effect


\* Only the node of the action changes.
LEMMA OtherNodes ==
    ASSUME IndInv, NEW n \in Nodes, NEW i, Complete(n, i), NEW m \in Nodes, m # n
    PROVE  /\ queue'[m] = queue[m] /\ tracked'[m] = tracked[m]
           /\ finished'[m] = finished[m] /\ offset'[m] = offset[m]
           /\ known'[m] = known[m] /\ Passed(m)' = Passed(m)
BY DEF IndInv, TypeOK, Complete, Pop, Popped, Passed

\* NewTracker establishes the invariant.
LEMMA InitIndInv == Init => IndInv
<1> SUFFICES ASSUME Init PROVE IndInv
  OBVIOUS
<1> USE DEF Init
<1>1. \A n \in Nodes : /\ queue[n] = <<>> /\ tracked[n] = <<>> /\ finished[n] = {}
                       /\ known[n] = FALSE /\ caller[n] = "idle"
  OBVIOUS
<1>2. \A n \in Nodes : Passed(n) = 0 /\ Claimed(n) = 0
  BY <1>1 DEF Passed, Claimed
<1>3. TypeOK
  <2>1. queue \in [Nodes -> Seq(Nat)] /\ tracked \in [Nodes -> Seq(Offsets)]
    OBVIOUS
  <2>2. /\ offset \in [Nodes -> Offsets \cup {0}] /\ slots \in Nat
        /\ finished \in [Nodes -> SUBSET Nat]
    OBVIOUS
  <2>3. /\ known \in [Nodes -> BOOLEAN] /\ cancelled \in BOOLEAN
        /\ caller \in [Nodes -> {"idle", "reserved", "refused"}]
    BY Zenon
  <2> QED BY <2>1, <2>2, <2>3 DEF TypeOK
<1>4. QueueIsSuffix /\ HeadIsPending /\ PassedIsFinished /\ OffsetsGrow
  BY <1>1, <1>2 DEF QueueIsSuffix, HeadIsPending, PassedIsFinished, OffsetsGrow
<1>5. ShownIsLastPassed
  BY <1>1, <1>2 DEF ShownIsLastPassed
<1>6. InFlight = {}
  BY <1>2 DEF InFlight
<1>7. WindowIsExact /\ IsFiniteSet(InFlight)
  BY <1>6, FS_EmptySet, LimitAssumption DEF WindowIsExact
<1> QED BY <1>3, <1>4, <1>5, <1>7 DEF IndInv

\* The numbers above lo[n] and up to hi[n], for every node n.
Span(lo, hi) == UNION {{n} \X ((lo[n] + 1)..hi[n]) : n \in Nodes}

\* What is in a span: a node with a number between its bounds.
LEMMA SpanMembers ==
    ASSUME NEW lo, NEW hi, NEW x
    PROVE  x \in Span(lo, hi) <=>
             \E m \in Nodes : \E j \in (lo[m] + 1)..hi[m] : x = <<m, j>>
<1>1. ASSUME x \in Span(lo, hi)
      PROVE \E m \in Nodes : \E j \in (lo[m] + 1)..hi[m] : x = <<m, j>>
  <2>1. PICK m \in Nodes : x \in {m} \X ((lo[m] + 1)..hi[m])
    BY <1>1 DEF Span
  <2> QED BY <2>1
<1>2. ASSUME NEW m \in Nodes, NEW j \in (lo[m] + 1)..hi[m], x = <<m, j>>
      PROVE x \in Span(lo, hi)
  <2>1. x \in {m} \X ((lo[m] + 1)..hi[m])
    BY <1>2
  <2> QED BY <2>1 DEF Span
<1> QED BY <1>1, <1>2

\* One more number above hi[n] adds one element.
LEMMA SpanGrows ==
    ASSUME NEW lo \in [Nodes -> Nat], NEW hi \in [Nodes -> Nat], NEW n \in Nodes,
           lo[n] <= hi[n], IsFiniteSet(Span(lo, hi))
    PROVE  LET new == Span(lo, [hi EXCEPT ![n] = @ + 1])
           IN  IsFiniteSet(new) /\ Cardinality(new) = Cardinality(Span(lo, hi)) + 1
<1> DEFINE up == [hi EXCEPT ![n] = @ + 1]
<1>1. Span(lo, up) = Span(lo, hi) \cup {<<n, hi[n] + 1>>}
  <2>1. ASSUME NEW x PROVE x \in Span(lo, up) <=> x \in Span(lo, hi) \/ x = <<n, hi[n] + 1>>
    <3>1. \A m \in Nodes \ {n} : up[m] = hi[m]
      OBVIOUS
    <3>2. up[n] = hi[n] + 1
      OBVIOUS
    <3>3. \A j : j \in (lo[n] + 1)..up[n] <=> j \in (lo[n] + 1)..hi[n] \/ j = hi[n] + 1
      BY <3>2
    <3> HIDE DEF up
    <3>4. x \in Span(lo, up) <=>
             \E m \in Nodes : \E j \in (lo[m] + 1)..up[m] : x = <<m, j>>
      BY SpanMembers
    <3>5. x \in Span(lo, hi) <=>
             \E m \in Nodes : \E j \in (lo[m] + 1)..hi[m] : x = <<m, j>>
      BY SpanMembers
    <3> QED BY <3>1, <3>3, <3>4, <3>5, Zenon
  <2> QED BY <2>1, Zenon
<1>2. <<n, hi[n] + 1>> \notin Span(lo, hi)
  BY SpanMembers
<1> HIDE DEF up
<1>3. IsFiniteSet(Span(lo, up)) /\ Cardinality(Span(lo, up)) = Cardinality(Span(lo, hi)) + 1
  BY <1>1, <1>2, FS_AddElement
<1> QED BY <1>3 DEF up

\* Moving lo[n] up by k removes k elements.
LEMMA SpanShrinks ==
    ASSUME NEW lo \in [Nodes -> Nat], NEW hi \in [Nodes -> Nat], NEW n \in Nodes,
           NEW k \in Nat, lo[n] + k <= hi[n], IsFiniteSet(Span(lo, hi))
    PROVE  LET new == Span([lo EXCEPT ![n] = @ + k], hi)
           IN  IsFiniteSet(new) /\ Cardinality(new) = Cardinality(Span(lo, hi)) - k
<1> DEFINE up == [lo EXCEPT ![n] = @ + k]
           gone == {n} \X ((lo[n] + 1)..(lo[n] + k))
<1>1. Span(up, hi) = Span(lo, hi) \ gone
  <2>1. ASSUME NEW x PROVE x \in Span(up, hi) <=> x \in Span(lo, hi) /\ x \notin gone
    <3>1. \A m \in Nodes \ {n} : up[m] = lo[m]
      OBVIOUS
    <3>2. up[n] = lo[n] + k
      OBVIOUS
    <3>3. \A j : j \in (up[n] + 1)..hi[n] <=>
                 j \in (lo[n] + 1)..hi[n] /\ j \notin (lo[n] + 1)..(lo[n] + k)
      BY <3>2
    <3>6. \A m, j : <<m, j>> \in gone <=> m = n /\ j \in (lo[n] + 1)..(lo[n] + k)
      OBVIOUS
    <3> HIDE DEF up, gone
    <3>4. x \in Span(up, hi) <=>
             \E m \in Nodes : \E j \in (up[m] + 1)..hi[m] : x = <<m, j>>
      BY SpanMembers
    <3>5. x \in Span(lo, hi) <=>
             \E m \in Nodes : \E j \in (lo[m] + 1)..hi[m] : x = <<m, j>>
      BY SpanMembers
    <3> QED BY <3>1, <3>3, <3>4, <3>5, <3>6
  <2> QED BY <2>1, Zenon
<1>2. Span(lo, hi) \cap gone = gone
  <2>1. ASSUME NEW x \in gone PROVE x \in Span(lo, hi)
    <3>1. PICK j \in (lo[n] + 1)..(lo[n] + k) : x = <<n, j>>
      OBVIOUS
    <3>2. j \in (lo[n] + 1)..hi[n]
      OBVIOUS
    <3> QED BY <3>1, <3>2, SpanMembers
  <2> QED BY <2>1
<1>3. Cardinality(gone) = k
  <2>1. IsFiniteSet((lo[n] + 1)..(lo[n] + k)) /\ Cardinality((lo[n] + 1)..(lo[n] + k)) = k
    BY RunCardinality
  <2>2. IsFiniteSet({n}) /\ Cardinality({n}) = 1
    BY FS_Singleton
  <2>3. Cardinality(gone) = 1 * k
    BY <2>1, <2>2, FS_Product
  <2> QED BY <2>3
<1> HIDE DEF up, gone
<1>4. IsFiniteSet(Span(up, hi)) /\ Cardinality(Span(up, hi)) = Cardinality(Span(lo, hi)) - k
  BY <1>1, <1>2, <1>3, FS_Difference
<1> QED BY <1>4 DEF up

Low == [m \in Nodes |-> Passed(m)]
High == [m \in Nodes |-> Claimed(m)]

\* The commands in flight lie between the passed and the claimed ones of each node.
LEMMA InFlightIsSpan ==
    InFlight = Span(Low, High) /\ InFlight' = Span(Low', High')
BY Zenon DEF InFlight, Span, Low, High

\* The bounds of the span, and the slots it takes.
LEMMA SpanFacts ==
    ASSUME IndInv
    PROVE  /\ Low \in [Nodes -> Nat] /\ High \in [Nodes -> Nat]
           /\ \A n \in Nodes : Low[n] = Passed(n) /\ High[n] = Claimed(n)
           /\ \A n \in Nodes : Passed(n) <= Claimed(n)
           /\ IsFiniteSet(Span(Low, High)) /\ slots = Cardinality(Span(Low, High))
           /\ Cardinality(Span(Low, High)) \in Nat /\ slots <= Limit
<1>1. ASSUME NEW n \in Nodes PROVE /\ Passed(n) \in Nat /\ Claimed(n) \in Nat
                                  /\ Passed(n) <= Claimed(n)
  <2>1. Len(tracked[n]) \in Nat /\ Passed(n) \in Nat
    BY NodeFacts, Zenon
  <2>2. Passed(n) <= Len(tracked[n])
    <3>1. Len(queue[n]) \in Nat
      BY NodeFacts, Zenon
    <3>2. Len(tracked[n]) - Len(queue[n]) <= Len(tracked[n])
      BY <2>1, <3>1, LengthArithmetic, Zenon
    <3> QED BY <3>2, Zenon DEF Passed
  <2>3. CASE caller[n] = "reserved"
    <3>1. Claimed(n) = Len(tracked[n]) + 1
      BY <2>3, Zenon DEF Claimed
    <3> QED BY <2>1, <2>2, <3>1
  <2>4. CASE caller[n] # "reserved"
    <3>1. Claimed(n) = Len(tracked[n])
      BY <2>1, <2>4 DEF Claimed
    <3> QED BY <2>1, <2>2, <3>1
  <2> QED BY <2>3, <2>4
<1>2. IsFiniteSet(Span(Low, High)) /\ slots = Cardinality(Span(Low, High)) /\ slots <= Limit
  BY InFlightIsSpan DEF IndInv, WindowIsExact
<1> QED BY <1>1, <1>2, FS_CardinalityType DEF Low, High

\* Track takes a slot.
LEMMA ReserveIndInv ==
    ASSUME IndInv, NEW n \in Nodes, Reserve(n)
    PROVE  IndInv'
<1>1. /\ caller[n] = "idle" /\ slots < Limit /\ slots' = slots + 1
      /\ caller' = [caller EXCEPT ![n] = "reserved"]
      /\ UNCHANGED <<queue, offset, known, cancelled, tracked, finished>>
  BY DEF Reserve
<1>2. TypeOK'
  BY <1>1 DEF IndInv, TypeOK
<1>3. /\ QueueIsSuffix' /\ HeadIsPending' /\ PassedIsFinished' /\ ShownIsLastPassed'
      /\ OffsetsGrow'
  BY <1>1 DEF IndInv, QueueIsSuffix, HeadIsPending, PassedIsFinished,
              ShownIsLastPassed, OffsetsGrow, Passed
<1>4. Low' = Low
  BY <1>1 DEF Low, Passed
<1>5. High' = [High EXCEPT ![n] = @ + 1]
  <2>1. \A m \in Nodes : Len(tracked[m]) \in Nat
    BY NodeFacts
  <2>2. Claimed(n) = Len(tracked[n]) /\ Claimed(n)' = Len(tracked[n]) + 1
    BY <1>1, <2>1 DEF Claimed, IndInv, TypeOK
  <2>3. \A m \in Nodes \ {n} : Claimed(m)' = Claimed(m)
    BY <1>1 DEF Claimed, IndInv, TypeOK
  <2> QED BY <2>2, <2>3, Zenon DEF High
<1>6. IsFiniteSet(Span(Low, [High EXCEPT ![n] = @ + 1]))
      /\ Cardinality(Span(Low, [High EXCEPT ![n] = @ + 1])) = Cardinality(Span(Low, High)) + 1
  <2>1. /\ Low \in [Nodes -> Nat] /\ High \in [Nodes -> Nat] /\ Low[n] <= High[n]
        /\ IsFiniteSet(Span(Low, High))
    BY SpanFacts
  <2> QED BY <2>1, SpanGrows
<1>7. InFlight' = Span(Low, [High EXCEPT ![n] = @ + 1])
  <2>1. InFlight' = Span(Low', High')
    BY InFlightIsSpan
  <2> QED BY <1>4, <1>5, <2>1, Zenon
<1>8. IsFiniteSet(InFlight') /\ Cardinality(InFlight') = slots'
  <2>1. slots = Cardinality(Span(Low, High))
    BY SpanFacts, Zenon
  <2> QED BY <1>1, <1>6, <1>7, <2>1, Zenon
<1>9. slots' <= Limit
  BY <1>1, LimitAssumption DEF IndInv, TypeOK
<1> QED BY <1>2, <1>3, <1>8, <1>9, Zenon DEF IndInv, WindowIsExact

\* Track gives up when the context is done.
LEMMA RefuseIndInv ==
    ASSUME IndInv, NEW n \in Nodes, Refuse(n)
    PROVE  IndInv'
<1>1. /\ caller[n] = "idle" /\ caller' = [caller EXCEPT ![n] = "refused"]
      /\ UNCHANGED <<queue, offset, known, slots, cancelled, tracked, finished>>
  BY DEF Refuse
<1>2. TypeOK'
  BY <1>1 DEF IndInv, TypeOK
<1>3. /\ QueueIsSuffix' /\ HeadIsPending' /\ PassedIsFinished' /\ ShownIsLastPassed'
      /\ OffsetsGrow'
  BY <1>1 DEF IndInv, QueueIsSuffix, HeadIsPending, PassedIsFinished,
              ShownIsLastPassed, OffsetsGrow, Passed
<1>4. InFlight' = InFlight
  BY <1>1 DEF InFlight, Passed, Claimed, IndInv, TypeOK
<1> QED BY <1>1, <1>2, <1>3, <1>4 DEF IndInv, WindowIsExact

\* The context ends.
LEMMA CancelIndInv == ASSUME IndInv, Cancel PROVE IndInv'
<1>1. /\ cancelled' = TRUE
      /\ UNCHANGED <<queue, offset, known, slots, caller, tracked, finished>>
  BY DEF Cancel
<1> QED BY <1>1 DEF IndInv, TypeOK, QueueIsSuffix, HeadIsPending, PassedIsFinished,
   ShownIsLastPassed, OffsetsGrow, WindowIsExact, InFlight, Passed, Claimed

\* A new record goes behind the queue, so none passes.
LEMMA RegisterKeepsPassed ==
    ASSUME IndInv, NEW n \in Nodes, NEW off \in Offsets, Register(n, off), NEW m \in Nodes
    PROVE  Passed(m)' = Passed(m)
<1>1. queue[m] \in Seq(Nat) /\ tracked[m] \in Seq(Offsets)
  BY NodeFacts, Zenon
<1>2. CASE m = n
  <2>1. /\ queue'[m] = Append(queue[m], Len(tracked[m]) + 1)
        /\ tracked'[m] = Append(tracked[m], off)
    BY <1>2 DEF Register, IndInv, TypeOK
  <2>2. ASSUME NEW q \in Seq(Nat), NEW t \in Seq(Offsets)
        PROVE  Len(Append(t, off)) - Len(Append(q, Len(t) + 1)) = Len(t) - Len(q)
    OBVIOUS
  <2> QED BY <1>1, <2>1, <2>2, Zenon DEF Passed
<1>3. CASE m # n
  BY <1>3 DEF Register, IndInv, TypeOK, Passed
<1> QED BY <1>2, <1>3

\* Track appends its record.
LEMMA RegisterIndInv ==
    ASSUME IndInv, NEW n \in Nodes, NEW off \in Offsets, Grows(n, off), Register(n, off)
    PROVE  IndInv'
<1>1. /\ caller[n] = "reserved"
      /\ queue' = [queue EXCEPT ![n] = Append(@, Len(tracked[n]) + 1)]
      /\ caller' = [caller EXCEPT ![n] = "idle"]
      /\ tracked' = [tracked EXCEPT ![n] = Append(@, off)]
      /\ UNCHANGED <<offset, known, slots, cancelled, finished>>
  BY DEF Register
<1>2. /\ queue[n] \in Seq(Nat) /\ tracked[n] \in Seq(Offsets)
      /\ Len(queue[n]) \in Nat /\ Len(tracked[n]) \in Nat
  BY NodeFacts, Zenon
<1>3. /\ queue'[n] = Append(queue[n], Len(tracked[n]) + 1)
      /\ tracked'[n] = Append(tracked[n], off)
  BY <1>1 DEF IndInv, TypeOK
<1>4. \A m \in Nodes \ {n} : /\ queue'[m] = queue[m] /\ tracked'[m] = tracked[m]
                             /\ Passed(m)' = Passed(m)
  BY <1>1 DEF IndInv, TypeOK, Passed
<1>5. /\ queue'[n] \in Seq(Nat) /\ tracked'[n] \in Seq(Offsets)
      /\ Len(tracked'[n]) - Len(queue'[n]) = Len(tracked[n]) - Len(queue[n])
      /\ Len(queue'[n]) <= Len(tracked'[n]) /\ Len(tracked'[n]) = Len(tracked[n]) + 1
      /\ \A i \in 1..Len(queue'[n]) :
             queue'[n][i] = (Len(tracked'[n]) - Len(queue'[n])) + i
      /\ \A i \in 1..Len(tracked[n]) : tracked'[n][i] = tracked[n][i]
      /\ \A i, j \in 1..Len(tracked'[n]) : i < j => tracked'[n][i] < tracked'[n][j]
  <2>1. /\ Len(queue[n]) <= Len(tracked[n])
        /\ \A i \in 1..Len(queue[n]) : queue[n][i] = (Len(tracked[n]) - Len(queue[n])) + i
        /\ \A i, j \in 1..Len(tracked[n]) : i < j => tracked[n][i] < tracked[n][j]
        /\ \A i \in 1..Len(tracked[n]) : tracked[n][i] < off
    BY Zenon DEF IndInv, QueueIsSuffix, OffsetsGrow, Grows, Passed
  <2> DEFINE q2 == Append(queue[n], Len(tracked[n]) + 1)
             t2 == Append(tracked[n], off)
  <2>2. /\ q2 \in Seq(Nat) /\ t2 \in Seq(Offsets)
        /\ Len(t2) - Len(q2) = Len(tracked[n]) - Len(queue[n])
        /\ Len(q2) <= Len(t2) /\ Len(t2) = Len(tracked[n]) + 1
        /\ \A i \in 1..Len(q2) : q2[i] = (Len(t2) - Len(q2)) + i
        /\ \A i \in 1..Len(tracked[n]) : t2[i] = tracked[n][i]
        /\ \A i, j \in 1..Len(t2) : i < j => t2[i] < t2[j]
    BY <1>2, <2>1, AppendRun, Zenon
  <2> QED BY <1>3, <2>2, Zenon
<1>6. Passed(n)' = Passed(n)
  BY <1>5, Zenon DEF Passed
<1>7. TypeOK'
  BY <1>1, <1>2, <1>5 DEF IndInv, TypeOK
<1>8. QueueIsSuffix'
  <2>1. ASSUME NEW m \in Nodes
        PROVE  /\ Len(queue'[m]) <= Len(tracked'[m])
               /\ \A i \in 1..Len(queue'[m]) : queue'[m][i] = Passed(m)' + i
    <3>1. CASE m = n
      BY <1>5, <3>1, Zenon DEF Passed
    <3>2. CASE m # n
      BY <1>4, <3>2 DEF IndInv, QueueIsSuffix
    <3> QED BY <3>1, <3>2
  <2> QED BY <2>1 DEF QueueIsSuffix
<1>9. HeadIsPending'
  BY <1>1, <1>4, <1>6 DEF IndInv, HeadIsPending
<1>10. PassedIsFinished'
  BY <1>1, <1>2, <1>4, <1>5, <1>6 DEF IndInv, PassedIsFinished
<1>11. ShownIsLastPassed'
  <2>1. ASSUME NEW m \in Nodes
        PROVE  /\ known'[m] <=> Passed(m)' > 0
               /\ known'[m] => offset'[m] = tracked'[m][Passed(m)']
    <3>1. CASE m = n
      <4>1. /\ known[n] <=> Passed(n) > 0
            /\ known[n] => offset[n] = tracked[n][Passed(n)]
        BY Zenon DEF IndInv, ShownIsLastPassed
      <4>2. Passed(n) > 0 => Passed(n) \in 1..Len(tracked[n])
        <5>1. Passed(n) \in Nat /\ Len(tracked[n]) \in Nat
          BY NodeFacts, Zenon
        <5>2. Passed(n) <= Len(tracked[n])
          BY <1>2, LengthArithmetic, Zenon DEF Passed
        <5> QED BY <5>1, <5>2
      <4>3. known'[n] = known[n] /\ offset'[n] = offset[n]
        BY <1>1
      <4>4. /\ known'[n] <=> Passed(n)' > 0
            /\ known'[n] => offset'[n] = tracked'[n][Passed(n)']
        BY <1>5, <1>6, <4>1, <4>2, <4>3, Zenon
      <4> QED BY <3>1, <4>4, Zenon
    <3>2. CASE m # n
      BY <1>1, <1>4, <3>2 DEF IndInv, ShownIsLastPassed
    <3> QED BY <3>1, <3>2
  <2> QED BY <2>1 DEF ShownIsLastPassed
<1>12. OffsetsGrow'
  <2>1. ASSUME NEW m \in Nodes
        PROVE  \A i, j \in 1..Len(tracked'[m]) : i < j => tracked'[m][i] < tracked'[m][j]
    <3>1. CASE m = n
      BY <1>5, <3>1, Zenon
    <3>2. CASE m # n
      BY <1>4, <3>2 DEF IndInv, OffsetsGrow
    <3> QED BY <3>1, <3>2
  <2> QED BY <2>1 DEF OffsetsGrow
<1>13. Low' = Low /\ High' = High
  <2>1. \A m \in Nodes : Passed(m)' = Passed(m)
    BY <1>4, <1>6
  <2>2. ASSUME NEW m \in Nodes PROVE Claimed(m)' = Claimed(m)
    <3>1. CASE m = n
      <4>1. caller'[n] = "idle" /\ caller[n] = "reserved"
        BY <1>1 DEF IndInv, TypeOK
      <4>2. Claimed(n) = Len(tracked[n]) + 1
        BY <4>1, Zenon DEF Claimed
      <4>3. Claimed(n)' = Len(tracked'[n]) + 0
        BY <4>1 DEF Claimed
      <4>4. Len(tracked'[n]) + 0 = Len(tracked[n]) + 1
        BY <1>2, <1>5
      <4> QED BY <3>1, <4>2, <4>3, <4>4, Zenon
    <3>2. CASE m # n
      <4>1. caller'[m] = caller[m]
        BY <1>1, <3>2 DEF IndInv, TypeOK
      <4> QED BY <1>4, <3>2, <4>1 DEF Claimed
    <3> QED BY <3>1, <3>2
  <2> QED BY <2>1, <2>2, Zenon DEF Low, High
<1>14. WindowIsExact' /\ IsFiniteSet(InFlight')
  <2>1. InFlight' = InFlight
    BY <1>13, InFlightIsSpan, Zenon
  <2> QED BY <1>1, <2>1, Zenon DEF IndInv, WindowIsExact
<1> QED BY <1>7, <1>8, <1>9, <1>10, <1>11, <1>12, <1>14, Zenon DEF IndInv

\* The callback pops the queue, shows the offset and frees the slots.
LEMMA CompleteIndInv ==
    ASSUME IndInv, NEW n \in Nodes, NEW i, Complete(n, i)
    PROVE  IndInv'
<1>1. PICK p \in Nat, k \in 0..Len(queue[n]) : Effect(n, i, p, k)
  BY CompleteEffect, Zenon
<1>2. /\ queue[n] \in Seq(Nat) /\ tracked[n] \in Seq(Offsets)
      /\ Len(queue[n]) \in Nat /\ Len(tracked[n]) \in Nat
  BY NodeFacts, Zenon
<1>3. k \in Nat /\ k <= Len(queue[n])
  BY <1>2
<1>4. tracked' = tracked /\ caller' = caller /\ cancelled' = cancelled
  BY <1>1, Zenon DEF Effect
<1>5. \A m \in Nodes \ {n} :
           /\ queue'[m] = queue[m] /\ tracked'[m] = tracked[m]
           /\ finished'[m] = finished[m] /\ offset'[m] = offset[m]
           /\ known'[m] = known[m] /\ Passed(m)' = Passed(m)
  BY OtherNodes
<1>6. Passed(n) = p /\ Passed(n)' = p + k
  BY <1>1, Zenon DEF Effect
<1>7. QueueIsSuffix'
  <2>1. Len(queue'[n]) <= Len(tracked'[n])
    <3>1. /\ Len(tracked[n]) = p + Len(queue[n])
          /\ Len(queue'[n]) = Len(queue[n]) - k
      BY <1>1, Zenon DEF Effect
    <3>2. Len(queue[n]) - k <= p + Len(queue[n])
      BY <1>2, <1>3
    <3> QED BY <1>4, <3>1, <3>2, Zenon
  <2>2. \A j \in 1..Len(queue'[n]) : queue'[n][j] = Passed(n)' + j
    BY <1>1, <1>6, Zenon DEF Effect
  <2> QED BY <1>5, <2>1, <2>2, Zenon DEF IndInv, QueueIsSuffix
<1>8. HeadIsPending'
  <2>1. p + k + 1 \notin finished'[n]
    BY <1>1, Zenon DEF Effect
  <2> QED BY <1>5, <1>6, <2>1, Zenon DEF IndInv, HeadIsPending
<1>9. PassedIsFinished'
  <2>1. /\ 1..(p + k) \subseteq finished'[n]
        /\ finished'[n] = finished[n] \cup {i} /\ i \in 1..Len(tracked[n])
    BY <1>1, Zenon DEF Effect
  <2> QED BY <1>4, <1>5, <1>6, <2>1, Zenon DEF IndInv, PassedIsFinished
<1>10. OffsetsGrow'
  BY <1>4, Zenon DEF IndInv, OffsetsGrow
<1>11. p + k <= Len(tracked[n])
  <2>1. Len(tracked[n]) = p + Len(queue[n])
    BY <1>1, Zenon DEF Effect
  <2> QED BY <1>2, <1>3, <2>1
<1>12. /\ known'[n] = (known[n] \/ k > 0)
       /\ offset'[n] = IF k = 0 THEN offset[n] ELSE tracked[n][p + k]
  BY <1>1 DEF Effect, IndInv, TypeOK
<1>13. ShownIsLastPassed'
  <2>1. /\ known[n] <=> p > 0
        /\ known[n] => offset[n] = tracked[n][p]
    BY <1>6, Zenon DEF IndInv, ShownIsLastPassed
  <2>2. CASE k = 0
    <3>1. p + k = p /\ ~(k > 0)
      BY <2>2
    <3>2. /\ known'[n] <=> p + k > 0
          /\ known'[n] => offset'[n] = tracked'[n][p + k]
      BY <1>4, <1>12, <2>1, <2>2, <3>1, Zenon
    <3> QED BY <1>5, <1>6, <3>2, Zenon DEF IndInv, ShownIsLastPassed
  <2>3. CASE k # 0
    <3>1. k > 0 /\ p + k > 0
      BY <1>3, <2>3
    <3>2. /\ known'[n] <=> p + k > 0
          /\ known'[n] => offset'[n] = tracked'[n][p + k]
      BY <1>4, <1>12, <2>3, <3>1, Zenon
    <3> QED BY <1>5, <1>6, <3>2, Zenon DEF IndInv, ShownIsLastPassed
  <2> QED BY <2>2, <2>3
<1>14. Low' = [Low EXCEPT ![n] = @ + k] /\ High' = High
  <2>1. \A m \in Nodes : Claimed(m)' = Claimed(m)
    BY <1>4, Zenon DEF Claimed
  <2> QED BY <1>5, <1>6, <2>1, Zenon DEF Low, High
<1>15. /\ IsFiniteSet(Span([Low EXCEPT ![n] = @ + k], High))
       /\ Cardinality(Span([Low EXCEPT ![n] = @ + k], High)) = Cardinality(Span(Low, High)) - k
       /\ Cardinality(Span([Low EXCEPT ![n] = @ + k], High)) \in Nat
  <2>1. /\ Low \in [Nodes -> Nat] /\ High \in [Nodes -> Nat]
        /\ IsFiniteSet(Span(Low, High)) /\ Low[n] = Passed(n) /\ High[n] = Claimed(n)
    BY SpanFacts
  <2>2. p + k <= Claimed(n)
    <3>1. Claimed(n) = Len(tracked[n]) + 0 \/ Claimed(n) = Len(tracked[n]) + 1
      BY Zenon DEF Claimed
    <3>2. p + k <= Len(tracked[n]) + 0 /\ p + k <= Len(tracked[n]) + 1
      BY <1>2, <1>3, <1>11
    <3> QED BY <3>1, <3>2, Zenon
  <2>3. Low[n] + k <= High[n]
    BY <1>6, <2>1, <2>2, Zenon
  <2> QED BY <1>3, <2>1, <2>3, SpanShrinks, FS_CardinalityType
<1>16. /\ IsFiniteSet(InFlight') /\ slots' = Cardinality(InFlight')
       /\ Cardinality(InFlight') \in Nat
  <2>1. InFlight' = Span([Low EXCEPT ![n] = @ + k], High)
    BY <1>14, InFlightIsSpan, Zenon
  <2>2. slots = Cardinality(Span(Low, High))
    BY SpanFacts, Zenon
  <2>3. slots' = slots - k
    BY <1>1, Zenon DEF Effect
  <2> QED BY <1>15, <2>1, <2>2, <2>3, Zenon
<1>17. slots' \in Nat /\ slots' <= Limit
  <2>1. slots' \in Nat
    BY <1>16, Zenon
  <2>2. slots \in Nat /\ slots <= Limit /\ slots' = slots - k
    BY <1>1, Zenon DEF Effect, IndInv, TypeOK, WindowIsExact
  <2> QED BY <1>3, <2>1, <2>2, LimitAssumption
<1>18. TypeOK'
  <2>1. queue' \in [Nodes -> Seq(Nat)]
    BY <1>1 DEF Effect, IndInv, TypeOK
  <2>2. finished' \in [Nodes -> SUBSET Nat]
    BY <1>1, <1>2 DEF Effect, IndInv, TypeOK
  <2>3. known' \in [Nodes -> BOOLEAN]
    BY <1>1, Zenon DEF Effect, IndInv, TypeOK
  <2>4. offset' \in [Nodes -> Offsets \cup {0}]
    <3>1. k # 0 => p + k \in 1..Len(tracked[n])
      BY <1>2, <1>3, <1>11
    <3>2. (IF k = 0 THEN offset[n] ELSE tracked[n][p + k]) \in Offsets \cup {0}
      BY <1>2, <3>1 DEF IndInv, TypeOK
    <3> QED BY <1>1, <3>2 DEF Effect, IndInv, TypeOK
  <2> QED BY <1>4, <1>17, <2>1, <2>2, <2>3, <2>4, Zenon DEF IndInv, TypeOK
<1> QED
  BY <1>7, <1>8, <1>9, <1>10, <1>13, <1>16, <1>17, <1>18, Zenon DEF IndInv, WindowIsExact

\* A step that changes nothing keeps the invariant.
LEMMA StutterIndInv == ASSUME IndInv, UNCHANGED vars PROVE IndInv'
BY DEF vars, IndInv, TypeOK, QueueIsSuffix, HeadIsPending, PassedIsFinished,
   ShownIsLastPassed, OffsetsGrow, WindowIsExact, InFlight, Passed, Claimed

\* Every step of the tracker keeps the invariant.
LEMMA NextIndInv == IndInv /\ [Next]_vars => IndInv'
<1> SUFFICES ASSUME IndInv, [Next]_vars PROVE IndInv'
  OBVIOUS
<1>1. CASE UNCHANGED vars
  BY <1>1, StutterIndInv
<1>2. CASE Cancel
  BY <1>2, CancelIndInv
<1>3. ASSUME NEW n \in Nodes, Reserve(n) PROVE IndInv'
  BY <1>3, ReserveIndInv
<1>4. ASSUME NEW n \in Nodes, Refuse(n) PROVE IndInv'
  BY <1>4, RefuseIndInv
<1>5. ASSUME NEW n \in Nodes, NEW off \in Offsets, Grows(n, off), Register(n, off)
      PROVE IndInv'
  BY <1>5, RegisterIndInv
<1>6. ASSUME NEW n \in Nodes, NEW i \in 1..Len(tracked[n]), Complete(n, i)
      PROVE IndInv'
  BY <1>6, CompleteIndInv
<1> QED BY <1>1, <1>2, <1>3, <1>4, <1>5, <1>6, Zenon DEF Next

\* The inductive invariant holds in every reachable state.
THEOREM Inductive == Spec => []IndInv
BY InitIndInv, NextIndInv, PTL DEF Spec

-----------------------------------------------------------------------------
\* Every variable keeps its type; in particular the slots channel is never read
\* when it is empty (the number of its elements never drops below zero).
THEOREM TypeCorrect == Spec => []TypeOK
BY Inductive, PTL DEF IndInv

\* The slots channel holds exactly one element per command in flight and never
\* more than its capacity.
THEOREM WindowExact == Spec => []WindowIsExact
BY Inductive, PTL DEF IndInv

\* The offsets of the records of a node grow with their numbers.
LEMMA Ordering ==
    ASSUME IndInv, NEW n \in Nodes
    PROVE  /\ \A i \in 1..Len(tracked[n]) : tracked[n][i] \in Int
           /\ Passed(n) \in Nat /\ Passed(n) <= Len(tracked[n]) /\ Len(tracked[n]) \in Nat
           /\ \A i, j \in 1..Len(tracked[n]) : i < j => tracked[n][i] < tracked[n][j]
<1>1. \A i \in 1..Len(tracked[n]) : tracked[n][i] \in Int
  <2>1. tracked[n] \in Seq(Offsets)
    BY NodeFacts, Zenon
  <2>2. \A i \in 1..Len(tracked[n]) : tracked[n][i] \in Offsets
    BY <2>1
  <2> QED BY <2>2, OffsetsAssumption, Zenon
<1>2. Len(tracked[n]) \in Nat /\ Len(queue[n]) \in Nat /\ Passed(n) \in Nat
  BY NodeFacts, Zenon
<1>3. Passed(n) <= Len(tracked[n])
  BY <1>2, LengthArithmetic, Zenon DEF Passed
<1> QED BY <1>1, <1>2, <1>3, Zenon DEF IndInv, OffsetsGrow

\* What the shown offset covers has left the queue, and is finished.
LEMMA ShownFollows == IndInv => ShownIsAcknowledged
<1> SUFFICES ASSUME IndInv, NEW n \in Nodes, known[n],
                    NEW i \in 1..Len(tracked[n]), tracked[n][i] <= offset[n]
             PROVE  i \in finished[n]
  BY Zenon DEF ShownIsAcknowledged
<1>1. PICK p \in Nat : Passed(n) = p
  BY Ordering
<1>2. p > 0 /\ offset[n] = tracked[n][p] /\ 1..p \subseteq finished[n]
  BY <1>1, Zenon DEF IndInv, ShownIsLastPassed, PassedIsFinished
<1>3. Len(tracked[n]) \in Nat /\ p <= Len(tracked[n])
  BY <1>1, Ordering, Zenon
<1>4. p \in 1..Len(tracked[n])
  BY <1>2, <1>3
<1>5. ~(p < i)
  <2> SUFFICES ASSUME p < i PROVE FALSE
    OBVIOUS
  <2>1. tracked[n][p] < tracked[n][i] /\ tracked[n][i] <= tracked[n][p]
    BY <1>2, <1>4, Ordering, Zenon
  <2>2. tracked[n][p] \in Int /\ tracked[n][i] \in Int
    BY <1>4, Ordering, Zenon
  <2> QED BY <2>1, <2>2
<1>6. i \in 1..p
  BY <1>3, <1>5
<1> QED BY <1>2, <1>6, Zenon

\* A visible offset covers only acknowledged commands, whatever the order of the
\* callbacks.
THEOREM OnlyAcknowledgedIsShown == Spec => []ShownIsAcknowledged
BY Inductive, ShownFollows, PTL

\* A finished prefix has left the queue, because its head is pending.
LEMMA AcknowledgedFollows == IndInv => AcknowledgedIsShown
<1> SUFFICES ASSUME IndInv, NEW n \in Nodes, NEW i \in 1..Len(tracked[n]),
                    1..i \subseteq finished[n]
             PROVE  known[n] /\ tracked[n][i] <= offset[n]
  BY Zenon DEF AcknowledgedIsShown
<1>1. PICK p \in Nat : Passed(n) = p
  BY Ordering
<1>2. p + 1 \notin finished[n]
  BY <1>1, Zenon DEF IndInv, HeadIsPending
<1>3. Len(tracked[n]) \in Nat /\ p <= Len(tracked[n])
  BY <1>1, Ordering, Zenon
<1>4. i <= p
  <2>1. p + 1 \notin 1..i
    BY <1>2
  <2> QED BY <1>3, <2>1
<1>5. p > 0 /\ p \in 1..Len(tracked[n]) /\ (i = p \/ i < p)
  BY <1>3, <1>4
<1>6. known[n] /\ offset[n] = tracked[n][p]
  BY <1>1, <1>5, Zenon DEF IndInv, ShownIsLastPassed
<1>7. tracked[n][i] \in Int /\ tracked[n][p] \in Int
  BY <1>5, Ordering, Zenon
<1>8. i < p => tracked[n][i] < tracked[n][p]
  BY <1>5, Ordering, Zenon
<1>9. tracked[n][i] <= tracked[n][p]
  BY <1>5, <1>7, <1>8
<1> QED BY <1>6, <1>9, Zenon

\* Progress is never withheld: an acknowledged prefix is visible at once.
THEOREM AcknowledgedIsVisible == Spec => []AcknowledgedIsShown
BY Inductive, AcknowledgedFollows, PTL

\* A step moves the shown offset of a node forward or not at all.
LEMMA NoRegressionStep ==
    ASSUME IndInv, [Next]_vars, NEW n \in Nodes, known[n]
    PROVE  known'[n] /\ offset[n] <= offset'[n]
<1>0. offset[n] \in Int
  <2>1. offset[n] \in Offsets \cup {0}
    BY Zenon DEF IndInv, TypeOK
  <2>2. \A x \in Offsets \cup {0} : x \in Int
    BY OffsetsAssumption
  <2> QED BY <2>1, <2>2, Zenon
<1>1. CASE UNCHANGED <<known, offset>>
  BY <1>0, <1>1
<1>2. ASSUME NEW m \in Nodes, NEW i, Complete(m, i)
      PROVE  known'[n] /\ offset[n] <= offset'[n]
  <2>1. CASE m # n
    <3>1. known'[n] = known[n] /\ offset'[n] = offset[n]
      BY <1>2, <2>1, OtherNodes, Zenon
    <3> QED BY <1>0, <3>1
  <2>2. CASE m = n
    <3>1. PICK p \in Nat, k \in 0..Len(queue[n]) : Effect(n, i, p, k)
      BY <1>2, <2>2, CompleteEffect, Zenon
    <3>2. /\ known'[n] = (known[n] \/ k > 0)
          /\ offset'[n] = IF k = 0 THEN offset[n] ELSE tracked[n][p + k]
      BY <3>1 DEF Effect, IndInv, TypeOK
    <3>3. p > 0 /\ offset[n] = tracked[n][p]
      BY <3>1, Zenon DEF Effect, IndInv, ShownIsLastPassed
    <3>4. CASE k = 0
      <4>1. offset'[n] = offset[n] /\ known'[n]
        BY <3>2, <3>4, Zenon
      <4> QED BY <1>0, <4>1
    <3>5. CASE k # 0
      <4>1. Len(tracked[n]) = p + Len(queue[n])
        BY <3>1, Zenon DEF Effect
      <4>2. Len(queue[n]) \in Nat
        BY NodeFacts, Zenon
      <4>3. k \in Nat /\ k <= Len(queue[n]) /\ k > 0
        BY <3>5, <4>2
      <4>4. p \in 1..Len(tracked[n]) /\ p + k \in 1..Len(tracked[n]) /\ p < p + k
        <5>1. p > 0
          BY <3>3
        <5> QED BY <4>1, <4>2, <4>3, <5>1
      <4>5. tracked[n][p] < tracked[n][p + k] /\ tracked[n][p + k] \in Int
        BY <4>4, Ordering, Zenon
      <4>6. offset'[n] = tracked[n][p + k] /\ known'[n]
        BY <3>2, <3>5, Zenon
      <4>7. offset[n] < offset'[n] /\ offset'[n] \in Int
        BY <3>3, <4>5, <4>6, Zenon
      <4>8. offset[n] <= offset'[n]
        BY <1>0, <4>7
      <4> QED BY <4>6, <4>8, Zenon
    <3> QED BY <3>4, <3>5
  <2> QED BY <2>1, <2>2
<1>3. CASE UNCHANGED vars
  BY <1>1, <1>3, Zenon DEF vars
<1>4. CASE Next
  BY <1>1, <1>2, <1>4 DEF Next, Cancel, Reserve, Refuse, Register
<1> QED BY <1>3, <1>4

\* A visible offset is never withdrawn and never moves back.
THEOREM NoRegression == Spec => ShownNeverRegresses
<1>1. IndInv /\ [Next]_vars =>
        [\A n \in Nodes : known[n] => known'[n] /\ offset[n] <= offset'[n]]_vars
  BY NoRegressionStep
<1> QED BY <1>1, Inductive, PTL DEF Spec, ShownNeverRegresses

\* The tracker implements the longest-acknowledged-prefix specification.
THEOREM Refinement == Spec => ImplementsAckedProgress
<1>1. Init => Abstract!AInit
  BY DEF Init, Abstract!AInit, Passed
<1>2. IndInv /\ [Next]_vars => [Abstract!ANext]_(Abstract!avars)
  <2> SUFFICES ASSUME IndInv, [Next]_vars PROVE [Abstract!ANext]_(Abstract!avars)
    OBVIOUS
  <2>1. CASE UNCHANGED <<queue, tracked, finished>>
    BY <2>1 DEF Abstract!avars, Passed
  <2>2. ASSUME NEW n \in Nodes, NEW off \in Offsets, Grows(n, off), Register(n, off)
        PROVE  Abstract!ANext
    <3>2. tracked' = [tracked EXCEPT ![n] = Append(@, off)] /\ finished' = finished
      BY <2>2 DEF Register
    <3>3. ASSUME NEW m \in Nodes PROVE Passed(m)' = Passed(m)
      BY <2>2, RegisterKeepsPassed
    <3>4. [m \in Nodes |-> Passed(m)]' = [m \in Nodes |-> Passed(m)]
      BY <3>3, Zenon
    <3> QED BY <3>2, <3>4, Zenon DEF Abstract!ANext, Abstract!ARegister
  <2>3. ASSUME NEW n \in Nodes, NEW i \in 1..Len(tracked[n]), Complete(n, i)
        PROVE  Abstract!ANext
    <3>1. PICK p \in Nat, k \in 0..Len(queue[n]) : Effect(n, i, p, k)
      BY <2>3, CompleteEffect, Zenon
    <3>2. /\ i \in (1..Len(tracked[n])) \ finished[n]
          /\ finished' = [finished EXCEPT ![n] = @ \cup {i}]
          /\ 1..(p + k) \subseteq finished'[n] /\ p + k + 1 \notin finished'[n]
          /\ tracked' = tracked
      BY <3>1, Zenon DEF Effect
    <3>3. Passed(n) = p /\ Passed(n)' = p + k
      BY <3>1, Zenon DEF Effect
    <3>4. p + k \in p..Len(tracked[n])
      <4>1. Len(tracked[n]) = p + Len(queue[n])
        BY <3>1, Zenon DEF Effect
      <4>2. Len(queue[n]) \in Nat
        BY NodeFacts, Zenon
      <4> QED BY <4>1, <4>2
    <3>5. \A m \in Nodes \ {n} : Passed(m)' = Passed(m)
      BY <2>3, OtherNodes
    <3>6. [m \in Nodes |-> Passed(m)]' = [[m \in Nodes |-> Passed(m)] EXCEPT ![n] = p + k]
      BY <3>3, <3>5, Zenon
    <3>7. Abstract!AAcknowledge(n, i)
      BY <3>2, <3>3, <3>4, <3>6, Zenon DEF Abstract!AAcknowledge
    <3> QED BY <3>7, Zenon DEF Abstract!ANext
  <2>4. CASE UNCHANGED vars
    BY <2>1, <2>4, Zenon DEF vars
  <2>5. CASE Next
    <3>1. CASE Cancel
      BY <2>1, <3>1, Zenon DEF Cancel
    <3>2. ASSUME NEW n \in Nodes, Reserve(n) \/ Refuse(n)
          PROVE UNCHANGED <<queue, tracked, finished>>
      BY <3>2, Zenon DEF Reserve, Refuse
    <3> QED BY <2>1, <2>2, <2>3, <2>5, <3>1, <3>2, Zenon DEF Next
  <2> QED BY <2>4, <2>5
<1> QED BY <1>1, <1>2, Inductive, PTL DEF Spec, ImplementsAckedProgress, Abstract!ASpec
=============================================================================
