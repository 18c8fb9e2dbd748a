--------------------------- MODULE OffsetTracker ---------------------------
(***************************************************************************)
(* progress.Tracker of internal/progress/offsets.go: for every source node *)
(* a queue of commands that were handed to the target and are not yet      *)
(* acknowledged, the offset that may be shown to the user, and one window  *)
(* of Limit slots shared by all nodes.                                     *)
(*                                                                         *)
(* Track has two atomic parts: taking a slot from the channel, and pushing *)
(* the pending record under the mutex.  One consumer goroutine per node    *)
(* calls it (kernel/run.go), with that node's offsets in source order.     *)
(* The callback it returns runs under the same mutex, at most once, on any *)
(* goroutine and in any order.                                             *)
(***************************************************************************)
EXTENDS Integers, Sequences, FiniteSets

CONSTANTS Nodes,    \* source nodes
          Offsets,  \* replication offsets
          Limit     \* capacity of the slots channel

ASSUME OffsetsAssumption == Offsets \subseteq Int
ASSUME LimitAssumption == Limit \in Nat \ {0}

VARIABLES
    queue,      \* source.queue: the pending records not yet passed, by number
    tracked,    \* tracked[n][i]: offset field of the i-th pending record of n
    finished,   \* finished[n]: the pending records of n whose done flag is set
    offset,     \* source.offset, meaningful when known
    known,      \* source.known
    slots,      \* number of elements in the slots channel
    caller,     \* the node's Track call: "idle", "reserved", "refused"
    cancelled   \* ctx.Done() of the task is closed

vars == <<queue, tracked, finished, offset, known, slots, caller, cancelled>>

\* Number of registered commands that already left the queue.
Passed(n) == Len(tracked[n]) - Len(queue[n])

TypeOK ==
    /\ queue \in [Nodes -> Seq(Nat)]
    /\ offset \in [Nodes -> Offsets \cup {0}]
    /\ known \in [Nodes -> BOOLEAN]
    /\ slots \in Nat
    /\ caller \in [Nodes -> {"idle", "reserved", "refused"}]
    /\ cancelled \in BOOLEAN
    /\ tracked \in [Nodes -> Seq(Offsets)]
    /\ finished \in [Nodes -> SUBSET Nat]

Init ==
    /\ queue = [n \in Nodes |-> <<>>]
    /\ offset = [n \in Nodes |-> 0]
    /\ known = [n \in Nodes |-> FALSE]
    /\ slots = 0
    /\ caller = [n \in Nodes |-> "idle"]
    /\ cancelled = FALSE
    /\ tracked = [n \in Nodes |-> <<>>]
    /\ finished = [n \in Nodes |-> {}]

(***************************************************************************)
(* Track.  When a slot is free and the context is cancelled the select     *)
(* statement may take either branch, so both actions are enabled.          *)
(***************************************************************************)
Reserve(n) ==
    /\ caller[n] = "idle"
    /\ slots < Limit
    /\ slots' = slots + 1
    /\ caller' = [caller EXCEPT ![n] = "reserved"]
    /\ UNCHANGED <<queue, offset, known, cancelled, tracked, finished>>

\* Track returns ctx.Err(); the consumer of the node then discards the rest of
\* its channel and never calls Track again.
Refuse(n) ==
    /\ caller[n] = "idle"
    /\ cancelled
    /\ caller' = [caller EXCEPT ![n] = "refused"]
    /\ UNCHANGED <<queue, offset, known, slots, cancelled, tracked, finished>>

Register(n, off) ==
    /\ caller[n] = "reserved"
    /\ queue' = [queue EXCEPT ![n] = Append(@, Len(tracked[n]) + 1)]
    /\ caller' = [caller EXCEPT ![n] = "idle"]
    /\ tracked' = [tracked EXCEPT ![n] = Append(@, off)]
    /\ UNCHANGED <<offset, known, slots, cancelled, finished>>

(***************************************************************************)
(* The callback of the i-th pending record of n.  once.Do makes a repeated *)
(* call a no-op.  The loop pops while the head is done; k is how many      *)
(* records that is.                                                        *)
(***************************************************************************)
DonePrefix(n, k) == \A j \in 1..k : queue[n][j] \in finished'[n]

Popped(n, k, freed) ==
    /\ queue' = [queue EXCEPT ![n] = SubSeq(@, k + 1, Len(@))]
    /\ offset' = [offset EXCEPT ![n] = IF k = 0 THEN @ ELSE tracked[n][queue[n][k]]]
    /\ known' = [known EXCEPT ![n] = @ \/ k > 0]
    /\ slots' = slots - freed

\* Fault: one record is popped per callback (if instead of for).
PopOne(n) ==
    LET k == IF queue[n][1] \in finished'[n] THEN 1 ELSE 0 IN Popped(n, k, k)

\* Fault: one slot is freed per callback instead of one per popped record.
PopFreeingOne(n) ==
    \E k \in 0..Len(queue[n]) :
        /\ DonePrefix(n, k)
        /\ k < Len(queue[n]) => queue[n][k + 1] \notin finished'[n]
        /\ Popped(n, k, IF k = 0 THEN 0 ELSE 1)

\* Fault: the callback frees its own slot in addition to the loop.
PopFreeingTwice(n) ==
    \E k \in 0..Len(queue[n]) :
        /\ DonePrefix(n, k)
        /\ k < Len(queue[n]) => queue[n][k + 1] \notin finished'[n]
        /\ Popped(n, k, k + 1)

Pop(n) ==
    \E k \in 0..Len(queue[n]) :
        /\ DonePrefix(n, k)
        /\ k < Len(queue[n]) => queue[n][k + 1] \notin finished'[n]
        /\ Popped(n, k, k)

\* Fault: the callback shows its own offset and removes its own record.
CompleteAlone(n, i) ==
    /\ i \in (1..Len(tracked[n])) \ finished[n]
    /\ finished' = [finished EXCEPT ![n] = @ \cup {i}]
    /\ queue' = [queue EXCEPT ![n] = SelectSeq(@, LAMBDA p : p # i)]
    /\ offset' = [offset EXCEPT ![n] = tracked[n][i]]
    /\ known' = [known EXCEPT ![n] = TRUE]
    /\ slots' = slots - 1
    /\ UNCHANGED <<caller, cancelled, tracked>>

Complete(n, i) ==
    /\ i \in (1..Len(tracked[n])) \ finished[n]
    /\ finished' = [finished EXCEPT ![n] = @ \cup {i}]
    /\ Pop(n)
    /\ UNCHANGED <<caller, cancelled, tracked>>

\* The stop signal, or the end of the runner-liveness pipe.
Cancel ==
    /\ ~ cancelled
    /\ cancelled' = TRUE
    /\ UNCHANGED <<queue, offset, known, slots, caller, tracked, finished>>

\* The reader sends the offset behind each command: they grow along a stream.
Grows(n, off) == \A i \in 1..Len(tracked[n]) : tracked[n][i] < off

Next ==
    \/ Cancel
    \/ \E n \in Nodes :
          \/ Reserve(n)
          \/ Refuse(n)
          \/ \E off \in Offsets : Grows(n, off) /\ Register(n, off)
          \/ \E i \in 1..Len(tracked[n]) : Complete(n, i)

Spec == Init /\ [][Next]_vars
-----------------------------------------------------------------------------
(***************************************************************************)
(* Properties.                                                             *)
(***************************************************************************)

\* The offset shown for a node never covers a command the target has not
\* acknowledged, although shards answer in any order (the head-of-queue loop
\* of the Track callback).
ShownIsAcknowledged ==
    \A n \in Nodes : known[n] =>
        \A i \in 1..Len(tracked[n]) : tracked[n][i] <= offset[n] => i \in finished[n]

\* The offset shown for a node never stays behind: when every command up to the
\* i-th is acknowledged, offset i is visible (one late callback releases every
\* command queued behind it).
AcknowledgedIsShown ==
    \A n \in Nodes : \A i \in 1..Len(tracked[n]) :
        1..i \subseteq finished[n] => known[n] /\ tracked[n][i] <= offset[n]

\* Each element of the slots channel belongs to one command in a queue or to a
\* Track call that is about to queue one: no slot is lost or freed twice, so
\* the window neither shrinks nor grows over time.
Claimed(n) == Len(tracked[n]) + IF caller[n] = "reserved" THEN 1 ELSE 0
InFlight == UNION {{n} \X ((Passed(n) + 1)..Claimed(n)) : n \in Nodes}
WindowIsExact == slots = Cardinality(InFlight) /\ slots <= Limit

\* A visible position never disappears and never moves back.
ShownNeverRegresses ==
    [][\A n \in Nodes : known[n] => known'[n] /\ offset[n] <= offset'[n]]_vars

(***************************************************************************)
(* The inductive invariant of the proofs: the queue is the suffix of the   *)
(* pending records behind Passed(n), its head is not done, every record    *)
(* before it is, and the shown offset is the one just before the head.     *)
(***************************************************************************)
QueueIsSuffix ==
    \A n \in Nodes :
        /\ Len(queue[n]) <= Len(tracked[n])
        /\ \A i \in 1..Len(queue[n]) : queue[n][i] = Passed(n) + i
HeadIsPending == \A n \in Nodes : Passed(n) + 1 \notin finished[n]
PassedIsFinished ==
    \A n \in Nodes : /\ finished[n] \subseteq 1..Len(tracked[n])
                     /\ 1..Passed(n) \subseteq finished[n]
ShownIsLastPassed ==
    \A n \in Nodes : /\ known[n] <=> Passed(n) > 0
                     /\ known[n] => offset[n] = tracked[n][Passed(n)]
OffsetsGrow ==
    \A n \in Nodes : \A i, j \in 1..Len(tracked[n]) :
        i < j => tracked[n][i] < tracked[n][j]
IndInv ==
    /\ TypeOK
    /\ QueueIsSuffix
    /\ HeadIsPending
    /\ PassedIsFinished
    /\ ShownIsLastPassed
    /\ OffsetsGrow
    /\ WindowIsExact /\ IsFiniteSet(InFlight)

\* The queue implements the longest acknowledged prefix.
Abstract == INSTANCE AckedProgress
    WITH log <- tracked, acked <- finished,
         position <- [n \in Nodes |-> Passed(n)]
ImplementsAckedProgress == Abstract!ASpec
=============================================================================
