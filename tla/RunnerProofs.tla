---------------------------- MODULE RunnerProofs ----------------------------
(***************************************************************************)
(* Proofs about Runner, for any sets of tasks, connections, instances,     *)
(* runs and requests and any limit.                                        *)
(***************************************************************************)
EXTENDS Runner, FiniteSetTheorems, TLAPS

(***************************************************************************)
(* The inductive invariant.                                                *)
(***************************************************************************)
\* a.mu is held from the checks of startRun to the INSERT.
LockIsHeld == \A q \in Requests : req[q].pc \in {"checked", "spawned"} => mu = q

\* Nothing in memory survives the end of the runner.
DownIsEmpty ==
    ~ Serving => /\ active = {}
                 /\ \A r \in Runs : verdict[r] = "none"
                 /\ \A q \in Requests : req[q] = Idle

\* A row belongs to a process that was started; one that has been started and has no
\* row yet belongs to the request that holds the lock.
RowsHaveProcesses ==
    /\ \A r \in Runs : status[r] # "none" => child[r] # "none"
    /\ \A q \in Requests : req[q].pc = "spawned" =>
          status[req[q].run] = "none" /\ child[req[q].run] # "none"

\* An unfinished run of a runner that serves is watched, or its process is dead and its
\* watcher is about to write the verdict, or has failed to.
UnfinishedIsWatched ==
    /\ active \subseteq Unfinished
    /\ \A r \in Runs : verdict[r] # "none" => r \in Unfinished \ active /\ child[r] = "dead"
    /\ Serving => \A r \in Unfinished : r \in active \/ verdict[r] # "none"

\* The limit, with the place that startRun has found free.
LimitIsKept ==
    /\ IsFiniteSet(active) /\ Cardinality(active) <= MaxActive
    /\ \A q \in Requests : req[q].pc \in {"checked", "spawned"} => Cardinality(active) < MaxActive
    /\ IsFiniteSet(Recorded) /\ Cardinality(Recorded) <= MaxActive

CoreInv ==
    /\ TypeOK /\ LockIsHeld /\ DownIsEmpty /\ RowsHaveProcesses /\ UnfinishedIsWatched
    /\ EndedIsDead

IndInv == CoreInv /\ LimitIsKept
-----------------------------------------------------------------------------
(***************************************************************************)
(* The core of the invariant: who holds the lock, which runs are watched.  *)
(***************************************************************************)
LEMMA InitCore == Init => CoreInv
BY StoreAssumption, NonEmptyAssumption
   DEF Init, CoreInv, TypeOK, LockIsHeld, DownIsEmpty, RowsHaveProcesses, UnfinishedIsWatched,
       EndedIsDead, Serving, Unfinished, Alive, Idle, Request

\* Every handler, goroutine and crash keeps the bookkeeping of runs and requests.
LEMMA CoreStep == CoreInv /\ [Next]_vars => CoreInv'
<1> SUFFICES ASSUME CoreInv, [Next]_vars PROVE CoreInv'
  OBVIOUS
<1> USE NamesAssumption
    DEF CoreInv, TypeOK, LockIsHeld, DownIsEmpty, RowsHaveProcesses, UnfinishedIsWatched,
        EndedIsDead, Serving, Unfinished, Alive, Idle, Request, store, rows, memory, processes
<1>1. ASSUME NEW q \in Requests, NEW t \in Tasks, StartTask(q, t) PROVE CoreInv'
  BY <1>1 DEF StartTask
<1>2. ASSUME NEW q \in Requests, Check(q) PROVE CoreInv'
  BY <1>2 DEF Check
<1>3. ASSUME NEW q \in Requests, GiveUp(q) PROVE CoreInv'
  BY <1>3 DEF GiveUp
<1>4. ASSUME NEW q \in Requests, Record(q) PROVE CoreInv'
  BY <1>4 DEF Record
<1>5. ASSUME NEW q \in Requests, RecordError(q) PROVE CoreInv'
  BY <1>5 DEF RecordError
<1>6. ASSUME NEW q \in Requests, NEW r \in Runs, Spawn(q, r) PROVE CoreInv'
  BY <1>6 DEF Spawn
<1>7. ASSUME NEW r \in Runs, StopRun(r) PROVE CoreInv'
  BY <1>7 DEF StopRun, Interrupted
<1>8. ASSUME NEW r \in Runs, KillTimer(r) PROVE CoreInv'
  BY <1>8 DEF KillTimer
<1>9. ASSUME NEW r \in Runs, WatchReap(r) PROVE CoreInv'
  BY <1>9 DEF WatchReap
<1>10. ASSUME NEW r \in Runs, WatchUpdate(r) PROVE CoreInv'
  BY <1>10 DEF WatchUpdate, Deciding
<1>10a. ASSUME NEW r \in Runs, WatchUpdateError(r) PROVE CoreInv'
  BY <1>10a DEF WatchUpdateError, Deciding
<1>11. ASSUME NEW r \in Runs, ChildEnds(r) PROVE CoreInv'
  BY <1>11 DEF ChildEnds
<1>12. ASSUME NEW c \in Conns, NEW i \in Instances, UpdateConnection(c, i) PROVE CoreInv'
  BY <1>12 DEF UpdateConnection
<1>13. ASSUME NEW t \in Tasks, DeleteTaskCheck(t) PROVE CoreInv'
  BY <1>13 DEF DeleteTaskCheck
<1>14. ASSUME DeleteTask PROVE CoreInv'
  BY <1>14 DEF DeleteTask
<1>15. ASSUME Shutdown PROVE CoreInv'
  BY <1>15 DEF Shutdown, Interrupted
<1>16. ASSUME Exit PROVE CoreInv'
  BY <1>16 DEF Exit, Gone
<1>17. ASSUME Crash PROVE CoreInv'
  BY <1>17 DEF Crash, Gone
<1>18. ASSUME Boot PROVE CoreInv'
  BY <1>18 DEF Boot
<1>19. CASE UNCHANGED vars
  BY <1>19 DEF vars
<1> QED
  BY <1>1, <1>2, <1>3, <1>4, <1>5, <1>6, <1>7, <1>8, <1>9, <1>10, <1>10a, <1>11, <1>12, <1>13, <1>14, <1>15, <1>16, <1>17, <1>18, <1>19 DEF Next

-----------------------------------------------------------------------------
(***************************************************************************)
(* The limit.  Only the INSERT makes a recorded process; all other steps   *)
(* keep or shrink the sets that are counted.                               *)
(***************************************************************************)
LEMMA SubsetOfLimited ==
    ASSUME NEW S, NEW T \in SUBSET S, IsFiniteSet(S)
    PROVE  /\ IsFiniteSet(T) /\ Cardinality(T) \in Nat /\ Cardinality(S) \in Nat
           /\ Cardinality(T) <= Cardinality(S)
BY FS_Subset, FS_CardinalityType

Shrinks ==
    /\ Recorded' \subseteq Recorded
    /\ active' \subseteq active
    /\ \A q \in Requests : req'[q].pc \in {"checked", "spawned"} => Cardinality(active) < MaxActive

\* Fewer live runs and reservations keep the limit.
LEMMA ShrinkingKeepsLimit ==
    ASSUME LimitIsKept, Shrinks PROVE LimitIsKept'
<1>1. /\ IsFiniteSet(active') /\ Cardinality(active') \in Nat
      /\ Cardinality(active) \in Nat /\ Cardinality(active') <= Cardinality(active)
  BY SubsetOfLimited DEF LimitIsKept, Shrinks
<1>2. /\ IsFiniteSet(Recorded') /\ Cardinality(Recorded') \in Nat
      /\ Cardinality(Recorded) \in Nat /\ Cardinality(Recorded') <= Cardinality(Recorded)
  BY SubsetOfLimited DEF LimitIsKept, Shrinks
<1> QED
  BY <1>1, <1>2, MaxActiveAssumption DEF LimitIsKept, Shrinks

\* While the runner serves, every process in the table is watched.
LEMMA RecordedIsActive == ASSUME CoreInv, Serving PROVE Recorded \subseteq active
BY DEF CoreInv, TypeOK, UnfinishedIsWatched, EndedIsDead, Recorded, Unfinished, Alive

\* A reservation that turns into a run does not count twice.
LEMMA RecordKeepsLimit ==
    ASSUME CoreInv, LimitIsKept, NEW q \in Requests, Record(q), CoreInv' PROVE LimitIsKept'
<1> DEFINE r == req[q].run
<1>1. r \in Runs /\ active' = active \cup {r} /\ Cardinality(active) < MaxActive
  BY DEF Record, CoreInv, TypeOK, Request, Idle, LimitIsKept
<1>2. \A p \in Requests : req'[p].pc \notin {"checked", "spawned"}
  BY DEF Record, CoreInv, TypeOK, LockIsHeld, Request, Idle
<1>3. /\ IsFiniteSet(active') /\ Cardinality(active') \in Nat
      /\ Cardinality(active') <= MaxActive
  <2>1. IsFiniteSet(active) /\ Cardinality(active) \in Nat
    BY FS_CardinalityType DEF LimitIsKept
  <2>2. /\ IsFiniteSet(active \cup {r})
        /\ \/ Cardinality(active \cup {r}) = Cardinality(active)
           \/ Cardinality(active \cup {r}) = Cardinality(active) + 1
    BY <2>1, FS_AddElement
  <2> QED
    BY <1>1, <2>1, <2>2, MaxActiveAssumption
<1>4. Recorded' \subseteq active'
  <2>1. Serving'
    BY DEF Record, Serving
  <2> QED
    BY <2>1 DEF CoreInv, TypeOK, UnfinishedIsWatched, EndedIsDead, Recorded, Unfinished, Alive
<1>5. /\ IsFiniteSet(Recorded') /\ Cardinality(Recorded') \in Nat
      /\ Cardinality(Recorded') <= Cardinality(active')
  BY <1>3, <1>4, SubsetOfLimited
<1> QED
  BY <1>2, <1>3, <1>5, MaxActiveAssumption DEF LimitIsKept

\* No run is live when the runner starts.
LEMMA InitLimit == Init => LimitIsKept
<1> SUFFICES ASSUME Init PROVE LimitIsKept
  OBVIOUS
<1>1. active = {} /\ Recorded = {} /\ \A q \in Requests : req[q].pc = "idle"
  BY DEF Init, Recorded, Alive, Idle
<1> QED
  BY <1>1, FS_EmptySet, MaxActiveAssumption DEF LimitIsKept

\* Every step of the runner keeps the whole invariant.
LEMMA LimitStep == IndInv /\ [Next]_vars => IndInv'
<1> SUFFICES ASSUME IndInv, [Next]_vars PROVE IndInv'
  OBVIOUS
<1>core. CoreInv /\ CoreInv' /\ LimitIsKept
  BY CoreStep DEF IndInv
<1>rec. ASSUME NEW q \in Requests, Record(q) PROVE LimitIsKept'
  BY <1>core, <1>rec, RecordKeepsLimit
<1>rest. ASSUME ~ \E q \in Requests : Record(q) PROVE Shrinks
  <2> USE <1>core DEF CoreInv, TypeOK, RowsHaveProcesses, UnfinishedIsWatched, DownIsEmpty, LimitIsKept, Shrinks,
          Recorded, Alive, Unfinished, Serving, Request, Idle, store, rows, memory, processes
  <2>1. ASSUME NEW q \in Requests, NEW t \in Tasks, StartTask(q, t) PROVE Shrinks
    BY <2>1 DEF StartTask
  <2>2. ASSUME NEW q \in Requests, Check(q) PROVE Shrinks
    BY <2>2 DEF Check
  <2>3. ASSUME NEW q \in Requests, GiveUp(q) PROVE Shrinks
    BY <2>3 DEF GiveUp
  <2>4. ASSUME NEW q \in Requests, RecordError(q) PROVE Shrinks
    BY <2>4 DEF RecordError
  <2>5. ASSUME NEW q \in Requests, NEW r \in Runs, Spawn(q, r) PROVE Shrinks
    BY <2>5 DEF Spawn
  <2>6. ASSUME NEW r \in Runs, StopRun(r) PROVE Shrinks
    BY <2>6 DEF StopRun, Interrupted
  <2>7. ASSUME NEW r \in Runs, KillTimer(r) PROVE Shrinks
    BY <2>7 DEF KillTimer
  <2>8. ASSUME NEW r \in Runs, WatchReap(r) PROVE Shrinks
    BY <2>8 DEF WatchReap
  <2>9. ASSUME NEW r \in Runs, WatchUpdate(r) PROVE Shrinks
    BY <2>9 DEF WatchUpdate, Deciding
  <2>9a. ASSUME NEW r \in Runs, WatchUpdateError(r) PROVE Shrinks
    BY <2>9a DEF WatchUpdateError, Deciding
  <2>10. ASSUME NEW r \in Runs, ChildEnds(r) PROVE Shrinks
    BY <2>10 DEF ChildEnds
  <2>11. ASSUME NEW c \in Conns, NEW i \in Instances, UpdateConnection(c, i) PROVE Shrinks
    BY <2>11 DEF UpdateConnection
  <2>12. ASSUME NEW t \in Tasks, DeleteTaskCheck(t) PROVE Shrinks
    BY <2>12 DEF DeleteTaskCheck
  <2>13. ASSUME DeleteTask PROVE Shrinks
    BY <2>13 DEF DeleteTask
  <2>14. ASSUME Shutdown PROVE Shrinks
    BY <2>14 DEF Shutdown, Interrupted
  <2>15. ASSUME Exit PROVE Shrinks
    BY <2>15 DEF Exit, Gone
  <2>16. ASSUME Crash PROVE Shrinks
    BY <2>16 DEF Crash, Gone
  <2>17. ASSUME Boot PROVE Shrinks
    BY <2>17 DEF Boot
  <2>18. CASE UNCHANGED vars
    BY <2>18 DEF vars
  <2> QED
    BY <1>rest, <2>1, <2>2, <2>3, <2>4, <2>5, <2>6, <2>7, <2>8, <2>9, <2>9a, <2>10, <2>11, <2>12, <2>13, <2>14, <2>15, <2>16, <2>17, <2>18 DEF Next
<1> QED
  BY <1>core, <1>rec, <1>rest, ShrinkingKeepsLimit DEF IndInv

\* The invariant of the runner holds through starts, stops, crashes and restarts.
THEOREM Invariance == Spec => []IndInv
<1>1. Init => IndInv
  BY InitCore, InitLimit DEF IndInv
<1> QED
  BY <1>1, LimitStep, PTL DEF Spec

\* Every variable of the runner keeps its type.
THEOREM Typing == Spec => []TypeOK
<1>1. IndInv => TypeOK
  BY DEF IndInv, CoreInv
<1> QED
  BY <1>1, Invariance, PTL

\* A run that is shown as ended has no process: neither watchRun nor a restart after a
\* crash ends a row before its process is gone.
THEOREM EndedRunsAreDead == Spec => []EndedIsDead
<1>1. IndInv => EndedIsDead
  BY DEF IndInv, CoreInv
<1> QED
  BY <1>1, Invariance, PTL

\* A process that a request has started takes the place that startRun found free under
\* the lock, so it may be counted together with the recorded ones.
LEMMA StartedFitsLimit ==
    ASSUME IndInv, NEW q \in Requests, req[q].pc = "spawned" PROVE Cardinality(Owned) <= MaxActive
<1> DEFINE r == req[q].run
<1>1. IsFiniteSet(active) /\ Cardinality(active) \in Nat /\ Cardinality(active) < MaxActive
  BY FS_CardinalityType DEF IndInv, LimitIsKept
<1>2. Recorded \subseteq active
  <2>1. Serving
    BY DEF IndInv, CoreInv, DownIsEmpty, Idle
  <2> QED
    BY <2>1, RecordedIsActive DEF IndInv
<1>3. \A p \in Requests : req[p].pc = "spawned" => p = q
  BY DEF IndInv, CoreInv, LockIsHeld
<1>4. Owned \subseteq active \cup {r}
  BY <1>2, <1>3 DEF Owned
<1>5. /\ IsFiniteSet(active \cup {r}) /\ Cardinality(active \cup {r}) \in Nat
      /\ Cardinality(active \cup {r}) <= MaxActive
  <2>1. /\ IsFiniteSet(active \cup {r})
        /\ \/ Cardinality(active \cup {r}) = Cardinality(active)
           \/ Cardinality(active \cup {r}) = Cardinality(active) + 1
    BY <1>1, FS_AddElement
  <2> QED
    BY <1>1, <2>1, MaxActiveAssumption
<1>6. Cardinality(Owned) \in Nat /\ Cardinality(Owned) <= Cardinality(active \cup {r})
  BY <1>4, <1>5, SubsetOfLimited
<1> QED
  BY <1>5, <1>6, MaxActiveAssumption

\* The processes that have a row or are about to get one are at most MaxActive, however
\* many requests start together and whatever crashes.  (A process whose start was cut off
\* by a crash before the INSERT is not among them: see OneProcessPerTask.)
THEOREM LimitHolds == Spec => []ConcurrencyLimit
<1>1. IndInv => ConcurrencyLimit
  <2> SUFFICES ASSUME IndInv PROVE ConcurrencyLimit
    OBVIOUS
  <2>1. CASE \E q \in Requests : req[q].pc = "spawned"
    BY <2>1, StartedFitsLimit DEF ConcurrencyLimit
  <2>2. CASE \A q \in Requests : req[q].pc # "spawned"
    <3>1. Owned = Recorded
      BY <2>2 DEF Owned
    <3> QED
      BY <3>1 DEF IndInv, LimitIsKept, ConcurrencyLimit
  <2> QED
    BY <2>1, <2>2
<1> QED
  BY <1>1, Invariance, PTL

-----------------------------------------------------------------------------
(***************************************************************************)
(* The runs table.                                                         *)
(***************************************************************************)
LEMMA HistoryStep == ASSUME CoreInv, CoreInv', [Next]_vars PROVE [History!HNext]_<<status, taskOf>>
<1> USE DEF CoreInv, TypeOK
<1>1. CASE UNCHANGED <<status, taskOf>>
  BY <1>1
<1>2. ASSUME taskOf' \in [Runs -> Tasks], \A r \in Runs : status[r] # "none" => taskOf'[r] = taskOf[r],
             \E r \in Runs : History!HInsert(r) \/ History!HStopping(r)
                             \/ History!HEnd({r})
      PROVE  History!HNext
  BY <1>2 DEF History!HNext
<1>3. ASSUME NEW q \in Requests, Record(q) PROVE History!HNext
  <2>1. req[q].run \in Runs /\ status[req[q].run] = "none"
    BY <1>3 DEF Record, Request, Idle, RowsHaveProcesses
  <2>2. History!HInsert(req[q].run) /\ taskOf' = taskOf
    BY <1>3, <2>1 DEF Record, History!HInsert, History!HActive, activeRun, Unfinished
  <2> QED
    BY <1>2, <2>1, <2>2
<1>4. ASSUME NEW q \in Requests, NEW r \in Runs, Spawn(q, r) PROVE History!HNext
  <2>1. status[r] = "none" /\ status' = status
    BY <1>4 DEF Spawn, RowsHaveProcesses
  <2>2. \A s \in Runs : status[s] # "none" => taskOf'[s] = taskOf[s]
    BY <1>4, <2>1 DEF Spawn
  <2>3. {} \in SUBSET Runs /\ History!HEnd({})
    BY <2>1 DEF History!HEnd, History!HActive
  <2> QED
    BY <2>2, <2>3 DEF History!HNext
<1>5. ASSUME NEW r \in Runs, StopRun(r), status' # status PROVE History!HNext
  <2>1. History!HStopping(r) /\ taskOf' = taskOf
    BY <1>5 DEF StopRun, History!HStopping, History!HActive, UnfinishedIsWatched, Unfinished
  <2> QED
    BY <1>2, <2>1
<1>6. ASSUME NEW r \in Runs, WatchUpdate(r) PROVE History!HNext
  <2>1. r \in Unfinished /\ verdict[r] \in {"STOPPED", "FAILED"} /\ taskOf' = taskOf
    BY <1>6 DEF WatchUpdate, Deciding, UnfinishedIsWatched
  <2>2. History!HEnd({r})
    BY <1>6, <2>1, ZenonT(60) DEF WatchUpdate, History!HEnd, History!HActive, Unfinished
  <2> QED
    BY <1>2, <2>1, <2>2
<1>7. ASSUME Boot PROVE History!HNext
  <2>1. Unfinished \in SUBSET Runs /\ History!HEnd(Unfinished)
    BY <1>7 DEF Boot, History!HEnd, History!HActive, Unfinished
  <2> QED
    BY <1>7, <2>1 DEF Boot, History!HNext
<1> QED
  BY <1>1, <1>3, <1>4, <1>5, <1>6, <1>7
     DEF Next, vars, store, rows, memory, processes, StartTask, Check, GiveUp, RecordError, KillTimer,
         WatchReap, StopRun, WatchUpdateError, ChildEnds, UpdateConnection, DeleteTaskCheck, DeleteTask, Shutdown, Exit, Crash, Gone

\* The runner implements the runs table of RunHistory: one unfinished run per task, a
\* run that has ended is never touched again, whatever stops, watchers, crashes and
\* restarts race.
THEOREM RunnerImplementsRunHistory == Spec => ImplementsRunHistory
<1>1. Init => History!HInit
  BY NonEmptyAssumption DEF Init, History!HInit
<1>2. IndInv /\ [Next]_vars => [History!HNext]_<<status, taskOf>>
  BY CoreStep, HistoryStep DEF IndInv
<1> QED
  BY <1>1, <1>2, Invariance, PTL DEF Spec, ImplementsRunHistory, History!HSpec, History!hvars

-----------------------------------------------------------------------------
(***************************************************************************)
(* One writer per instance.                                                *)
(***************************************************************************)
\* As long as connections are not edited, a task leads to its instance for ever.
StoreIsStable ==
    /\ conns = Leads
    /\ \A t \in Tasks : tasks[t] \in {Target[t], NoTask}
    /\ \A q \in Requests : req[q].pc \in {"preflight", "checked"} =>
          req[q].inst = Leads[Target[req[q].task]]
    /\ \A r \in Runs : child[r] # "none" => writesTo[r] = Leads[Target[taskOf[r]]]

\* Unfinished runs of tasks that have not been deleted.
Kept == {r \in Unfinished : tasks[taskOf[r]] # NoTask}

\* Unfinished runs write to different instances, and to none that startRun has found
\* free for the process it starts under the lock.
TargetsAreSeparate ==
    /\ \A r, s \in Kept : writesTo[r] = writesTo[s] => r = s
    /\ \A q \in Requests : \A s \in Kept :
          /\ req[q].pc = "checked" => writesTo[s] # req[q].inst
          /\ req[q].pc = "spawned" => writesTo[s] # writesTo[req[q].run]

\* Tasks that keep their targets keep them apart.
LEMMA SeparateStep ==
    ASSUME Editable = {}, CoreInv, StoreIsStable, TargetsAreSeparate, [Next]_vars
    PROVE  StoreIsStable' /\ TargetsAreSeparate'
<1> DEFINE Goal == StoreIsStable' /\ TargetsAreSeparate'
<1> USE NamesAssumption, StoreAssumption
    DEF CoreInv, TypeOK, LockIsHeld, DownIsEmpty, RowsHaveProcesses, UnfinishedIsWatched,
        StoreIsStable, TargetsAreSeparate, Kept, Serving, Unfinished, Alive, Idle, Request,
        store, rows, memory, processes
<1>1. ASSUME NEW q \in Requests, NEW t \in Tasks, StartTask(q, t) PROVE Goal
  BY <1>1 DEF StartTask
<1>2. ASSUME NEW q \in Requests, Check(q) PROVE Goal
  BY <1>2 DEF Check, targetBusy, activeRun
<1>3. ASSUME NEW q \in Requests, GiveUp(q) PROVE Goal
  BY <1>3 DEF GiveUp
<1>4. ASSUME NEW q \in Requests, Record(q) PROVE Goal
  BY <1>4 DEF Record
<1>5. ASSUME NEW q \in Requests, RecordError(q) PROVE Goal
  BY <1>5 DEF RecordError
<1>6. ASSUME NEW q \in Requests, NEW r \in Runs, Spawn(q, r) PROVE Goal
  BY <1>6 DEF Spawn
<1>7. ASSUME NEW r \in Runs, StopRun(r) PROVE Goal
  BY <1>7 DEF StopRun, Interrupted
<1>8. ASSUME NEW r \in Runs, KillTimer(r) PROVE Goal
  BY <1>8 DEF KillTimer
<1>9. ASSUME NEW r \in Runs, WatchReap(r) PROVE Goal
  BY <1>9 DEF WatchReap
<1>10. ASSUME NEW r \in Runs, WatchUpdate(r) PROVE Goal
  BY <1>10 DEF WatchUpdate, Deciding
<1>10a. ASSUME NEW r \in Runs, WatchUpdateError(r) PROVE Goal
  BY <1>10a DEF WatchUpdateError, Deciding
<1>11. ASSUME NEW r \in Runs, ChildEnds(r) PROVE Goal
  BY <1>11 DEF ChildEnds
<1>12. ASSUME NEW c \in Conns, NEW i \in Instances, UpdateConnection(c, i) PROVE Goal
  BY <1>12 DEF UpdateConnection
<1>13. ASSUME NEW t \in Tasks, DeleteTaskCheck(t) PROVE Goal
  BY <1>13 DEF DeleteTaskCheck
<1>14. ASSUME DeleteTask PROVE Goal
  BY <1>14 DEF DeleteTask
<1>15. ASSUME Shutdown PROVE Goal
  BY <1>15 DEF Shutdown, Interrupted
<1>16. ASSUME Exit PROVE Goal
  BY <1>16 DEF Exit, Gone
<1>17. ASSUME Crash PROVE Goal
  BY <1>17 DEF Crash, Gone
<1>18. ASSUME Boot PROVE Goal
  BY <1>18 DEF Boot
<1>19. CASE UNCHANGED vars
  BY <1>19 DEF vars
<1> QED
  BY <1>1, <1>2, <1>3, <1>4, <1>5, <1>6, <1>7, <1>8, <1>9, <1>10, <1>10a, <1>11, <1>12, <1>13, <1>14, <1>15, <1>16, <1>17, <1>18, <1>19 DEF Next

\* Two runs never write to one instance at the same time if connections are not edited
\* and their tasks are kept: the check of targetBusy stays true until the INSERT.
THEOREM TargetsAreExclusive == ASSUME Editable = {} PROVE Spec => []ExclusiveTargetOfKept
<1>1. Init => StoreIsStable /\ TargetsAreSeparate
  BY StoreAssumption DEF Init, StoreIsStable, TargetsAreSeparate, Kept, Unfinished, Idle
<1>2. IndInv /\ StoreIsStable /\ TargetsAreSeparate /\ [Next]_vars => (StoreIsStable /\ TargetsAreSeparate)'
  BY SeparateStep DEF IndInv
<1>3. IndInv /\ TargetsAreSeparate => ExclusiveTargetOfKept
  BY DEF IndInv, CoreInv, TypeOK, EndedIsDead, TargetsAreSeparate, Kept, ExclusiveTargetOfKept,
         Recorded, Unfinished, Alive
<1> QED
  BY <1>1, <1>2, <1>3, Invariance, PTL DEF Spec

=============================================================================
