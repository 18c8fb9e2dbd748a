------------------------------- MODULE Runner -------------------------------
(***************************************************************************)
(* The resident runner (cmd/redisshakeweb/runner.go, api.go, store.go):    *)
(* HTTP handlers start and stop runs, one task process per run, a watcher  *)
(* goroutine per run records its end, SQLite keeps tasks, connections and  *)
(* runs.  The runner can be shut down or crash; its children notice the    *)
(* end of the liveness pipe and leave within 15 s (kernel/run.go).         *)
(*                                                                         *)
(* startTask reads the task and its connections, runs the preflight        *)
(* without any lock, and calls startRun, which holds a.mu from its checks  *)
(* to the INSERT.  Connections are abstracted to the instance they lead    *)
(* to: targetBusy compares addresses and the run_id values of the          *)
(* servers.                                                                *)
(***************************************************************************)
EXTENDS Integers, FiniteSets

CONSTANTS Tasks, Conns, Instances,
          Runs,        \* run ids
          Requests,    \* concurrent start requests
          MaxActive,   \* the limit of 5 active runs
          Target,      \* target connection of the tasks at the beginning
          Leads,       \* the instance each connection leads to at the beginning
          Editable,    \* bound: connections users edit
          Deletable    \* bound: tasks users delete

CONSTANTS NoTask, Free

ASSUME MaxActiveAssumption == MaxActive \in Nat \ {0}
ASSUME StoreAssumption == Target \in [Tasks -> Conns] /\ Leads \in [Conns -> Instances]
ASSUME EditableAssumption == Editable \subseteq Conns /\ Deletable \subseteq Tasks
ASSUME NonEmptyAssumption == Tasks # {} /\ Instances # {}
ASSUME NamesAssumption == NoTask \notin Tasks \cup Conns /\ Free \notin Requests

VARIABLES
    tasks,     \* SQLite: target connection of a task, NoTask when deleted
    conns,     \* SQLite: the instance a connection leads to
    status,    \* SQLite: status of a run, "none" while there is no row
    taskOf,    \* SQLite: task of a run
    runner,    \* "up", "closing", "stopped" (shut down) or "crashed"
    mu,        \* the request that holds a.mu
    active,    \* a.active
    stopping,  \* runs in a.active with stopping set
    verdict,   \* status a watcher is about to write; "lost" once its UPDATE has failed
    timers,    \* runs with a 15 s kill timer
    req,       \* state of the start requests
    deleting,  \* the task deleteTask has found inactive
    child,     \* task process of a run: "none", "alive", "interrupted" (by SIGINT), "dead"
    writesTo   \* the instance it writes to

store == <<tasks, conns>>
rows == <<status, taskOf>>
memory == <<mu, active, stopping, verdict, timers, req, deleting>>
processes == <<child, writesTo>>
vars == <<store, rows, runner, memory, processes>>

Idle == [pc |-> "idle"]
Unfinished == {r \in Runs : status[r] \in {"RUNNING", "STOPPING"}}
Alive == {r \in Runs : child[r] \in {"alive", "interrupted"}}
Serving == runner \in {"up", "closing"}

Init ==
    /\ tasks = Target /\ conns = Leads
    /\ status = [r \in Runs |-> "none"]
    /\ taskOf = [r \in Runs |-> CHOOSE t \in Tasks : TRUE]
    /\ runner = "up" /\ mu = Free
    /\ active = {} /\ stopping = {} /\ timers = {}
    /\ verdict = [r \in Runs |-> "none"]
    /\ req = [q \in Requests |-> Idle]
    /\ deleting = NoTask
    /\ child = [r \in Runs |-> "none"]
    /\ writesTo = [r \in Runs |-> CHOOSE i \in Instances : TRUE]

(***************************************************************************)
(* Starting a run.                                                         *)
(***************************************************************************)
\* startTask: taskConnections, then preflight.
StartTask(q, t) ==
    /\ Serving /\ req[q] = Idle
    /\ tasks[t] # NoTask
    /\ req' = [req EXCEPT ![q] = [pc |-> "preflight", task |-> t, conn |-> tasks[t],
                                  inst |-> conns[tasks[t]]]]
    /\ UNCHANGED <<store, rows, runner, mu, active, stopping, verdict, timers, deleting, processes>>

activeRun(t) == \E r \in Unfinished : taskOf[r] = t

targetBusy(conn, inst) ==
    \E t \in Tasks : /\ tasks[t] # NoTask /\ activeRun(t)
                     /\ tasks[t] = conn \/ conns[tasks[t]] = inst

\* Fault: the checks are made without taking a.mu.
CheckUnlocked(q) ==
    /\ Serving /\ req[q].pc = "preflight"
    /\ Cardinality(active) < MaxActive
    /\ ~ activeRun(req[q].task)
    /\ ~ targetBusy(req[q].conn, req[q].inst)
    /\ req' = [req EXCEPT ![q].pc = "checked"]
    /\ UNCHANGED <<store, rows, runner, mu, active, stopping, verdict, timers, deleting, processes>>

\* startRun: lock, limit, activeRun, targetBusy.
Check(q) ==
    /\ Serving /\ req[q].pc = "preflight" /\ mu = Free
    /\ Cardinality(active) < MaxActive
    /\ ~ activeRun(req[q].task)
    /\ ~ targetBusy(req[q].conn, req[q].inst)
    /\ mu' = q
    /\ req' = [req EXCEPT ![q].pc = "checked"]
    /\ UNCHANGED <<store, rows, runner, active, stopping, verdict, timers, deleting, processes>>

\* A failed check or preflight, a version that cannot be read, a file that cannot be
\* written, a process that cannot be started.
GiveUp(q) ==
    /\ Serving /\ req[q].pc \in {"preflight", "checked"}
    /\ req' = [req EXCEPT ![q] = Idle]
    /\ mu' = IF mu = q THEN Free ELSE mu
    /\ UNCHANGED <<store, rows, runner, active, stopping, verdict, timers, deleting, processes>>

\* cmd.Start
Spawn(q, r) ==
    /\ Serving /\ req[q].pc = "checked"
    /\ child[r] = "none"
    /\ child' = [child EXCEPT ![r] = "alive"]
    /\ writesTo' = [writesTo EXCEPT ![r] = req[q].inst]
    /\ taskOf' = [taskOf EXCEPT ![r] = req[q].task]
    /\ req' = [req EXCEPT ![q] = [pc |-> "spawned", run |-> r]]
    /\ UNCHANGED <<store, status, runner, mu, active, stopping, verdict, timers, deleting>>

\* INSERT INTO runs, a.active, unlock, go watchRun.
Record(q) ==
    /\ Serving /\ req[q].pc = "spawned"
    /\ ~ activeRun(taskOf[req[q].run])          \* UNIQUE INDEX one_active_run
    /\ status' = [status EXCEPT ![req[q].run] = "RUNNING"]
    /\ active' = active \cup {req[q].run}
    /\ req' = [req EXCEPT ![q] = Idle]
    /\ mu' = Free
    /\ UNCHANGED <<store, taskOf, runner, stopping, verdict, timers, deleting, processes>>

\* The INSERT fails: the process is killed and waited for.
RecordError(q) ==
    /\ Serving /\ req[q].pc = "spawned"
    /\ child' = [child EXCEPT ![req[q].run] = "dead"]
    /\ req' = [req EXCEPT ![q] = Idle]
    /\ mu' = Free
    /\ UNCHANGED <<store, rows, runner, active, stopping, verdict, timers, deleting, writesTo>>

(***************************************************************************)
(* Stopping a run.  A second SIGINT makes the task process exit at once.   *)
(***************************************************************************)
Interrupted(set) ==
    child' = [r \in Runs |-> IF r \notin set THEN child[r]
                             ELSE IF child[r] = "alive" THEN "interrupted" ELSE "dead"]

\* Fault: the run is looked up before the lock is taken, and its end not noticed.
StopRunUnchecked(r) ==
    /\ Serving /\ mu = Free
    /\ status[r] # "none" /\ r \notin stopping
    /\ stopping' = stopping \cup {r}
    /\ status' = [status EXCEPT ![r] = "STOPPING"]
    /\ timers' = timers \cup {r}
    /\ Interrupted({r})
    /\ UNCHANGED <<store, taskOf, runner, mu, active, verdict, req, deleting, writesTo>>

\* Fault: no kill timer.
StopRunPolitely(r) ==
    /\ Serving /\ mu = Free
    /\ r \in active \ stopping
    /\ stopping' = stopping \cup {r}
    /\ status' = [status EXCEPT ![r] = "STOPPING"]
    /\ Interrupted({r})
    /\ UNCHANGED <<store, taskOf, runner, mu, active, verdict, timers, req, deleting, writesTo>>

\* An error of the UPDATE is ignored.
StopRun(r) ==
    /\ Serving /\ mu = Free
    /\ r \in active \ stopping
    /\ stopping' = stopping \cup {r}
    /\ status' \in {[status EXCEPT ![r] = "STOPPING"], status}
    /\ timers' = timers \cup {r}
    /\ Interrupted({r})
    /\ UNCHANGED <<store, taskOf, runner, mu, active, verdict, req, deleting, writesTo>>

\* The goroutine of stopRun, 15 s later.
KillTimer(r) ==
    /\ Serving /\ mu = Free
    /\ r \in timers
    /\ timers' = timers \ {r}
    /\ child' = [child EXCEPT ![r] = IF r \in active THEN "dead" ELSE @]
    /\ UNCHANGED <<store, rows, runner, mu, active, stopping, verdict, req, deleting, writesTo>>

(***************************************************************************)
(* watchRun: the run leaves a.active under the lock; the row is updated    *)
(* afterwards without it.                                                  *)
(***************************************************************************)
WatchReap(r) ==
    /\ Serving /\ mu = Free
    /\ r \in active /\ child[r] = "dead"
    /\ active' = active \ {r}
    /\ stopping' = stopping \ {r}
    /\ verdict' = [verdict EXCEPT ![r] = IF r \in stopping THEN "STOPPED" ELSE "FAILED"]
    /\ UNCHANGED <<store, rows, runner, mu, timers, req, deleting, processes>>

Deciding(r) == verdict[r] \in {"STOPPED", "FAILED"}

\* Fault: only a row that says RUNNING is updated.
WatchUpdateRunning(r) ==
    /\ Serving /\ Deciding(r)
    /\ status' = [status EXCEPT ![r] = IF @ = "RUNNING" THEN verdict[r] ELSE @]
    /\ verdict' = [verdict EXCEPT ![r] = "none"]
    /\ UNCHANGED <<store, taskOf, runner, mu, active, stopping, timers, req, deleting, processes>>

WatchUpdate(r) ==
    /\ Serving /\ Deciding(r)
    /\ status' = [status EXCEPT ![r] = verdict[r]]
    /\ verdict' = [verdict EXCEPT ![r] = "none"]
    /\ UNCHANGED <<store, taskOf, runner, mu, active, stopping, timers, req, deleting, processes>>

\* The UPDATE fails: the error is dropped, nobody tries again, and the row stays
\* unfinished until the runner is started again.
WatchUpdateError(r) ==
    /\ Serving /\ Deciding(r)
    /\ verdict' = [verdict EXCEPT ![r] = "lost"]
    /\ UNCHANGED <<store, rows, runner, mu, active, stopping, timers, req, deleting, processes>>

(***************************************************************************)
(* Users edit connections and delete tasks, without a.mu.                  *)
(***************************************************************************)
UpdateConnection(c, i) ==
    /\ Serving /\ c \in Editable
    /\ conns' = [conns EXCEPT ![c] = i]
    /\ UNCHANGED <<tasks, rows, runner, memory, processes>>

\* deleteTask goes on when activeRun finds no run, and also when its query fails: the
\* error is dropped.
DeleteTaskCheck(t) ==
    /\ Serving /\ deleting = NoTask
    /\ t \in Deletable /\ tasks[t] # NoTask
    /\ \E failed \in BOOLEAN : failed \/ ~ activeRun(t)
    /\ deleting' = t
    /\ UNCHANGED <<store, rows, runner, mu, active, stopping, verdict, timers, req, processes>>

DeleteTask ==
    /\ Serving /\ deleting # NoTask
    /\ tasks' = [tasks EXCEPT ![deleting] = NoTask]
    /\ deleting' = NoTask
    /\ UNCHANGED <<conns, rows, runner, mu, active, stopping, verdict, timers, req, processes>>

(***************************************************************************)
(* The runner itself.                                                      *)
(***************************************************************************)
\* The goroutine of shutdown signals every run; 2 s later the server is closed.
Shutdown ==
    /\ runner = "up" /\ mu = Free
    /\ runner' = "closing"
    /\ stopping' = active
    /\ Interrupted(active)
    /\ UNCHANGED <<store, rows, mu, active, verdict, timers, req, deleting, writesTo>>

\* The process ends: everything in memory is lost, the pipes end.
Gone(how) ==
    /\ runner' = how
    /\ mu' = Free /\ active' = {} /\ stopping' = {} /\ timers' = {}
    /\ verdict' = [r \in Runs |-> "none"]
    /\ req' = [q \in Requests |-> Idle]
    /\ deleting' = NoTask
    /\ UNCHANGED <<store, rows, processes>>

\* Serve returns as soon as the server is told to close, and main returns.
Exit == runner = "closing" /\ Gone("stopped")

Crash == Serving /\ Gone("crashed")

\* Fault: the old processes are not waited for.
BootAtOnce ==
    /\ ~ Serving
    /\ status' = [r \in Runs |-> IF r \in Unfinished THEN "FAILED" ELSE status[r]]
    /\ runner' = "up"
    /\ UNCHANGED <<store, taskOf, memory, processes>>

\* serveRunner: reconcileOldRuns waits for the processes of unfinished rows, and the
\* start fails when one of them stays; markInterrupted.
Boot ==
    /\ ~ Serving
    /\ Unfinished \cap Alive = {}
    /\ status' = [r \in Runs |-> IF r \in Unfinished THEN "FAILED" ELSE status[r]]
    /\ runner' = "up"
    /\ UNCHANGED <<store, taskOf, memory, processes>>

(***************************************************************************)
(* Task processes end by themselves, or because they were told to; the     *)
(* liveness goroutine ends an orphan after 15 s.                           *)
(***************************************************************************)
ChildEnds(r) ==
    /\ r \in Alive
    /\ child' = [child EXCEPT ![r] = "dead"]
    /\ UNCHANGED <<store, rows, runner, memory, writesTo>>

\* The runner holds the write end of the pipe while startRun or watchRun does.
Orphan(r) == r \in Alive \ active /\ \A q \in Requests : req[q] # [pc |-> "spawned", run |-> r]

Next ==
    \/ \E q \in Requests :
          \/ \E t \in Tasks : StartTask(q, t)
          \/ Check(q) \/ GiveUp(q) \/ Record(q) \/ RecordError(q)
          \/ \E r \in Runs : Spawn(q, r)
    \/ \E r \in Runs : StopRun(r) \/ KillTimer(r) \/ WatchReap(r) \/ ChildEnds(r)
                        \/ WatchUpdate(r) \/ WatchUpdateError(r)
    \/ \E c \in Conns, i \in Instances : UpdateConnection(c, i)
    \/ \E t \in Tasks : DeleteTaskCheck(t)
    \/ DeleteTask
    \/ Shutdown \/ Exit \/ Crash \/ Boot

Spec == Init /\ [][Next]_vars

(***************************************************************************)
(* Goroutines and timers run; a process without runner leaves.  A process  *)
(* that only got a SIGINT may stay for ever (for example in the wait of    *)
(* RedisWriter, when its query limit is below the buffered bytes),         *)
(* and nobody has to start the runner again.                               *)
(***************************************************************************)
Fairness ==
    /\ \A q \in Requests : WF_vars(Check(q) \/ GiveUp(q) \/ Record(q) \/ RecordError(q)
                                   \/ \E r \in Runs : Spawn(q, r))
    /\ \A r \in Runs :
          /\ SF_vars(KillTimer(r)) /\ SF_vars(WatchReap(r))
          /\ WF_vars(WatchUpdate(r) \/ WatchUpdateError(r))
          /\ WF_vars(Orphan(r) /\ ChildEnds(r))
    /\ WF_vars(Exit)

FairSpec == Spec /\ Fairness
-----------------------------------------------------------------------------
\* A start request that waits for its preflight or holds the lock, and one whose
\* process has been started.
Request ==
    {Idle} \cup [pc : {"preflight", "checked"}, task : Tasks, conn : Conns, inst : Instances]
           \cup [pc : {"spawned"}, run : Runs]

TypeOK ==
    /\ tasks \in [Tasks -> Conns \cup {NoTask}] /\ conns \in [Conns -> Instances]
    /\ status \in [Runs -> {"none", "RUNNING", "STOPPING", "STOPPED", "FAILED"}]
    /\ taskOf \in [Runs -> Tasks]
    /\ runner \in {"up", "closing", "stopped", "crashed"} /\ mu \in Requests \cup {Free}
    /\ active \subseteq Runs /\ stopping \subseteq active /\ timers \subseteq Runs
    /\ verdict \in [Runs -> {"none", "STOPPED", "FAILED", "lost"}]
    /\ deleting \in Tasks \cup {NoTask}
    /\ req \in [Requests -> Request]
    /\ child \in [Runs -> {"none", "alive", "interrupted", "dead"}]
    /\ writesTo \in [Runs -> Instances]

\* A run that is shown as ended has no process any more: a restart of the runner may
\* mark it FAILED only after the process is gone.
EndedIsDead == \A r \in Alive : status[r] \notin {"STOPPED", "FAILED"}

\* The runtime design says there are never two processes of one task, whatever
\* crashes in between.
OneProcessPerTask == \A r, s \in Alive : taskOf[r] = taskOf[s] => r = s

\* The processes the runs table knows of.
Recorded == {r \in Alive : status[r] # "none"}

\* Two runs never write to the same instance at the same time, whatever address they
\* use, as startRun asks targetBusy.  Runs of deleted tasks, which targetBusy does not
\* see, are left out; RunnerProofs proves it for connections that are not edited.
ExclusiveTargetOfKept ==
    \A r, s \in {x \in Recorded : tasks[taskOf[x]] # NoTask} : writesTo[r] = writesTo[s] => r = s

\* The processes the runs table knows of, and the ones a start request has just started
\* and is about to insert.
Owned == Recorded \cup {r \in Alive : \E q \in Requests : req[q] = [pc |-> "spawned", run |-> r]}

\* The limit of active runs holds for processes, although starting is not one step and
\* requests start together.  One kind of process is not counted: the one whose start a
\* crash of the runner cut off before the INSERT.  It has no row, nobody owns it, and it
\* may run beside MaxActive others until it notices the end of the pipe.
ConcurrencyLimit == Cardinality(Owned) <= MaxActive

\* The runs table: one unfinished run per task, and a run that has ended is never
\* touched again, although stop requests race with the end of the process.
History == INSTANCE RunHistory
ImplementsRunHistory == History!HSpec

\* A run that a user stops is over in bounded time, even when the process ignores the
\* signal or the runner goes away meanwhile.
StopEndsProcess == \A r \in Runs : (r \in stopping) ~> (child[r] = "dead")

\* The end of a process reaches the runs table, although stop, kill timer and watcher
\* race for it.  Two things can prevent it: the runner goes away first, or the single
\* UPDATE of watchRun fails, whose error is dropped (runner.go:278).
EndIsRecorded ==
    \A r \in Runs :
        (r \in active /\ child[r] = "dead") ~> (r \notin Unfinished \/ ~ Serving \/ verdict[r] = "lost")
=============================================================================
