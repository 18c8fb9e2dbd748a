------------------------------ MODULE WebServer ------------------------------
(***************************************************************************)
(* The HTTP handlers of the web back end (cmd/redisshakeweb: auth.go,      *)
(* api.go) over its SQLite store (store.go): the administrator and the     *)
(* sessions, the connections, the tasks.                                   *)
(*                                                                         *)
(* Every request has a goroutine of its own.  The store has one database   *)
(* connection, so a statement or a transaction is atomic and everything    *)
(* between two of them (a hash, a check of a Redis server) interleaves     *)
(* with the other requests.  A password is a model value; the hash in the  *)
(* store is the number of its change, so that two hashes differ.           *)
(***************************************************************************)
EXTENDS Integers, FiniteSets, Sequences

CONSTANTS
    Workers,      \* requests that run at the same time
    Passwords,
    Conns,        \* IDs of connections
    Limit,        \* failed logins of a minute (10)
    MaxRequests,  \* bound: requests
    MaxTasks      \* bound: tasks ever created

ASSUME WorkersAssumption == IsFiniteSet(Workers) /\ Workers # {}
ASSUME LimitAssumption == Limit \in Nat \ {0} /\ {MaxRequests, MaxTasks} \subseteq Nat

VARIABLES
    admin,     \* [password, version]; version 0: not initialised
    sessions,  \* rows that have not expired: [id, version]; version: of the password that was verified
    failures,  \* loginFailures
    minute,    \* a minute has passed since loginWindow
    conns,     \* rows of connections
    tasks,     \* rows of tasks: [id, source, target]
    active,    \* tasks with a run that has not ended
    req,       \* the requests: [op, pc, ...] of each worker
    served,    \* requests so far
    created    \* tasks so far

authState == <<admin, sessions, failures, minute>>
catalog == <<conns, tasks, active, created>>
vars == <<authState, catalog, req, served>>

Idle == [op |-> "none"]

Init ==
    /\ admin = [password |-> "", version |-> 0] /\ sessions = {} /\ failures = 0 /\ minute = TRUE
    /\ conns = {} /\ tasks = {} /\ active = {}
    /\ req = [w \in Workers |-> Idle] /\ served = 0 /\ created = 0

At(w, op, pc) == req[w].op = op /\ req[w].pc = pc
Goto(w, r) == req' = [req EXCEPT ![w] = r] /\ UNCHANGED served
Respond(w) == Goto(w, Idle)
Accept(w, r) ==
    /\ req[w] = Idle /\ served < MaxRequests
    /\ req' = [req EXCEPT ![w] = r] /\ served' = served + 1

\* requireAuth: the session, and the CSRF token derived from it, are looked at once,
\* before the handler runs.
Authenticated == sessions # {}

-----------------------------------------------------------------------------
(* bootstrapInit: the hash is computed before the single row is inserted. *)
BootstrapInit(w, p) ==
    /\ Accept(w, [op |-> "init", pc |-> "insert", password |-> p])
    /\ UNCHANGED <<authState, catalog>>

BootstrapInsert(w) ==
    /\ At(w, "init", "insert")
    /\ admin' = IF admin.version = 0 THEN [password |-> req[w].password, version |-> 1] ELSE admin
    /\ Respond(w)
    /\ UNCHANGED <<sessions, failures, minute, catalog>>

(***************************************************************************)
(* login: the limit is checked under authMu, which is released before the  *)
(* password is verified and taken again to count a failure.                *)
(***************************************************************************)
\* Fault: one more than the limit.
LoginOneMore(w, p) ==
    LET n == IF minute THEN 0 ELSE failures
    IN /\ failures' = n /\ minute' = FALSE
       /\ \/ n > Limit /\ Accept(w, Idle)
          \/ n <= Limit /\ Accept(w, [op |-> "login", pc |-> "verify", password |-> p, id |-> served])
       /\ UNCHANGED <<admin, sessions, catalog>>

Login(w, p) ==
    LET n == IF minute THEN 0 ELSE failures
    IN /\ failures' = n /\ minute' = FALSE
       /\ \/ n >= Limit /\ Accept(w, Idle)
          \/ n < Limit /\ Accept(w, [op |-> "login", pc |-> "verify", password |-> p, id |-> served])
       /\ UNCHANGED <<admin, sessions, catalog>>

\* The row is read and the hash computed from it; what was verified is the password of
\* that row.  A query that fails is a failed login too.
LoginVerify(w) ==
    /\ At(w, "login", "verify")
    /\ \/ /\ admin.version # 0 /\ admin.password = req[w].password
          /\ Goto(w, [op |-> "login", pc |-> "insert", id |-> req[w].id, version |-> admin.version])
       \/ Goto(w, [op |-> "login", pc |-> "count"])
    /\ UNCHANGED <<authState, catalog>>

LoginCount(w) ==
    /\ At(w, "login", "count")
    /\ failures' = failures + 1
    /\ Respond(w)
    /\ UNCHANGED <<admin, sessions, minute, catalog>>

LoginInsert(w) ==
    /\ At(w, "login", "insert")
    /\ sessions' = sessions \cup {[id |-> req[w].id, version |-> req[w].version]}
    /\ Goto(w, [op |-> "login", pc |-> "reset"])
    /\ UNCHANGED <<admin, failures, minute, catalog>>

LoginReset(w) ==
    /\ At(w, "login", "reset")
    /\ failures' = 0
    /\ Respond(w)
    /\ UNCHANGED <<admin, sessions, minute, catalog>>

\* logout deletes the session that authenticated it.
Logout(w) ==
    /\ Authenticated
    /\ \E s \in sessions : Accept(w, [op |-> "logout", pc |-> "delete", session |-> s])
    /\ UNCHANGED <<authState, catalog>>

LogoutDelete(w) ==
    /\ At(w, "logout", "delete")
    /\ sessions' = sessions \ {req[w].session}
    /\ Respond(w)
    /\ UNCHANGED <<admin, failures, minute, catalog>>

(***************************************************************************)
(* changePassword: the old password is verified against the row, then one  *)
(* transaction replaces the hash and deletes the sessions.                 *)
(***************************************************************************)
ChangePassword(w, old, new) ==
    /\ Authenticated
    /\ Accept(w, [op |-> "password", pc |-> "verify", old |-> old, new |-> new])
    /\ UNCHANGED <<authState, catalog>>

ChangeVerify(w) ==
    /\ At(w, "password", "verify")
    /\ IF admin.password = req[w].old
       THEN Goto(w, [op |-> "password", pc |-> "commit", new |-> req[w].new])
       ELSE Respond(w)
    /\ UNCHANGED <<authState, catalog>>

\* Fault: the transaction replaces the hash and leaves the sessions.
ChangeCommitAlone(w) ==
    /\ At(w, "password", "commit")
    /\ admin' = [password |-> req[w].new, version |-> admin.version + 1]
    /\ Respond(w)
    /\ UNCHANGED <<sessions, failures, minute, catalog>>

ChangeCommit(w) ==
    /\ At(w, "password", "commit")
    /\ admin' = [password |-> req[w].new, version |-> admin.version + 1]
    /\ sessions' = {}
    /\ Respond(w)
    /\ UNCHANGED <<failures, minute, catalog>>

-----------------------------------------------------------------------------
(***************************************************************************)
(* Connections.  An update reads the old row, for its secrets, and writes  *)
(* the new one with an upsert; a deletion reads all tasks first.           *)
(***************************************************************************)
CreateConnection(w, c) ==
    /\ Authenticated /\ c \notin conns
    /\ Accept(w, Idle)
    /\ conns' = conns \cup {c}
    /\ UNCHANGED <<authState, tasks, active, created>>

UpdateConnection(w, c) ==
    /\ Authenticated
    /\ Accept(w, IF c \in conns THEN [op |-> "update", pc |-> "save", conn |-> c] ELSE Idle)
    /\ UNCHANGED <<authState, catalog>>

UpdateSave(w) ==
    /\ At(w, "update", "save")
    /\ conns' = conns \cup {req[w].conn}
    /\ Respond(w)
    /\ UNCHANGED <<authState, tasks, active, created>>

Referenced(c) == \E t \in tasks : t.source = c \/ t.target = c

DeleteConnection(w, c) ==
    /\ Authenticated
    /\ Accept(w, IF Referenced(c) THEN Idle
                 ELSE [op |-> "deleteConnection", pc |-> "delete", conn |-> c])
    /\ UNCHANGED <<authState, catalog>>

DeleteConnectionRow(w) ==
    /\ At(w, "deleteConnection", "delete")
    /\ conns' = conns \ {req[w].conn}
    /\ Respond(w)
    /\ UNCHANGED <<authState, tasks, active, created>>

(***************************************************************************)
(* Tasks.  createTask takes the IDs of its connections as they come;       *)
(* startTask reads them, runs the checks, and starts a run of what it has  *)
(* read; deleteTask looks for a run first, and goes on when the query      *)
(* fails.                                                                  *)
(***************************************************************************)
SaveTask(w, source, target) ==
    /\ created < MaxTasks
    /\ Accept(w, Idle)
    /\ created' = created + 1
    /\ tasks' = tasks \cup {[id |-> created + 1, source |-> source, target |-> target]}
    /\ UNCHANGED <<authState, conns, active>>

CreateTask(w, source, target) == Authenticated /\ SaveTask(w, source, target)
CopyTask(w, t) == Authenticated /\ SaveTask(w, t.source, t.target)

StartTask(w, t) ==
    /\ Authenticated
    /\ Accept(w, IF {t.source, t.target} \subseteq conns
                 THEN [op |-> "start", pc |-> "preflight", task |-> t] ELSE Idle)
    /\ UNCHANGED <<authState, catalog>>

\* The checks pass and startRun inserts the row (Runner), or one of both refuses.
StartRun(w) ==
    /\ At(w, "start", "preflight")
    /\ active' = active \cup {req[w].task}
    /\ Respond(w)
    /\ UNCHANGED <<authState, conns, tasks, created>>

RunEnds(t) ==
    /\ t \in active /\ active' = active \ {t}
    /\ UNCHANGED <<authState, conns, tasks, created, req, served>>

DeleteTask(w, t) ==
    /\ Authenticated
    /\ \E failed \in BOOLEAN :
          Accept(w, IF t \in active /\ ~ failed THEN Idle
                    ELSE [op |-> "deleteTask", pc |-> "delete", task |-> t])
    /\ UNCHANGED <<authState, catalog>>

DeleteTaskRow(w) ==
    /\ At(w, "deleteTask", "delete")
    /\ tasks' = tasks \ {req[w].task}
    /\ Respond(w)
    /\ UNCHANGED <<authState, conns, active, created>>

-----------------------------------------------------------------------------
\* A handler that answers with writeError and returns: a statement fails, a body is
\* malformed, a check refuses.  A login that has only to count, or has its session, does
\* not fail.
Abort(w) ==
    /\ req[w] # Idle
    /\ req[w].op = "login" => req[w].pc \notin {"count", "reset"}
    /\ Respond(w)
    /\ UNCHANGED <<authState, catalog>>

MinutePasses == ~ minute /\ minute' = TRUE /\ UNCHANGED <<admin, sessions, failures, catalog, req, served>>

SessionExpires(s) ==
    /\ sessions' = sessions \ {s}
    /\ UNCHANGED <<admin, failures, minute, catalog, req, served>>

AuthStep(w) ==
    \/ \E p \in Passwords : BootstrapInit(w, p) \/ Login(w, p)
    \/ \E old, new \in Passwords : ChangePassword(w, old, new)
    \/ BootstrapInsert(w) \/ LoginVerify(w) \/ LoginCount(w) \/ LoginInsert(w) \/ LoginReset(w)
    \/ Logout(w) \/ LogoutDelete(w) \/ ChangeVerify(w) \/ ChangeCommit(w)

CatalogStep(w) ==
    \/ \E c \in Conns : CreateConnection(w, c) \/ UpdateConnection(w, c) \/ DeleteConnection(w, c)
    \/ UpdateSave(w) \/ DeleteConnectionRow(w)
    \/ \E c, d \in Conns : CreateTask(w, c, d)
    \/ \E t \in tasks : CopyTask(w, t) \/ StartTask(w, t) \/ DeleteTask(w, t)
    \/ StartRun(w) \/ DeleteTaskRow(w)

Next ==
    \/ \E w \in Workers : AuthStep(w) \/ CatalogStep(w) \/ Abort(w)
    \/ MinutePasses
    \/ \E s \in sessions : SessionExpires(s)
    \/ \E t \in active : RunEnds(t)

Spec == Init /\ [][Next]_vars

-----------------------------------------------------------------------------
\* The limit is checked before and counted after the slow hash (auth.go:114-133): the count of
\* failures exceeds it by no more than the requests that were verified at the same time.
FailuresBounded == failures <= Limit - 1 + Cardinality(Workers)

\* Sessions that were granted for a password that has been changed since.
Stale == {s \in sessions : s.version # admin.version}

\* runtime-design.md:103: a change of the password revokes all old sessions.  The
\* transaction deletes the sessions in the table, but a login that has verified the old
\* password and not inserted yet (auth.go:130-143) gets its session afterwards.  However
\* many logins and changes overlap, the sessions of old passwords are fewer than the
\* requests that run at the same time: only logins in flight at the last change have one.
StaleSessionsBounded == Cardinality(Stale) < Cardinality(Workers)

\* product-spec.md:60 and :135: a connection that a task refers to is not deleted, nor a
\* task with an active run.  deleteConnection and deleteTask look first and delete in a
\* second statement; a task or a run may come into being in between.
InUseIsKept ==
    [][/\ \A c \in conns \ conns' : ~ Referenced(c)
       /\ \A t \in tasks \ tasks' : t \notin active]_vars
==============================================================================
