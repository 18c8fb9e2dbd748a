----------------------------- MODULE RunHistory -----------------------------
(***************************************************************************)
(* What the runs table promises to its readers: a run appears once, as     *)
(* RUNNING, only while its task has no other unfinished run; it may turn   *)
(* to STOPPING; it ends once, as STOPPED or FAILED, and is never touched   *)
(* again.  Several runs may end together (a restart of the runner).        *)
(*                                                                         *)
(* Runner (cmd/redisshakeweb/runner.go) is shown to implement this.        *)
(***************************************************************************)
CONSTANTS Tasks, Runs

VARIABLES status,  \* status of the row of a run, "none" before it is inserted
          taskOf   \* task of the run, meaningful when there is a row

hvars == <<status, taskOf>>

HActive == {r \in Runs : status[r] \in {"RUNNING", "STOPPING"}}

HInit == status = [r \in Runs |-> "none"] /\ taskOf \in [Runs -> Tasks]

HInsert(r) ==
    /\ status[r] = "none"
    /\ status' = [status EXCEPT ![r] = "RUNNING"]
    /\ \A s \in HActive : taskOf'[s] # taskOf'[r]

HStopping(r) ==
    /\ r \in HActive
    /\ status' = [status EXCEPT ![r] = "STOPPING"]

HEnd(ended) ==
    /\ ended \subseteq HActive
    /\ \E word \in {"STOPPED", "FAILED"} :
          status' = [r \in Runs |-> IF r \in ended THEN word ELSE status[r]]

\* The task of a run is settled when its row is inserted.
HNext ==
    /\ \/ \E r \in Runs : HInsert(r) \/ HStopping(r)
       \/ \E ended \in SUBSET Runs : HEnd(ended)
    /\ taskOf' \in [Runs -> Tasks]
    /\ \A r \in Runs : status[r] # "none" => taskOf'[r] = taskOf[r]

HSpec == HInit /\ [][HNext]_hvars
=============================================================================
