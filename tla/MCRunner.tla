------------------------------ MODULE MCRunner ------------------------------
(***************************************************************************)
(* Instances of Runner for TLC: two tasks of which one may be deleted, two *)
(* runs, one or two concurrent start requests.  All connections lead to    *)
(* one instance: the properties of the runs do not speak of instances.     *)
(***************************************************************************)
EXTENDS Runner, TLC

CONSTANTS t1, t2, c1, i1, r1, r2, q1, q2

TwoTasks == {t1, t2}
OneTask == {t1}
NoTasks == {}
OneConn == {c1}
NoConns == {}
OneInstance == {i1}
TwoRuns == {r1, r2}
TwoRequests == {q1, q2}
OneRequest == {q1}
MCTarget == (t1 :> c1) @@ (t2 :> c1)
MCLeads == (c1 :> i1)
=============================================================================
