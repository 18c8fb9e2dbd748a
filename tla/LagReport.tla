----------------------------- MODULE LagReport -----------------------------
(***************************************************************************)
(* The lag a task reports: ReadMasterPosition                              *)
(* (internal/client/replication.go) finds the master and its offset,       *)
(* Report (internal/progress/report.go) compares it with what was          *)
(* consumed.  The reply to INFO replication of a node is a record; fields  *)
(* the node does not report are None, and a node that does not answer has  *)
(* the role "down".                                                        *)
(***************************************************************************)
EXTENDS Integers

CONSTANTS None, MaxHops

ASSUME HopsAssumption == MaxHops \in Nat
ASSUME NoneAssumption == None \notin Int

NoPosition(what) == [error |-> what]
HasError(position) == "error" \in DOMAIN position

MasterPosition(info, node) ==
    IF info.offset = None \/ info.replid = "" THEN NoPosition("incomplete")
    ELSE [node |-> node, offset |-> info.offset, replid |-> info.replid, replid2 |-> info.replid2,
          second |-> IF info.second = None THEN -1 ELSE info.second]

\* What is found at[1] nodes after the address, at the node at[2]; f tells it of the nodes behind.
Visit(infos, f, at) ==
    LET info == infos[at[2]]
    IN IF at[1] = MaxHops THEN NoPosition("unstable")
       ELSE CASE info.role = "down" -> NoPosition("unreachable")
              [] info.role = "master" -> MasterPosition(info, at[2])
              [] info.role \in {"slave", "replica"} /\ info.master = None -> NoPosition("masterless")
              [] info.role \in {"slave", "replica"} /\ info.master # None -> f[<<at[1] + 1, info.master>>]
              [] OTHER -> NoPosition("unknown")

\* From a replica to its master, MaxHops nodes at most.
ReadMasterPosition(infos, address) ==
    LET From[at \in (0..MaxHops) \X DOMAIN infos] == Visit(infos, From, at)
    IN From[<<0, address>>]

\* Fault: the offset is not compared with the end of the previous history.
CompatibleById(consumed, master) ==
    consumed.replID # "" /\ consumed.replID \in {master.replid, master.replid2}

Compatible(consumed, master) ==
    /\ consumed.replID # ""
    /\ \/ consumed.replID = master.replid
       \/ consumed.replID = master.replid2 /\ consumed.offset <= master.second

\* consumed is what the tracker knows: [known, offset, replID].
Report(consumed, master) ==
    IF HasError(master) THEN [lag |-> None, error |-> master.error]
    ELSE IF ~ consumed.known THEN [lag |-> None, error |-> ""]
    ELSE IF ~ Compatible(consumed, master) THEN [lag |-> None, error |-> "changed"]
    ELSE IF consumed.offset < 0 \/ master.offset < consumed.offset THEN [lag |-> None, error |-> "behind"]
    ELSE [lag |-> master.offset - consumed.offset, error |-> ""]
=============================================================================
