---------------------------- MODULE MCSyncReader ----------------------------
(***************************************************************************)
(* Instances of SyncReader for TLC.                                        *)
(***************************************************************************)
EXTENDS SyncReader

Data(e) == [kind |-> "data", db |-> 0, end |-> e]
Select(d, e) == [kind |-> "select", db |-> d, end |-> e]
Ping(e) == [kind |-> "ping", db |-> 0, end |-> e]

MCStreams == {<<Select(2, 1), Data(3), Data(4)>>, <<Data(2), Ping(3)>>}
MCBases == {0, 3}
With(p, e, r, a) == [psync |-> p, eof |-> e, syncRdb |-> r, syncAof |-> a]
MCOptions == {With(TRUE, FALSE, TRUE, TRUE), With(TRUE, TRUE, TRUE, TRUE), With(FALSE, FALSE, TRUE, TRUE),
              With(TRUE, TRUE, TRUE, FALSE), With(TRUE, FALSE, FALSE, TRUE)}
=============================================================================
