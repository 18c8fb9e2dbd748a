--------------------------- MODULE MCRedisWriter ---------------------------
(***************************************************************************)
(* Instances of RedisWriter for TLC: two databases, channels of one and    *)
(* two places, a buffer of 3 and a limit of 4 bytes.  An entry of size 1   *)
(* fits the buffer, one of size 4 just fits the limit and straddles the    *)
(* buffer, and makes processWrite wait for itself when an entry is         *)
(* buffered; one of size 10 exceeds the limit.                             *)
(***************************************************************************)
EXTENDS RedisWriter

MCDBs == {0, 1}
MCSizes == {1, 4, 10}
ThreeKinds == {[db |-> 0, size |-> 1], [db |-> 0, size |-> 4], [db |-> 1, size |-> 10]}
AllOutcomes == {"ok", "nil", "busykey", "error"}
=============================================================================
