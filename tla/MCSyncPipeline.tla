--------------------------- MODULE MCSyncPipeline ---------------------------
(***************************************************************************)
(* Instances of SyncPipeline for TLC.                                      *)
(***************************************************************************)
EXTENDS SyncPipeline

CONSTANT n1

OneNode == {n1}

Filtered == [pass |-> FALSE, parts |-> <<>>]
Dropped == [pass |-> TRUE, parts |-> <<>>]       \* the Lua function returns nothing
ToFirst == [pass |-> TRUE, parts |-> <<<<1>>>>]
ToLast == [pass |-> TRUE, parts |-> <<<<NumShards>>>>]
Doubled == [pass |-> TRUE, parts |-> <<<<NumShards>>, <<1>>>>]

KeyCommands == {ToFirst, ToLast}
AllCommands == {Filtered, Dropped, ToFirst, ToLast, Doubled}
FewCommands == {Filtered, Dropped, ToFirst}
=============================================================================
