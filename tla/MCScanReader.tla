---------------------------- MODULE MCScanReader ----------------------------
(* Small instances of ScanReader for TLC. *)
EXTENDS ScanReader

\* The same name in two databases; the second key expires.
TwoKeys == {<<0, "a">>, <<1, "a">>}
FirstKey == {<<0, "a">>}
SecondKey == {<<1, "a">>}
TwoDbs == <<0, 1>>

\* Notifications on and overwriting, or a plain scan into an empty target, of all types or not.
BothModes == {[ksn |-> TRUE, rewrite |-> TRUE, skip |-> {}, changes |-> 2, repeats |-> 0],
              [ksn |-> FALSE, rewrite |-> FALSE, skip |-> {}, changes |-> 1, repeats |-> 1],
              [ksn |-> FALSE, rewrite |-> FALSE, skip |-> FirstKey, changes |-> 1, repeats |-> 0]}
=============================================================================
