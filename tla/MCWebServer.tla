---------------------------- MODULE MCWebServer ----------------------------
(* Small instances of WebServer for TLC. *)
EXTENDS WebServer, TLC

Interchangeable == Permutations(Workers)
=============================================================================
