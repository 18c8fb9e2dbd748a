-------------------------- MODULE MCOffsetTracker --------------------------
(***************************************************************************)
(* Two source nodes share a window of two slots; each streams up to three  *)
(* commands.  Completions arrive in every order.                           *)
(***************************************************************************)
EXTENDS OffsetTracker

CONSTANTS n1, n2

MCNodes == {n1, n2}
MCOffsets == 0..2
=============================================================================
