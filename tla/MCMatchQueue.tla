---------------------------- MODULE MCMatchQueue ----------------------------
(* MatchQueue on a small instance. *)
EXTENDS MatchQueue
=============================================================================
