----------------------------- MODULE MCMidTurn -----------------------------
(***************************************************************************)
(* A run with two typed messages, one of which may begin with a slash, and *)
(* one background job.                                                     *)
(***************************************************************************)
EXTENDS MidTurn
=============================================================================
