--------------------------- MODULE MCRunRegistry ---------------------------
(***************************************************************************)
(* A run with two questions, one secret browser operation and one browser: *)
(* browsers only read the run, so a second one adds no behaviour.          *)
(***************************************************************************)
EXTENDS RunRegistry, TLC

Symmetry == Permutations(Questions) \cup Permutations(Clients)
=============================================================================
