------------------------ MODULE MCConversationTurns ------------------------
(***************************************************************************)
(* Small instances of ConversationTurns: two plain messages, one edit, one *)
(* regenerate, one task and one routine, in the combinations the .cfg      *)
(* files pick.  Turns of one kind are interchangeable.                     *)
(***************************************************************************)
EXTENDS ConversationTurns, TLC

Symmetry == Permutations(Sends)
=============================================================================
