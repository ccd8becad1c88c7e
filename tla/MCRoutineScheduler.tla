------------------------- MODULE MCRoutineScheduler -------------------------
(***************************************************************************)
(* Two jobs of one owner, the first with a working repository, and one of  *)
(* another owner, who chats on its thread.                                 *)
(***************************************************************************)
EXTENDS RoutineScheduler, TLC

CONSTANTS ann, bob, a1, a2, b1

Daily == [kind |-> "every", at |-> 1]
Once == [kind |-> "once", at |-> 2]

OwnedBy == (a1 :> ann) @@ (a2 :> ann) @@ (b1 :> bob)
PlannedBy == (a1 :> {Once, Daily}) @@ (a2 :> {Once}) @@ (b1 :> {Daily})
PlannedByAnn == (a1 :> {Once, Daily}) @@ (a2 :> {Once, Daily})
OwnedByAnn == (a1 :> ann) @@ (a2 :> ann)
=============================================================================
