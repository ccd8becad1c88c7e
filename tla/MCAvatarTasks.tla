--------------------------- MODULE MCAvatarTasks ---------------------------
(* Two tasks of one owner on one thread: the first mints it, the second     *)
(* names it.                                                                *)
EXTENDS AvatarTasks, TLC

CONSTANTS t1, t2, c1, u

MCTasks == {t1, t2}
MCOwnerOf == t1 :> u @@ t2 :> u
MCThreadOf == t1 :> c1 @@ t2 :> c1
MCMinting == {t1}

ASSUME TaskConstants
=============================================================================
