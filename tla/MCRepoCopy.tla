----------------------------- MODULE MCRepoCopy -----------------------------
(***************************************************************************)
(* Two conversations and three seats, two of them in use at a time: two    *)
(* chat turns of one conversation, and a scheduled run of the other.       *)
(***************************************************************************)
EXTENDS RepoCopy, TLC

CONSTANTS c1, c2, chat1, chat2, routine

SeatOf == (chat1 :> c1) @@ (chat2 :> c1) @@ (routine :> c2)

\* Bound: once two runs of one conversation have overlapped, of which the
\* properties of repo_run say nothing, only states without the lock go on.
OverlapBound == apart \/ heldBy = NoOne

\* The two chat seats are interchangeable.
Symmetry == Permutations({chat1, chat2})
=============================================================================
