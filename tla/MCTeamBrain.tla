---------------------------- MODULE MCTeamBrain ----------------------------
(* A source of u's, decided by admins a and b; a has a change of her own.  *)
EXTENDS TeamBrain, TLC

CONSTANTS s1, r1, r2, d1, p1, u, a, b

MCSources == {s1}
MCReviews == {r1, r2}
MCDirects == {d1}
MCPages == {p1}
MCOwnerOf == s1 :> u @@ r1 :> a @@ r2 :> b @@ d1 :> a
MCLeaving == {u}
=============================================================================
