--------------------------- MODULE MCElementRefs ---------------------------
(* Two operations at once on one tab.                                      *)
EXTENDS ElementRefs, TLC

CONSTANTS o1, o2, t1, n1, n2

MCOps == {o1, o2}
MCTabs == {t1}
MCNodes == {n1, n2}
Alike == Permutations(MCOps) \cup Permutations(MCNodes)
=============================================================================
