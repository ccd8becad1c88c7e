-------------------------- MODULE MCBrowserRelay --------------------------
(* Two operations of one run, one of them with a secret, and two pages.    *)
EXTENDS BrowserRelay, TLC

CONSTANTS o1, o2, a, b

MCRequests == {o1, o2}
MCSecrets == {o2}
MCPages == {a, b}
OnePage == {a}
Alike == Permutations(MCPages)
=============================================================================
